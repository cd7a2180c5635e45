------------------------------- MODULE Accounts -------------------------------
(***************************************************************************)
(* The way of a user through the vault and the relay.                      *)
(*                                                                         *)
(* Each caller runs one program, a sequence of calls: the next is made     *)
(* when the last was answered, and none after a refusal, which is an       *)
(* exception in both clients.  A caller may stop anywhere (a closed page,  *)
(* a timeout); what it began goes on.  signup and signin are register and  *)
(* login of AuthContext.tsx, and what an application built on client.py    *)
(* does with create_vault_identity and load_vault_identity; the others are *)
(* calls only client.py has.                                               *)
(***************************************************************************)
EXTENDS Vault, RelayAuth

CONSTANT Plans  \* who runs which program, one function for each behaviour

Program ==
  [nothing  |-> << >>,
   signup   |-> <<"register", "store", "create", "challenge", "verify">>,
   signin   |-> <<"login", "get", "challenge", "verify">>,
   another  |-> <<"login", "store", "create">>,
   link     |-> <<"mail", "open", "logout">>,
   click    |-> <<"open">>,
   forget   |-> <<"login", "get", "delete", "logout">>,
   settings |-> <<"login", "authorize", "revoke", "recover", "email">>]

ASSUME PlansAssumption == Plans \subseteq [Callers -> DOMAIN Program]

VARIABLES
  plan,
  stage  \* stage[c]: how many calls of its program c has made

accVars == <<vaultVars, relayVars, plan, stage>>

AccTypeOK ==
  /\ VaultTypeOK
  /\ RelayTypeOK
  /\ plan \in Plans
  /\ stage \in [Callers -> 0 .. 5]

AccInit ==
  /\ VaultInit
  /\ RelayInit
  /\ plan \in Plans
  /\ stage = [c \in Callers |-> 0]

Calls(c) == Program[plan[c]]

-----------------------------------------------------------------------------
OnRelay == {"create", "challenge", "verify"}

\* The key a caller uses at the relay, and the entity id it sends there: one
\* that has just registered sends the id the relay returned, one that logs in
\* the id the vault has.
EntityId(c) == IF "create" \in {Calls(c)[n] : n \in DOMAIN Calls(c)}
                 THEN RelayId(c) ELSE VaultId(vaultArg[c])

\* The links mailed to c's address: the mail goes out after the answer.
Mailed(c) == {d \in Callers : /\ EmailOf[d] = EmailOf[c] /\ plan[d] = "link"
                              /\ stage[d] = 1 => vaultPc[d] = "ok"
                              /\ stage[d] > 0}

\* The last call is answered, the next is op.
Free(c, op) ==
  /\ stage[c] < Len(Calls(c))
  /\ Calls(c)[stage[c] + 1] = op
  /\ stage[c] > 0 =>
       IF Calls(c)[stage[c]] \in OnRelay THEN relayPc[c] = "ok"
                                         ELSE vaultPc[c] = "ok"

\* The caller makes its next call, op.
Call(c, op) ==
  /\ Free(c, op)
  /\ stage' = [stage EXCEPT ![c] = @ + 1]
  /\ UNCHANGED plan

Idle == UNCHANGED <<plan, stage>>

CallVault(c) ==
  \/ Call(c, "register")  /\ Register(c)
  \/ Call(c, "login")     /\ Login(c)
  \/ Call(c, "mail")      /\ RequestMagicLink(c)
  \/ Call(c, "open")      /\ \E l \in Mailed(c) : VerifyMagicLink(c, l)
  \/ Call(c, "logout")    /\ Logout(c)
  \/ Call(c, "store")     /\ StoreKeys(c)
  \/ Call(c, "get")       /\ GetKeys(c)
  \/ Call(c, "delete")    /\ DeleteKeys(c)
  \/ Call(c, "authorize") /\ AuthorizeDevice(c)
  \/ Call(c, "revoke")    /\ RevokeDevice(c)
  \/ Call(c, "recover")   /\ SetupRecovery(c)
  \/ Call(c, "email")     /\ VerifyEmail(c)

CallRelay(c) ==
  \/ Call(c, "create")    /\ CreateEntity(c)
  \/ Call(c, "challenge") /\ AuthChallenge(c, EntityId(c))
  \/ Call(c, "verify")    /\ \/ AuthVerify(c, EntityId(c))
                              \/ AuthVerifyLate(c, EntityId(c))

AccNext ==
  \/ \E c \in Callers : CallVault(c) /\ UNCHANGED relayVars
  \/ \E c \in Callers : CallRelay(c) /\ UNCHANGED vaultVars
  \/ VaultNext /\ UNCHANGED relayVars /\ Idle
  \/ /\ \/ \E c \in Callers : RelayContinue(c, EntityId(c))
        \/ RelayCommitElsewhere \/ RelayCrash
     /\ UNCHANGED vaultVars /\ Idle

-----------------------------------------------------------------------------
(***************************************************************************)
(* Properties.                                                             *)
(***************************************************************************)

\* c's call op has been answered, and not with an error.
Answered(c, op) ==
  \E n \in 1 .. stage[c] :
    /\ Calls(c)[n] = op
    /\ n = stage[c] => IF op \in OnRelay THEN relayPc[c] = "ok"
                                         ELSE vaultPc[c] = "ok"

Called(c, op) == \E n \in 1 .. stage[c] : Calls(c)[n] = op

Forgotten(k) == \E c \in Callers : Called(c, "delete") /\ vaultArg[c] = k

\* Both keys of k, in the account of the one who made them, on the disk.
KeysSafe(k) ==
  \E u \in vaultDisk.users :
    /\ EmailOf[u] = EmailOf[k]
    /\ \A type \in {"signing", "encryption"} :
         [user |-> u, key |-> k, type |-> type] \in vaultDisk.keys

\* There is no entity at the relay whose keys are nowhere: whatever crashes,
\* whatever other requests commit and wherever the client stops, an entity the
\* relay has can be taken up again from the vault by its owner (who has not
\* had the keys deleted).
EntityRecoverable ==
  \A k \in relayDb.entities : Forgotten(k) \/ KeysSafe(k)

\* What the vault has answered, it keeps through a crash: an account, a login,
\* a link mailed, a link spent, keys stored or deleted, and a logout.
AnswersAreDurable ==
  \A c \in Callers :
    /\ Answered(c, "register") => c \in vaultDisk.users
    /\ Answered(c, "mail") => c \in vaultDisk.links
    /\ Answered(c, "open") => vaultArg[c] \in vaultDisk.used
    /\ Answered(c, "store") => Forgotten(c) \/ KeysSafe(c)
    /\ (Answered(c, "register") \/ Answered(c, "login") \/ Answered(c, "open"))
          => Called(c, "logout") \/ \E s \in vaultDisk.sessions : s.by = c
    /\ Answered(c, "logout") =>
         \A s \in vaultDb.sessions \cup vaultDisk.sessions : s.by # c

\* A magic link opens one session, unless two requests were opening it at the
\* same time; a crash does not make it good again.
LinkOpensOnce ==
  \A s, t \in vaultDb.sessions \cup vaultDisk.sessions :
    s.link # None /\ s.link = t.link /\ s # t => s.link \in raced

\* Devices that log in to one entity at once spoil each other's challenges, but
\* not all of them: a challenge is gone only because one of them got in.
SomeLoginSucceeds ==
  \A x \in issued :
    \/ relayCrashes > 0 \/ x[1] \in expired
    \/ challenges[x[1]] # None
    \/ \E s \in relaySessions : s[1] = x[1]

\* Two entities have one handle only if they were created at the same time.
HandlesAreDistinct ==
  \A k, m \in relayDb.entities :
    k # m /\ HandleOf[k] = HandleOf[m] => {k, m} \in rivals
=============================================================================

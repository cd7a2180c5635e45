----------------------------- MODULE ServicesProofs -----------------------------
(***************************************************************************)
(* Theorems about the services, for every value of their constants: all    *)
(* requests that may be asked of one, however many times, and as many      *)
(* crashes as the bound says.                                              *)
(*                                                                         *)
(* Moderation, payments, media and the second server's logins have an      *)
(* inductive invariant each, and so have accounts.  The theorems at the    *)
(* end put them together: the service that runs keeps its own, and no step *)
(* of it touches what the others' speak of.                                *)
(***************************************************************************)
EXTENDS Services, FiniteSetTheorems, TLAPS

-----------------------------------------------------------------------------
(***************************************************************************)
(* Accounts, for any callers, addresses, handles, programs and crashes.    *)
(*                                                                         *)
(* What the properties promise is about what is over: an answer given, an  *)
(* entity made.  It rests on what is still going on: which statement of    *)
(* which call a request is at (StageInv), and what the tables hold of it   *)
(* there (the others).  A step of the vault is a statement of some request *)
(* (Performs), the beginning of one (Begins), or a commit or a crash, and  *)
(* each part of the invariant is shown to survive each of them.  At the    *)
(* relay there are fewer statements, and they are taken one by one.        *)
(***************************************************************************)

\* The call c makes now, or made last
Doing(c, op) == stage[c] > 0 /\ Calls(c)[stage[c]] = op

\* c's call op has come to one of these points, or past them.
Since(c, op, points) == Called(c, op) /\ (Doing(c, op) => vaultPc[c] \in points)

\* Calls that end in a session, and those that change an account's settings
Opens    == {"register", "login", "open"}
Settings == {"authorize", "revoke", "recover", "email"}

\* Which call a request is at work for.
StageInv ==
  \A c \in Callers :
    /\ stage[c] <= Len(Calls(c))
    /\ vaultPc[c] \in {"register_insert", "register_commit", "token_insert"} =>
         Doing(c, "register")
    /\ vaultPc[c] \in {"session_insert", "session_commit"} => \E op \in Opens : Doing(c, op)
    /\ vaultPc[c] = "link_insert" => Doing(c, "mail")
    /\ vaultPc[c] \in {"open_use", "open_commit"} => Doing(c, "open")
    /\ vaultPc[c] = "logout" => Doing(c, "logout")
    /\ vaultPc[c] \in {"store_signing", "store_encryption"} => Doing(c, "store")
    /\ vaultPc[c] = "get_select" => Doing(c, "get")
    /\ vaultPc[c] = "delete" => Doing(c, "delete")
    /\ vaultPc[c] \in {"authorize", "revoke", "recover", "verify_update", "verify_delete"} =>
         \E op \in Settings : Doing(c, op)
    /\ vaultPc[c] = "commit" =>
         \E op \in {"register", "mail", "logout", "store", "delete"} \cup Settings : Doing(c, op)
    /\ relayPc[c] \in {"create_handle", "create_insert", "create_commit", "create_log",
                       "create_log_commit"} => Doing(c, "create")
    /\ relayPc[c] \in {"verify_get", "verify_found"} => Doing(c, "verify")

\* Accounts: one an address, by callers that registered; an answered one is on the disk.
UserInv ==
  /\ vaultDisk.users \subseteq vaultDb.users
  /\ \A u, w \in vaultDb.users : EmailOf[u] = EmailOf[w] => u = w
  /\ \A u \in vaultDb.users : Called(u, "register")
  /\ \A c \in Callers :
       /\ vaultPc[c] = "register_commit" => c \in vaultDb.users
       /\ vaultPc[c] \in {"session_insert", "link_insert", "open_use", "open_commit",
                          "verify_update"} => HasAccount(c)
       /\ Since(c, "register", {"session_insert", "session_commit", "token_insert", "commit",
                                "ok"}) => c \in vaultDisk.users

\* What c's request has of the link or the key it is about.
ArgInv ==
  \A c \in Callers :
    /\ vaultArg[c] # None => Called(c, "open") \/ Called(c, "get")
    /\ Called(c, "open") \/ Since(c, "get", {"ok"}) => vaultArg[c] # None

\* Links: as lasting as their account; one that is spent is spent on the disk before
\* it opens a session.
LinkInv ==
  /\ vaultDisk.links \subseteq vaultDb.links
  /\ vaultDisk.used \subseteq vaultDb.used
  /\ \A t \in {vaultDb, vaultDisk} : \A l \in t.links : \E u \in t.users : EmailOf[u] = EmailOf[l]
  /\ \A c \in Callers :
       /\ Doing(c, "mail") /\ vaultPc[c] = "commit" => c \in vaultDb.links
       /\ Since(c, "mail", {"ok"}) => c \in vaultDisk.links
       /\ vaultPc[c] = "open_commit" => vaultArg[c] \in vaultDb.used
       /\ Since(c, "open", {"session_insert", "session_commit", "ok"}) =>
            vaultArg[c] \in vaultDisk.used

\* The sessions c has, or had before a crash.
By(t, c)  == {s \in t.sessions : s.by = c}
HeldBy(c) == By(vaultDb, c) \cup By(vaultDisk, c)

\* Sessions: of the account of one's address, one a caller, from the time its call
\* inserts it to its logout.
SessionInv ==
  /\ \A t \in {vaultDb, vaultDisk} : \A s \in t.sessions :
       s.user \in t.users /\ EmailOf[s.user] = EmailOf[s.by]
  /\ \A s, t \in vaultDb.sessions \cup vaultDisk.sessions : s.by = t.by => s = t
  /\ \A c \in Callers :
       /\ HeldBy(c) # {} =>
            \E op \in Opens : Called(c, op) /\ (Doing(c, op) =>
              vaultPc[c] \notin {"register_insert", "register_commit", "open_use", "open_commit",
                                 "session_insert"})
       /\ \A s \in HeldBy(c) :
            s.link # None => s.link = vaultArg[c] /\ Called(c, "open")
       /\ vaultPc[c] = "session_commit" => By(vaultDb, c) # {}
       /\ ~Called(c, "logout") =>
            /\ By(vaultDisk, c) \subseteq By(vaultDb, c)
            /\ \A op \in Opens : Since(c, op, {"token_insert", "commit", "ok"}) =>
                                   By(vaultDisk, c) # {}
       /\ Doing(c, "logout") /\ vaultPc[c] \in {"commit", "ok"} => By(vaultDb, c) = {}
       /\ Doing(c, "logout") /\ vaultPc[c] = "ok" => By(vaultDisk, c) = {}
       /\ vaultPc[c] \in {"store_signing", "store_encryption", "get_select", "delete", "recover"}
            => LoggedIn(c)
       /\ Doing(c, "store") /\ vaultPc[c] = "commit" => LoggedIn(c)

\* c is opening the link it is about, or has a session of it.
Opener(c) ==
  /\ Called(c, "open")
  /\ \/ Doing(c, "open") /\ vaultPc[c] \in {"open_use", "open_commit", "session_insert"}
     \/ HeldBy(c) # {}

\* Two openers of one link were there at the same time; the link of one that is past
\* spending it is spent.
RaceInv ==
  /\ \A c, d \in Callers : c # d /\ Opener(c) /\ Opener(d) /\ vaultArg[c] = vaultArg[d] =>
                             vaultArg[c] \in raced
  /\ \A c \in Callers : Called(c, "open") /\ HeldBy(c) # {} =>
                             vaultArg[c] \in vaultDisk.used

\* A row of encrypted keys
Row(u, k, type) == [user |-> u, key |-> k, type |-> type]

\* Both keys of k are in these tables, in the account of its address.
KeysIn(t, k) ==
  \E u \in t.users : /\ EmailOf[u] = EmailOf[k]
                     /\ Row(u, k, "signing") \in t.keys /\ Row(u, k, "encryption") \in t.keys

\* Keys: stored, they are on the connection and on the disk, unless somebody asked for
\* their deletion.
KeyInv ==
  \A c \in Callers : Forgotten(c) \/
    /\ vaultPc[c] = "store_encryption" => Row(UserOf(c), c, "signing") \in vaultDb.keys
    /\ Doing(c, "store") /\ vaultPc[c] = "commit" => KeysIn(vaultDb, c)
    /\ Since(c, "store", {"ok"}) => KeysIn(vaultDb, c) /\ KeysIn(vaultDisk, c)

\* What the vault keeps of requests, accounts and keys.
VaultInv == StageInv /\ UserInv /\ ArgInv /\ LinkInv /\ SessionInv /\ RaceInv /\ KeyInv

\* Entities: made by callers that stored their keys before; of two of one handle, or
\* about to be, both were at work at the same time.
EntityInv ==
  /\ relayDisk.entities \subseteq relayDb.entities
  /\ \A k \in relayDb.entities : Called(k, "create")
  /\ \A c, d \in Callers : c # d /\ HandleOf[c] = HandleOf[d] =>
       /\ Creating(c) /\ Creating(d) => {c, d} \in rivals
       /\ relayPc[c] = "create_insert" /\ d \in relayDb.entities => {c, d} \in rivals
  /\ HandlesAreDistinct

\* What both keep.
AccInv == AccTypeOK /\ VaultInv /\ EntityInv /\ SomeLoginSucceeds
-----------------------------------------------------------------------------
(***************************************************************************)
(* Programs.  What the order of calls in each of them means for a caller   *)
(* that has come to its n-th.                                              *)
(***************************************************************************)
Had(p, n, op) == \E m \in 1 .. n : Program[p][m] = op
Now(p, n, op) == n > 0 /\ Program[p][n] = op

\* Each program, as a function of the place.
LEMMA Programs ==
  /\ Program["nothing"] = << >>
  /\ Program["signup"] = <<"register", "store", "create", "challenge", "verify">>
  /\ Program["signin"] = <<"login", "get", "challenge", "verify">>
  /\ Program["another"] = <<"login", "store", "create">>
  /\ Program["link"] = <<"mail", "open", "logout">>
  /\ Program["click"] = <<"open">>
  /\ Program["forget"] = <<"login", "get", "delete", "logout">>
  /\ Program["settings"] = <<"login", "authorize", "revoke", "recover", "email">>
  /\ DOMAIN Program = {"nothing", "signup", "signin", "another", "link", "click", "forget",
                       "settings"}
  BY DEF Program

\* The order of calls, as far as the invariant needs it.
CallOrder(p, n) ==
  /\ n > 0 => \A m \in 1 .. n - 1 : Program[p][m] # Program[p][n]
  /\ \A o1, o2 \in Opens : Had(p, n, o1) /\ Had(p, n, o2) => o1 = o2
  /\ Had(p, n, "logout") => Now(p, n, "logout")
  /\ Had(p, n, "delete") => ~Now(p, n, "get") /\ ~Now(p, n, "open")
  /\ Had(p, n, "create") => Had(p, n, "store") /\ ~Now(p, n, "store")
  /\ Now(p, n, "register") \/ Now(p, n, "login") => ~Had(p, n, "open") /\ ~Had(p, n, "get")
  /\ Had(p, n, "open") => ~Had(p, n, "get")
  /\ Now(p, n, "challenge") \/ Now(p, n, "verify") =>
       \/ \E m \in DOMAIN Program[p] : Program[p][m] = "create"
       \/ Had(p, n, "get") /\ ~Now(p, n, "get")

\* Every program keeps this order at every place.
LEMMA ProgramsOrdered ==
  ASSUME NEW p \in DOMAIN Program, NEW n \in 0 .. Len(Program[p])
  PROVE  Len(Program[p]) \in 0 .. 5 /\ CallOrder(p, n)
<1>1. CASE p = "nothing"
  <2>1. Program[p] = << >> /\ n \in {0}
    BY <1>1, Programs
  <2> QED
    BY <2>1 DEF CallOrder, Had, Now, Opens
<1>2. CASE p = "signup"
  <2>1. Program[p] = <<"register", "store", "create", "challenge", "verify">> /\ n \in {0, 1, 2, 3, 4, 5}
    BY <1>2, Programs
  <2> QED
    BY <2>1 DEF CallOrder, Had, Now, Opens
<1>3. CASE p = "signin"
  <2>1. Program[p] = <<"login", "get", "challenge", "verify">> /\ n \in {0, 1, 2, 3, 4}
    BY <1>3, Programs
  <2> QED
    BY <2>1 DEF CallOrder, Had, Now, Opens
<1>4. CASE p = "another"
  <2>1. Program[p] = <<"login", "store", "create">> /\ n \in {0, 1, 2, 3}
    BY <1>4, Programs
  <2> QED
    BY <2>1 DEF CallOrder, Had, Now, Opens
<1>5. CASE p = "link"
  <2>1. Program[p] = <<"mail", "open", "logout">> /\ n \in {0, 1, 2, 3}
    BY <1>5, Programs
  <2> QED
    BY <2>1 DEF CallOrder, Had, Now, Opens
<1>6. CASE p = "click"
  <2>1. Program[p] = <<"open">> /\ n \in {0, 1}
    BY <1>6, Programs
  <2> QED
    BY <2>1 DEF CallOrder, Had, Now, Opens
<1>7. CASE p = "forget"
  <2>1. Program[p] = <<"login", "get", "delete", "logout">> /\ n \in {0, 1, 2, 3, 4}
    BY <1>7, Programs
  <2> QED
    BY <2>1 DEF CallOrder, Had, Now, Opens
<1>8. CASE p = "settings"
  <2>1. Program[p] = <<"login", "authorize", "revoke", "recover", "email">> /\ n \in {0, 1, 2, 3, 4, 5}
    BY <1>8, Programs
  <2> QED
    BY <2>1 DEF CallOrder, Had, Now, Opens
<1> QED
  BY Programs, <1>1, <1>2, <1>3, <1>4, <1>5, <1>6, <1>7, <1>8

-----------------------------------------------------------------------------
(***************************************************************************)
(* Callers.                                                                *)
(***************************************************************************)

\* What c has called is in order.
Order(c) ==
  /\ \A op : Doing(c, op) => Called(c, op)
  /\ \A o1, o2 : Doing(c, o1) /\ Doing(c, o2) => o1 = o2
  /\ \A o1, o2 \in Opens : Called(c, o1) /\ Called(c, o2) => o1 = o2
  /\ Called(c, "logout") => Doing(c, "logout")
  /\ Called(c, "delete") => ~Doing(c, "get") /\ ~Doing(c, "open")
  /\ Called(c, "create") => Called(c, "store") /\ ~Doing(c, "store")
  /\ Doing(c, "register") \/ Doing(c, "login") => ~Called(c, "open") /\ ~Called(c, "get")
  /\ Called(c, "open") => ~Called(c, "get")
  /\ Doing(c, "challenge") \/ Doing(c, "verify") =>
       \/ \E m \in DOMAIN Calls(c) : Calls(c)[m] = "create"
       \/ Called(c, "get") /\ ~Doing(c, "get")
  /\ \A n \in 1 .. stage[c] - 1 : Calls(c)[n] # Calls(c)[stage[c]]

\* The programs see to that.
LEMMA CallsInOrder ==
  ASSUME AccTypeOK, StageInv, NEW c \in Callers
  PROVE  Order(c)
<1> DEFINE p == plan[c]
           n == stage[c]
<1>1. p \in DOMAIN Program /\ Calls(c) = Program[p] /\ n \in Nat
  BY PlansAssumption DEF AccTypeOK, Calls
<1>2. n \in 0 .. Len(Program[p])
  BY <1>1, ProgramsOrdered DEF StageInv
<1>3. CallOrder(p, n)
  BY <1>1, <1>2, ProgramsOrdered
<1>4. \A op : (Called(c, op) <=> Had(p, n, op)) /\ (Doing(c, op) <=> Now(p, n, op))
  BY <1>1 DEF Called, Doing, Had, Now
<1>5. \A op : Now(p, n, op) => Had(p, n, op)
  BY <1>1 DEF Now, Had
<1>6. \A o1, o2 : Now(p, n, o1) /\ Now(p, n, o2) => o1 = o2
  BY DEF Now
<1>7. \A m \in 1 .. stage[c] - 1 : Calls(c)[m] # Calls(c)[stage[c]]
  BY <1>1, <1>3 DEF CallOrder
<1> HIDE DEF p, n
<1> QED
  BY <1>1, <1>3, <1>4, <1>5, <1>6, <1>7 DEF CallOrder, Order

\* The next call of c, which all before it have been answered for.
LEMMA CallsNext ==
  ASSUME AccTypeOK, StageInv, NEW c \in Callers, NEW op, Call(c, op)
  PROVE  /\ plan' = plan /\ stage' \in [Callers -> 0 .. 5]
         /\ \A d \in Callers : stage'[d] <= Len(Calls(d)') /\ Calls(d)' = Calls(d)
         /\ Doing(c, op)' /\ ~Called(c, op) /\ Order(c)'
         /\ \A o : Doing(c, o)' => o = op
         /\ \A o : Called(c, o)' <=> Called(c, o) \/ o = op
         /\ \A d \in Callers : \A o : d # c => /\ Called(d, o)' <=> Called(d, o)
                                               /\ Doing(d, o)' <=> Doing(d, o)
         /\ \A o : Doing(c, o) => IF o \in OnRelay THEN relayPc[c] = "ok" ELSE vaultPc[c] = "ok"
<1>1. /\ plan[c] \in DOMAIN Program /\ Calls(c) = Program[plan[c]] /\ stage[c] \in Nat
      /\ stage[c] < Len(Calls(c)) /\ Calls(c)[stage[c] + 1] = op
      /\ stage' = [stage EXCEPT ![c] = @ + 1] /\ plan' = plan
      /\ stage[c] > 0 => IF Calls(c)[stage[c]] \in OnRelay THEN relayPc[c] = "ok"
                                                          ELSE vaultPc[c] = "ok"
  BY PlansAssumption DEF AccTypeOK, Calls, Call, Free
<1>2. Len(Calls(c)) \in 0 .. 5
  BY <1>1, ProgramsOrdered
<1>3. /\ stage'[c] = stage[c] + 1 /\ stage[c] + 1 \in 0 .. Len(Program[plan[c]])
      /\ \A d \in Callers : d # c => stage'[d] = stage[d]
      /\ stage' \in [Callers -> 0 .. 5]
  BY <1>1, <1>2 DEF AccTypeOK
<1>4. \A d : Calls(d)' = Calls(d)
  BY <1>1 DEF Calls
<1>5. CallOrder(plan[c], stage[c] + 1)
  BY <1>1, <1>3, ProgramsOrdered
<1>6. \A m \in 1 .. stage[c] : Calls(c)[m] # op
  <2>1. \A m \in 1 .. (stage[c] + 1) - 1 : Program[plan[c]][m] # Program[plan[c]][stage[c] + 1]
    BY <1>1, <1>5 DEF CallOrder
  <2> QED
    BY <1>1, <2>1
<1>7. \A d \in Callers : stage'[d] <= Len(Calls(d)')
  BY <1>1, <1>2, <1>3, <1>4 DEF StageInv
<1>8. Doing(c, op)' /\ \A o : Doing(c, o)' => o = op
  BY <1>1, <1>3, <1>4 DEF Doing
<1>9. ~Called(c, op) /\ \A o : Called(c, o)' <=> Called(c, o) \/ o = op
  <2>1. ~Called(c, op)
    BY <1>6 DEF Called
  <2>2. 1 .. stage'[c] = (1 .. stage[c]) \cup {stage[c] + 1}
    BY <1>1, <1>3
  <2>3. \A o : Called(c, o)' <=> Called(c, o) \/ o = op
    BY <1>1, <1>4, <2>2 DEF Called
  <2> QED
    BY <2>1, <2>3
<1>10. \A d \in Callers : \A o : d # c => /\ Called(d, o)' <=> Called(d, o)
                                          /\ Doing(d, o)' <=> Doing(d, o)
  BY <1>3, <1>4 DEF Called, Doing
<1>11. \A o : Doing(c, o) => IF o \in OnRelay THEN relayPc[c] = "ok" ELSE vaultPc[c] = "ok"
  BY <1>1 DEF Doing
<1>12. Order(c)'
  <2> DEFINE p == plan[c]
             n == stage[c] + 1
  <2>1. Calls(c)' = Program[p] /\ stage'[c] = n /\ n \in Nat
    BY <1>1, <1>3, <1>4
  <2>2. \A o : (Called(c, o)' <=> Had(p, n, o)) /\ (Doing(c, o)' <=> Now(p, n, o))
    BY <2>1 DEF Called, Doing, Had, Now
  <2>3. \A o : Now(p, n, o) => Had(p, n, o)
    BY <2>1 DEF Now, Had
  <2>4. \A o1, o2 : Now(p, n, o1) /\ Now(p, n, o2) => o1 = o2
    BY DEF Now
  <2>5. \A m \in 1 .. (stage')[c] - 1 : Calls(c)'[m] # Calls(c)'[stage'[c]]
    BY <1>1, <1>5, <2>1 DEF CallOrder
  <2>6. CallOrder(p, n)
    BY <1>5
  <2> HIDE DEF p, n
  <2> QED
    BY <2>1, <2>2, <2>3, <2>4, <2>5, <2>6 DEF CallOrder, Order
<1> QED
  BY <1>1, <1>3, <1>4, <1>7, <1>8, <1>9, <1>10, <1>11, <1>12
-----------------------------------------------------------------------------
(***************************************************************************)
(* Steps of the vault.                                                     *)
(***************************************************************************)
Commits  == {"register_commit", "session_commit", "open_commit", "commit"}
Between  == VaultSteps \cup {"idle", "ok", "no"}

\* What a statement at `from' writes, and what it leaves alone.
Saves(c, from) ==
  /\ IF from \in Commits THEN vaultDisk' = vaultDb /\ vaultDb' = vaultDb ELSE vaultDisk' = vaultDisk
  /\ vaultDb'.users = IF from = "register_insert" /\ ~HasAccount(c)
                        THEN vaultDb.users \cup {c} ELSE vaultDb.users
  /\ vaultDb'.links = IF from = "link_insert" THEN vaultDb.links \cup {c} ELSE vaultDb.links
  /\ vaultDb'.used = IF from = "open_use" THEN vaultDb.used \cup {vaultArg[c]} ELSE vaultDb.used
  /\ vaultDb'.sessions =
       CASE from = "session_insert" ->
              vaultDb.sessions \cup {[user |-> AccountOf(c), by |-> c, link |-> vaultArg[c]]}
         [] from = "logout" -> {s \in vaultDb.sessions : s.by # c}
         [] OTHER -> vaultDb.sessions
  /\ vaultDb'.keys =
       CASE from = "store_signing" -> vaultDb.keys \cup {Row(UserOf(c), c, "signing")}
         [] from = "store_encryption" -> vaultDb.keys \cup {Row(UserOf(c), c, "encryption")}
         [] from = "delete" -> {r \in vaultDb.keys : r.user # UserOf(c) \/ r.key # vaultArg[c]}
         [] OTHER -> vaultDb.keys
  /\ from # "get_select" => vaultArg' = vaultArg
  /\ vaultDb' \in VaultTables /\ vaultDisk' \in VaultTables

\* Where a statement leads.
Leads(c, from, to) ==
  CASE from = "register_insert" -> to = IF HasAccount(c) THEN "no" ELSE "register_commit"
    [] from \in {"register_commit", "open_commit"} -> to = "session_insert"
    [] from = "session_insert" -> to = "session_commit"
    [] from = "session_commit" -> to = IF c \in vaultDb.users THEN "token_insert" ELSE "ok"
    [] from = "open_use" -> to = "open_commit"
    [] from = "store_signing" -> to = "store_encryption"
    [] from = "get_select" ->
         /\ to \in {"ok", "no"}
         /\ \E k \in Callers \cup {None} : /\ vaultArg' = [vaultArg EXCEPT ![c] = k]
                                           /\ to = "ok" => k # None
    [] from = "verify_update" -> to = "verify_delete"
    [] from = "commit" -> to = "ok"
    [] OTHER -> to = "commit"

\* One statement of c's request
Performs(c, from, to) ==
  /\ from \in VaultSteps /\ to \in Between
  /\ vaultPc[c] = from /\ vaultPc' = [vaultPc EXCEPT ![c] = to]
  /\ vaultCrashes' = vaultCrashes /\ raced' = raced
  /\ Saves(c, from) /\ Leads(c, from, to)

\* The account and the session that a statement uses are there.
LEMMA Theirs ==
  ASSUME VaultTypeOK, NEW c \in Callers
  PROVE  /\ HasAccount(c) => AccountOf(c) \in vaultDb.users /\ EmailOf[AccountOf(c)] = EmailOf[c]
         /\ LoggedIn(c) => SessionOf(c) \in vaultDb.sessions /\ SessionOf(c).by = c
                           /\ UserOf(c) \in Callers
<1>1. HasAccount(c) => AccountOf(c) \in vaultDb.users /\ EmailOf[AccountOf(c)] = EmailOf[c]
  BY DEF HasAccount, AccountOf
<1>2. LoggedIn(c) => SessionOf(c) \in vaultDb.sessions /\ SessionOf(c).by = c
  BY DEF LoggedIn, SessionOf
<1>3. vaultDb.sessions \subseteq Session
  BY DEF VaultTypeOK, VaultTables
<1> QED
  BY <1>1, <1>2, <1>3 DEF UserOf, Session

\* Every statement of the vault is one of these.
LEMMA VaultDoes ==
  ASSUME AccTypeOK, VaultInv, NEW c \in Callers, VaultContinue(c)
  PROVE  \E from \in VaultSteps, to \in Between : Performs(c, from, to)
<1>0. /\ vaultDb \in VaultTables /\ vaultDisk \in VaultTables
      /\ vaultDb.users \subseteq Callers /\ vaultDb.sessions \subseteq Session
      /\ vaultDb.keys \subseteq KeyRow /\ vaultArg[c] \in Callers \cup {None}
      /\ vaultArg \in [Callers -> Callers \cup {None}]
      /\ VaultTypeOK /\ StageInv /\ UserInv /\ ArgInv /\ SessionInv
  BY DEF AccTypeOK, VaultInv, VaultTypeOK, VaultTables
<1>1. CASE RegisterInsert(c)
  <2>1. CASE HasAccount(c)
    <3>1. VaultRead(c, "register_insert", "no")
      BY <1>1, <2>1 DEF RegisterInsert
    <3>2. Saves(c, "register_insert") /\ Leads(c, "register_insert", "no")
      BY <1>0, <2>1, <3>1 DEF VaultRead, Saves, Leads, Commits
    <3> QED
      BY <3>1, <3>2 DEF Performs, VaultRead, VaultGo, VaultSteps, Between
  <2>2. CASE ~HasAccount(c)
    <3>1. VaultWrite(c, "register_insert", "register_commit", "users", vaultDb.users \cup {c})
      BY <1>1, <2>2 DEF RegisterInsert
    <3>2. vaultDb' = [vaultDb EXCEPT !.users = vaultDb.users \cup {c}] /\ vaultDb' \in VaultTables
      BY <1>0, <3>1 DEF VaultWrite, VaultTables
    <3>3. Saves(c, "register_insert") /\ Leads(c, "register_insert", "register_commit")
      BY <1>0, <2>2, <3>1, <3>2 DEF VaultWrite, Saves, Leads, Commits, VaultTables
    <3> QED
      BY <3>1, <3>3 DEF Performs, VaultWrite, VaultGo, VaultSteps, Between
  <2> QED
    BY <2>1, <2>2
<1>2. CASE SessionInsert(c)
  <2> DEFINE new == [user |-> AccountOf(c), by |-> c, link |-> vaultArg[c]]
  <2>1. VaultWrite(c, "session_insert", "session_commit", "sessions", vaultDb.sessions \cup {new})
    BY <1>2 DEF SessionInsert
  <2>2. new \in Session
    <3>1. HasAccount(c)
      BY <1>0, <2>1 DEF UserInv, VaultWrite, VaultGo
    <3>2. AccountOf(c) \in Callers
      BY <1>0, <3>1, Theirs
    <3> QED
      BY <1>0, <3>2 DEF Session
  <2>3. vaultDb' = [vaultDb EXCEPT !.sessions = vaultDb.sessions \cup {new}] /\ vaultDb' \in VaultTables
    BY <1>0, <2>1, <2>2 DEF VaultWrite, VaultTables
  <2>4. Saves(c, "session_insert") /\ Leads(c, "session_insert", "session_commit")
    BY <1>0, <2>1, <2>3 DEF VaultWrite, Saves, Leads, Commits, VaultTables
  <2> QED
    BY <2>1, <2>4 DEF Performs, VaultWrite, VaultGo, VaultSteps, Between
<1>3. CASE RegisterCommit(c)
  <2>1. VaultCommitTo(c, "register_commit", "session_insert")
    BY <1>3 DEF RegisterCommit
  <2>2. Saves(c, "register_commit") /\ Leads(c, "register_commit", "session_insert")
    BY <1>0, <2>1 DEF VaultCommitTo, Saves, Leads, Commits
  <2> QED
    BY <2>1, <2>2 DEF Performs, VaultCommitTo, VaultGo, VaultSteps, Between
<1>4. CASE SessionCommit(c)
  <2>1. VaultCommitTo(c, "session_commit", IF c \in vaultDb.users THEN "token_insert" ELSE "ok")
    BY <1>4 DEF SessionCommit
  <2>2. Saves(c, "session_commit") /\ Leads(c, "session_commit", IF c \in vaultDb.users THEN "token_insert" ELSE "ok")
    BY <1>0, <2>1 DEF VaultCommitTo, Saves, Leads, Commits
  <2> QED
    BY <2>1, <2>2 DEF Performs, VaultCommitTo, VaultGo, VaultSteps, Between
<1>5. CASE OpenCommit(c)
  <2>1. VaultCommitTo(c, "open_commit", "session_insert")
    BY <1>5 DEF OpenCommit
  <2>2. Saves(c, "open_commit") /\ Leads(c, "open_commit", "session_insert")
    BY <1>0, <2>1 DEF VaultCommitTo, Saves, Leads, Commits
  <2> QED
    BY <2>1, <2>2 DEF Performs, VaultCommitTo, VaultGo, VaultSteps, Between
<1>6. CASE VaultCommit(c)
  <2>1. VaultCommitTo(c, "commit", "ok")
    BY <1>6 DEF VaultCommit
  <2>2. Saves(c, "commit") /\ Leads(c, "commit", "ok")
    BY <1>0, <2>1 DEF VaultCommitTo, Saves, Leads, Commits
  <2> QED
    BY <2>1, <2>2 DEF Performs, VaultCommitTo, VaultGo, VaultSteps, Between
<1>7. CASE TokenInsert(c)
  <2>1. VaultWrite(c, "token_insert", "commit", "tokens", vaultDb.tokens \cup {c})
    BY <1>7 DEF TokenInsert
  <2>2. vaultDb' = [vaultDb EXCEPT !.tokens = vaultDb.tokens \cup {c}] /\ vaultDb' \in VaultTables
    BY <1>0, <2>1 DEF VaultWrite, VaultTables
  <2>3. Saves(c, "token_insert") /\ Leads(c, "token_insert", "commit")
    BY <1>0, <2>1, <2>2 DEF VaultWrite, Saves, Leads, Commits, VaultTables
  <2> QED
    BY <2>1, <2>3 DEF Performs, VaultWrite, VaultGo, VaultSteps, Between
<1>8. CASE LinkInsert(c)
  <2>1. VaultWrite(c, "link_insert", "commit", "links", vaultDb.links \cup {c})
    BY <1>8 DEF LinkInsert
  <2>2. vaultDb' = [vaultDb EXCEPT !.links = vaultDb.links \cup {c}] /\ vaultDb' \in VaultTables
    BY <1>0, <2>1 DEF VaultWrite, VaultTables
  <2>3. Saves(c, "link_insert") /\ Leads(c, "link_insert", "commit")
    BY <1>0, <2>1, <2>2 DEF VaultWrite, Saves, Leads, Commits, VaultTables
  <2> QED
    BY <2>1, <2>3 DEF Performs, VaultWrite, VaultGo, VaultSteps, Between
<1>9. CASE OpenUse(c)
  <2>1. VaultWrite(c, "open_use", "open_commit", "used", vaultDb.used \cup {vaultArg[c]})
    BY <1>9 DEF OpenUse
  <2>2. vaultArg[c] \in Callers
    BY <1>0, <2>1, CallsInOrder DEF VaultWrite, VaultGo, StageInv, ArgInv, Order
  <2>3. vaultDb' = [vaultDb EXCEPT !.used = vaultDb.used \cup {vaultArg[c]}] /\ vaultDb' \in VaultTables
    BY <1>0, <2>1, <2>2 DEF VaultWrite, VaultTables
  <2>4. Saves(c, "open_use") /\ Leads(c, "open_use", "open_commit")
    BY <1>0, <2>1, <2>3 DEF VaultWrite, Saves, Leads, Commits, VaultTables
  <2> QED
    BY <2>1, <2>4 DEF Performs, VaultWrite, VaultGo, VaultSteps, Between
<1>10. CASE LogoutDelete(c)
  <2>1. VaultWrite(c, "logout", "commit", "sessions", {s \in vaultDb.sessions : s.by # c})
    BY <1>10 DEF LogoutDelete
  <2>2. vaultDb' = [vaultDb EXCEPT !.sessions = {s \in vaultDb.sessions : s.by # c}] /\ vaultDb' \in VaultTables
    BY <1>0, <2>1 DEF VaultWrite, VaultTables
  <2>3. Saves(c, "logout") /\ Leads(c, "logout", "commit")
    BY <1>0, <2>1, <2>2 DEF VaultWrite, Saves, Leads, Commits, VaultTables
  <2> QED
    BY <2>1, <2>3 DEF Performs, VaultWrite, VaultGo, VaultSteps, Between
<1>11. CASE StoreSigning(c)
  <2>1. VaultWrite(c, "store_signing", "store_encryption", "keys", vaultDb.keys \cup {Row(UserOf(c), c, "signing")})
    BY <1>11 DEF StoreSigning, Rows, Row
  <2>2. Row(UserOf(c), c, "signing") \in KeyRow
    BY <1>0, <2>1, Theirs DEF VaultWrite, VaultGo, SessionInv, KeyRow, Row
  <2>3. vaultDb' = [vaultDb EXCEPT !.keys = vaultDb.keys \cup {Row(UserOf(c), c, "signing")}] /\ vaultDb' \in VaultTables
    BY <1>0, <2>1, <2>2 DEF VaultWrite, VaultTables
  <2>4. Saves(c, "store_signing") /\ Leads(c, "store_signing", "store_encryption")
    BY <1>0, <2>1, <2>3 DEF VaultWrite, Saves, Leads, Commits, VaultTables
  <2> QED
    BY <2>1, <2>4 DEF Performs, VaultWrite, VaultGo, VaultSteps, Between
<1>12. CASE StoreEncryption(c)
  <2>1. VaultWrite(c, "store_encryption", "commit", "keys", vaultDb.keys \cup {Row(UserOf(c), c, "encryption")})
    BY <1>12 DEF StoreEncryption, Rows, Row
  <2>2. Row(UserOf(c), c, "encryption") \in KeyRow
    BY <1>0, <2>1, Theirs DEF VaultWrite, VaultGo, SessionInv, KeyRow, Row
  <2>3. vaultDb' = [vaultDb EXCEPT !.keys = vaultDb.keys \cup {Row(UserOf(c), c, "encryption")}] /\ vaultDb' \in VaultTables
    BY <1>0, <2>1, <2>2 DEF VaultWrite, VaultTables
  <2>4. Saves(c, "store_encryption") /\ Leads(c, "store_encryption", "commit")
    BY <1>0, <2>1, <2>3 DEF VaultWrite, Saves, Leads, Commits, VaultTables
  <2> QED
    BY <2>1, <2>4 DEF Performs, VaultWrite, VaultGo, VaultSteps, Between
<1>13. CASE DeleteRows(c)
  <2>1. VaultWrite(c, "delete", "commit", "keys", {r \in vaultDb.keys : r.user # UserOf(c) \/ r.key # vaultArg[c]})
    BY <1>13 DEF DeleteRows
  <2>2. vaultDb' = [vaultDb EXCEPT !.keys = {r \in vaultDb.keys : r.user # UserOf(c) \/ r.key # vaultArg[c]}] /\ vaultDb' \in VaultTables
    BY <1>0, <2>1 DEF VaultWrite, VaultTables
  <2>3. Saves(c, "delete") /\ Leads(c, "delete", "commit")
    BY <1>0, <2>1, <2>2 DEF VaultWrite, Saves, Leads, Commits, VaultTables
  <2> QED
    BY <2>1, <2>3 DEF Performs, VaultWrite, VaultGo, VaultSteps, Between
<1>14. CASE DeviceInsert(c)
  <2>1. VaultWrite(c, "authorize", "commit", "devices", vaultDb.devices \cup {c})
    BY <1>14 DEF DeviceInsert
  <2>2. vaultDb' = [vaultDb EXCEPT !.devices = vaultDb.devices \cup {c}] /\ vaultDb' \in VaultTables
    BY <1>0, <2>1 DEF VaultWrite, VaultTables
  <2>3. Saves(c, "authorize") /\ Leads(c, "authorize", "commit")
    BY <1>0, <2>1, <2>2 DEF VaultWrite, Saves, Leads, Commits, VaultTables
  <2> QED
    BY <2>1, <2>3 DEF Performs, VaultWrite, VaultGo, VaultSteps, Between
<1>15. CASE DeviceRevoke(c)
  <2>1. VaultWrite(c, "revoke", "commit", "revoked", vaultDb.revoked \cup (vaultDb.devices \cap {c}))
    BY <1>15 DEF DeviceRevoke
  <2>2. vaultDb' = [vaultDb EXCEPT !.revoked = vaultDb.revoked \cup (vaultDb.devices \cap {c})] /\ vaultDb' \in VaultTables
    BY <1>0, <2>1 DEF VaultWrite, VaultTables
  <2>3. Saves(c, "revoke") /\ Leads(c, "revoke", "commit")
    BY <1>0, <2>1, <2>2 DEF VaultWrite, Saves, Leads, Commits, VaultTables
  <2> QED
    BY <2>1, <2>3 DEF Performs, VaultWrite, VaultGo, VaultSteps, Between
<1>16. CASE RecoveryReplace(c)
  <2>1. VaultWrite(c, "recover", "commit", "recovery", vaultDb.recovery \cup {UserOf(c)})
    BY <1>16 DEF RecoveryReplace
  <2>2. UserOf(c) \in Callers
    BY <1>0, <2>1, Theirs DEF VaultWrite, VaultGo, SessionInv
  <2>3. vaultDb' = [vaultDb EXCEPT !.recovery = vaultDb.recovery \cup {UserOf(c)}] /\ vaultDb' \in VaultTables
    BY <1>0, <2>1, <2>2 DEF VaultWrite, VaultTables
  <2>4. Saves(c, "recover") /\ Leads(c, "recover", "commit")
    BY <1>0, <2>1, <2>3 DEF VaultWrite, Saves, Leads, Commits, VaultTables
  <2> QED
    BY <2>1, <2>4 DEF Performs, VaultWrite, VaultGo, VaultSteps, Between
<1>17. CASE VerifyUpdate(c)
  <2>1. VaultWrite(c, "verify_update", "verify_delete", "verified", vaultDb.verified \cup {AccountOf(c)})
    BY <1>17 DEF VerifyUpdate
  <2>2. AccountOf(c) \in Callers
    BY <1>0, <2>1, Theirs DEF VaultWrite, VaultGo, UserInv
  <2>3. vaultDb' = [vaultDb EXCEPT !.verified = vaultDb.verified \cup {AccountOf(c)}] /\ vaultDb' \in VaultTables
    BY <1>0, <2>1, <2>2 DEF VaultWrite, VaultTables
  <2>4. Saves(c, "verify_update") /\ Leads(c, "verify_update", "verify_delete")
    BY <1>0, <2>1, <2>3 DEF VaultWrite, Saves, Leads, Commits, VaultTables
  <2> QED
    BY <2>1, <2>4 DEF Performs, VaultWrite, VaultGo, VaultSteps, Between
<1>18. CASE VerifyDelete(c)
  <2>1. VaultWrite(c, "verify_delete", "commit", "tokens", vaultDb.tokens \ {AccountOf(c)})
    BY <1>18 DEF VerifyDelete
  <2>2. vaultDb' = [vaultDb EXCEPT !.tokens = vaultDb.tokens \ {AccountOf(c)}] /\ vaultDb' \in VaultTables
    BY <1>0, <2>1 DEF VaultWrite, VaultTables
  <2>3. Saves(c, "verify_delete") /\ Leads(c, "verify_delete", "commit")
    BY <1>0, <2>1, <2>2 DEF VaultWrite, Saves, Leads, Commits, VaultTables
  <2> QED
    BY <2>1, <2>3 DEF Performs, VaultWrite, VaultGo, VaultSteps, Between
<1>19. CASE GetSelect(c)
  <2> DEFINE to == IF KeysOf(c) # {} THEN "ok" ELSE "no"
  <2>1. /\ VaultGo(c, "get_select", to) /\ to \in {"ok", "no"}
        /\ vaultDb' = vaultDb /\ vaultDisk' = vaultDisk /\ raced' = raced
    BY <1>19 DEF GetSelect
  <2>2. KeysOf(c) \subseteq Callers
    BY <1>0 DEF KeysOf, KeyRow
  <2>3. to = "ok" => KeysOf(c) # {}
    OBVIOUS
  <2> HIDE DEF to
  <2>4. Saves(c, "get_select")
    BY <1>0, <2>1 DEF Saves, Commits
  <2>5. Leads(c, "get_select", to)
    <3>1. PICK k \in KeysOf(c) \cup {None} : /\ k = None <=> KeysOf(c) = {}
                                             /\ vaultArg' = [vaultArg EXCEPT ![c] = k]
      BY <1>19 DEF GetSelect
    <3>2. k \in Callers \cup {None} /\ (to = "ok" => k # None)
      BY <2>2, <2>3, <3>1
    <3> QED
      BY <2>1, <3>1, <3>2 DEF Leads
  <2> QED
    BY <2>1, <2>4, <2>5 DEF Performs, VaultGo, VaultSteps, Between
<1> QED
  BY <1>1, <1>2, <1>3, <1>4, <1>5, <1>6, <1>7, <1>8, <1>9, <1>10, <1>11, <1>12, <1>13, <1>14, <1>15, <1>16, <1>17, <1>18, <1>19 DEF VaultContinue

\* What a statement leaves as it is.
LEMMA DoesParts ==
  ASSUME AccTypeOK, StageInv, NEW c \in Callers, NEW from, NEW to, Performs(c, from, to), Idle
  PROVE  /\ vaultPc[c] = from /\ vaultPc'[c] = to
         /\ \A d \in Callers : d # c => vaultPc'[d] = vaultPc[d]
         /\ \A d, o : (Called(d, o)' <=> Called(d, o)) /\ (Doing(d, o)' <=> Doing(d, o))
         /\ \A d \in Callers : d # c \/ from # "get_select" => vaultArg'[d] = vaultArg[d]
         /\ vaultDb.users \subseteq vaultDb'.users /\ vaultDb.links \subseteq vaultDb'.links
         /\ vaultDb.used \subseteq vaultDb'.used
         /\ from \in Commits => vaultDb' = vaultDb /\ vaultDisk' = vaultDb
         /\ from \notin Commits => vaultDisk' = vaultDisk
         /\ Order(c)
         /\ plan' = plan /\ stage' = stage
<1>1. /\ vaultPc \in [Callers -> Between] /\ vaultArg \in [Callers -> Callers \cup {None}]
      /\ vaultPc[c] = from /\ vaultPc' = [vaultPc EXCEPT ![c] = to]
  BY DEF AccTypeOK, VaultTypeOK, Performs, Between
<1>2. vaultPc'[c] = to /\ \A d \in Callers : d # c => vaultPc'[d] = vaultPc[d]
  BY <1>1
<1>3. \A d, o : (Called(d, o)' <=> Called(d, o)) /\ (Doing(d, o)' <=> Doing(d, o))
  BY DEF Idle, Called, Doing, Calls
<1>4. \A d \in Callers : d # c \/ from # "get_select" => vaultArg'[d] = vaultArg[d]
  BY <1>1 DEF Performs, Saves, Leads
<1>5. /\ vaultDb.users \subseteq vaultDb'.users /\ vaultDb.links \subseteq vaultDb'.links
      /\ vaultDb.used \subseteq vaultDb'.used
  BY DEF Performs, Saves
<1>6. /\ from \in Commits => vaultDb' = vaultDb /\ vaultDisk' = vaultDb
      /\ from \notin Commits => vaultDisk' = vaultDisk
  BY DEF Performs, Saves
<1> QED
  BY <1>1, <1>2, <1>3, <1>4, <1>5, <1>6, CallsInOrder DEF Idle

\* It is of the call the caller waits for.
LEMMA DoesStage ==
  ASSUME AccTypeOK, VaultInv, NEW c \in Callers, NEW from, NEW to, Performs(c, from, to), Idle,
         relayPc' = relayPc
  PROVE  StageInv'
<1>0. StageInv /\ UserInv
  BY DEF VaultInv
<1>1. \A d \in Callers : stage'[d] <= Len(Calls(d)')
  BY <1>0 DEF StageInv, Calls, Idle
<1>2. Leads(c, from, to) /\ from \in VaultSteps
  BY DEF Performs
<1>3. c \in vaultDb.users => Called(c, "register")
  BY <1>0 DEF UserInv
<1>4. \A d, o : (Called(d, o)' <=> Called(d, o)) /\ (Doing(d, o)' <=> Doing(d, o))
  BY <1>0, DoesParts
<1> QED
  BY <1>0, <1>1, <1>2, <1>3, <1>4, DoesParts DEF StageInv, Leads, Order, Opens, Settings, VaultSteps

\* A statement keeps accounts one an address, and answered ones on the disk.
LEMMA DoesUser ==
  ASSUME AccTypeOK, VaultInv, NEW c \in Callers, NEW from, NEW to, Performs(c, from, to), Idle
  PROVE  UserInv'
<1>0. StageInv /\ UserInv
  BY DEF VaultInv
<1>1. /\ vaultDb'.users = IF from = "register_insert" /\ ~HasAccount(c)
                            THEN vaultDb.users \cup {c} ELSE vaultDb.users
      /\ Leads(c, from, to) /\ from \in VaultSteps
  BY DEF Performs, Saves
<1>2. vaultDisk'.users \subseteq vaultDb'.users /\ vaultDisk.users \subseteq vaultDisk'.users
  BY <1>0, DoesParts DEF UserInv
<1>3. \A u, w \in vaultDb'.users : EmailOf[u] = EmailOf[w] => u = w
  BY <1>0, <1>1 DEF UserInv, HasAccount
<1>4. \A u \in vaultDb'.users : Called(u, "register")'
  BY <1>0, <1>1, DoesParts DEF UserInv, StageInv, Order
<1>5. \A d \in Callers : HasAccount(d) => HasAccount(d)'
  BY <1>0, DoesParts DEF HasAccount
<1>6. c \in vaultDb.users => HasAccount(c)
  BY DEF HasAccount
<1>7. ASSUME NEW d \in Callers
      PROVE  /\ vaultPc'[d] = "register_commit" => d \in vaultDb'.users
             /\ vaultPc'[d] \in {"session_insert", "link_insert", "open_use", "open_commit",
                                 "verify_update"} => HasAccount(d)'
             /\ Since(d, "register", {"session_insert", "session_commit", "token_insert", "commit",
                                      "ok"})' => d \in vaultDisk'.users
  <2>1. CASE d # c
    BY <1>0, <1>2, <1>5, <2>1, DoesParts DEF UserInv, Since
  <2>2. CASE d = c
    <3>1. vaultPc'[c] = "register_commit" => c \in vaultDb'.users
      BY <1>0, <1>1, DoesParts DEF Leads
    <3>2. vaultPc'[c] \in {"session_insert", "link_insert", "open_use", "open_commit",
                           "verify_update"} => HasAccount(c)'
      BY <1>0, <1>1, <1>5, <1>6, DoesParts DEF Leads, UserInv
    <3>3. Since(c, "register", {"session_insert", "session_commit", "token_insert", "commit",
                                "ok"})' => c \in vaultDisk'.users
      <4>1. Doing(c, "register") /\ to \in {"session_insert", "session_commit", "token_insert",
                                           "commit", "ok"} =>
              from \in {"register_commit", "session_insert", "session_commit", "token_insert", "commit"}
        BY <1>0, <1>1, DoesParts DEF Leads, StageInv, Order, Opens, Settings, VaultSteps
      <4>2. from = "register_commit" => c \in vaultDisk'.users
        BY <1>0, DoesParts DEF UserInv, Commits
      <4>3. from = "register_commit" => Doing(c, "register")
        BY <1>0, DoesParts DEF StageInv
      <4> QED
        BY <1>0, <1>2, <4>1, <4>2, <4>3, DoesParts DEF UserInv, Since
    <3> QED
      BY <2>2, <3>1, <3>2, <3>3
  <2> QED
    BY <2>1, <2>2
<1> QED
  BY <1>2, <1>3, <1>4, <1>7 DEF UserInv

\* A key is taken by the call that gets it, and by no other.
LEMMA DoesArg ==
  ASSUME AccTypeOK, VaultInv, NEW c \in Callers, NEW from, NEW to, Performs(c, from, to), Idle
  PROVE  ArgInv'
<1>0. StageInv /\ ArgInv
  BY DEF VaultInv
<1>1. Leads(c, from, to) /\ from \in VaultSteps /\ vaultArg \in [Callers -> Callers \cup {None}]
  BY DEF Performs, AccTypeOK, VaultTypeOK
<1>2. from = "get_select" => Doing(c, "get") /\ Called(c, "get") /\ ~Called(c, "open")
                             /\ (to = "ok" => vaultArg'[c] # None)
  BY <1>0, <1>1, DoesParts DEF Leads, StageInv, Order
<1>3. from # "get_select" /\ Doing(c, "get") => to # "ok"
  BY <1>0, <1>1, DoesParts DEF Leads, StageInv, Order, Opens, Settings
<1> QED
  BY <1>0, <1>1, <1>2, <1>3, DoesParts DEF ArgInv, Since

\* A link is spent, and on the disk, before a session comes of it.
LEMMA DoesLink ==
  ASSUME AccTypeOK, VaultInv, NEW c \in Callers, NEW from, NEW to, Performs(c, from, to), Idle
  PROVE  LinkInv'
<1>0. StageInv /\ UserInv /\ ArgInv /\ LinkInv
  BY DEF VaultInv
<1>1. /\ vaultDb'.links = IF from = "link_insert" THEN vaultDb.links \cup {c} ELSE vaultDb.links
      /\ vaultDb'.used = IF from = "open_use" THEN vaultDb.used \cup {vaultArg[c]} ELSE vaultDb.used
      /\ Leads(c, from, to) /\ from \in VaultSteps
  BY DEF Performs, Saves
<1>2. /\ vaultDisk'.links \subseteq vaultDb'.links /\ vaultDisk.links \subseteq vaultDisk'.links
      /\ vaultDisk'.used \subseteq vaultDb'.used /\ vaultDisk.used \subseteq vaultDisk'.used
  BY <1>0, DoesParts DEF LinkInv
<1>3. \A l \in vaultDb'.links : \E u \in vaultDb'.users : EmailOf[u] = EmailOf[l]
  BY <1>0, <1>1, DoesParts DEF LinkInv, UserInv, HasAccount
<1>4. \A l \in vaultDisk'.links : \E u \in vaultDisk'.users : EmailOf[u] = EmailOf[l]
  BY <1>0, DoesParts DEF LinkInv
<1>5. ASSUME NEW d \in Callers
      PROVE  /\ Doing(d, "mail")' /\ vaultPc'[d] = "commit" => d \in vaultDb'.links
             /\ Since(d, "mail", {"ok"})' => d \in vaultDisk'.links
             /\ vaultPc'[d] = "open_commit" => vaultArg'[d] \in vaultDb'.used
             /\ Since(d, "open", {"session_insert", "session_commit", "ok"})' =>
                  vaultArg'[d] \in vaultDisk'.used
  <2>1. CASE d # c
    BY <1>0, <1>2, <2>1, DoesParts DEF LinkInv, Since
  <2>2. CASE d = c
    <3>1. Doing(c, "mail")' /\ vaultPc'[c] = "commit" => c \in vaultDb'.links
      BY <1>0, <1>1, DoesParts DEF Leads, LinkInv, StageInv, Order, Opens, Settings, VaultSteps
    <3>2. Since(c, "mail", {"ok"})' => c \in vaultDisk'.links
      BY <1>0, <1>1, <1>2, DoesParts DEF Leads, LinkInv, Since, StageInv, Order, Opens, Settings, Commits
    <3>3. vaultPc'[c] = "open_commit" => vaultArg'[c] \in vaultDb'.used
      BY <1>0, <1>1, DoesParts DEF Leads
    <3>4. Since(c, "open", {"session_insert", "session_commit", "ok"})' =>
            vaultArg'[c] \in vaultDisk'.used
      <4>1. from = "get_select" => ~Called(c, "open")
        BY <1>0, DoesParts DEF StageInv, Order
      <4>2. Doing(c, "open") /\ to \in {"session_insert", "session_commit", "ok"} =>
              from \in {"open_commit", "session_insert", "session_commit"}
        BY <1>0, <1>1, DoesParts DEF Leads, StageInv, Order, Opens, Settings
      <4> QED
        BY <1>0, <1>2, <4>1, <4>2, DoesParts DEF LinkInv, Since, Commits
    <3> QED
      BY <2>2, <3>1, <3>2, <3>3, <3>4
  <2> QED
    BY <2>1, <2>2
<1> QED
  BY <1>2, <1>3, <1>4, <1>5 DEF LinkInv

\* What a statement does to the sessions a caller has.
LEMMA DoesSessions ==
  ASSUME AccTypeOK, StageInv, NEW c \in Callers, NEW from, NEW to, Performs(c, from, to), Idle
  PROVE  /\ \A d \in Callers : d # c \/ from \notin {"session_insert", "logout"} =>
              By(vaultDb', d) = By(vaultDb, d)
         /\ from = "session_insert" => By(vaultDb', c) = By(vaultDb, c) \cup
              {[user |-> AccountOf(c), by |-> c, link |-> vaultArg[c]]}
         /\ from = "logout" => By(vaultDb', c) = {}
         /\ \A d : from \in Commits => By(vaultDisk', d) = By(vaultDb, d) /\ By(vaultDb', d) = By(vaultDb, d)
         /\ \A d : from \notin Commits => By(vaultDisk', d) = By(vaultDisk, d)
         /\ \A d : HeldBy(d)' = By(vaultDb', d) \cup By(vaultDisk', d)
         /\ \A d \in Callers : HeldBy(d)' # {} => HeldBy(d) # {} \/ (d = c /\ from = "session_insert")
         /\ \A d \in Callers : \A s \in HeldBy(d)' :
              s \in HeldBy(d) \/ (d = c /\ from = "session_insert" /\ s.link = vaultArg[c])
<1> DEFINE new == [user |-> AccountOf(c), by |-> c, link |-> vaultArg[c]]
<1>1. vaultDb'.sessions =
        CASE from = "session_insert" -> vaultDb.sessions \cup {new}
          [] from = "logout" -> {s \in vaultDb.sessions : s.by # c}
          [] OTHER -> vaultDb.sessions
  BY DEF Performs, Saves
<1>2. new.by = c /\ new.link = vaultArg[c]
  OBVIOUS
<1> HIDE DEF new
<1>3. from = "session_insert" => /\ By(vaultDb', c) = By(vaultDb, c) \cup {new}
                                 /\ \A d \in Callers : d # c => By(vaultDb', d) = By(vaultDb, d)
  BY <1>1, <1>2 DEF By
<1>4. from = "logout" => /\ By(vaultDb', c) = {}
                         /\ \A d \in Callers : d # c => By(vaultDb', d) = By(vaultDb, d)
  BY <1>1 DEF By
<1>5. from \notin {"session_insert", "logout"} => \A d : By(vaultDb', d) = By(vaultDb, d)
  BY <1>1 DEF By
<1>6. /\ \A d : from \in Commits => By(vaultDisk', d) = By(vaultDb, d) /\ By(vaultDb', d) = By(vaultDb, d)
      /\ \A d : from \notin Commits => By(vaultDisk', d) = By(vaultDisk, d)
  BY DoesParts DEF By
<1>7. \A d : /\ HeldBy(d)' = By(vaultDb', d) \cup By(vaultDisk', d)
             /\ HeldBy(d) = By(vaultDb, d) \cup By(vaultDisk, d)
  BY DEF HeldBy, By
<1>8. \A d \in Callers : \A s \in HeldBy(d)' : s \in HeldBy(d) \/ (d = c /\ from = "session_insert" /\ s = new)
  BY <1>3, <1>4, <1>5, <1>6, <1>7
<1>9. \A d \in Callers : HeldBy(d)' # {} => HeldBy(d) # {} \/ (d = c /\ from = "session_insert")
  BY <1>8
<1>10. \A d \in Callers : \A s \in HeldBy(d)' :
         s \in HeldBy(d) \/ (d = c /\ from = "session_insert" /\ s.link = vaultArg[c])
  BY <1>2, <1>8
<1>11. from = "session_insert" => By(vaultDb', c) = By(vaultDb, c) \cup
         {[user |-> AccountOf(c), by |-> c, link |-> vaultArg[c]]}
  BY <1>3 DEF new
<1> QED
  BY <1>3, <1>4, <1>5, <1>6, <1>7, <1>9, <1>10, <1>11

\* A statement keeps sessions one a caller, of its own account.
LEMMA DoesSession ==
  ASSUME AccTypeOK, VaultInv, NEW c \in Callers, NEW from, NEW to, Performs(c, from, to), Idle
  PROVE  SessionInv'
<1> DEFINE new == [user |-> AccountOf(c), by |-> c, link |-> vaultArg[c]]
<1>0. StageInv /\ UserInv /\ ArgInv /\ SessionInv /\ VaultTypeOK
  BY DEF VaultInv, AccTypeOK
<1>1. /\ vaultDb'.sessions =
           CASE from = "session_insert" -> vaultDb.sessions \cup {new}
             [] from = "logout" -> {s \in vaultDb.sessions : s.by # c}
             [] OTHER -> vaultDb.sessions
      /\ Leads(c, from, to) /\ from \in VaultSteps
  BY DEF Performs, Saves
<1>2. from = "session_insert" => new.by = c /\ new.user \in vaultDb'.users /\ EmailOf[new.user] = EmailOf[c]
  <2>1. from = "session_insert" => HasAccount(c)
    BY <1>0, DoesParts DEF UserInv
  <2> QED
    BY <1>0, <2>1, Theirs, DoesParts
<1>3. from = "session_insert" => HeldBy(c) = {}
  BY <1>0, DoesParts DEF SessionInv, StageInv, Order
<1> HIDE DEF new
<1>4. /\ \A s \in vaultDb'.sessions : s.user \in vaultDb'.users /\ EmailOf[s.user] = EmailOf[s.by]
      /\ \A s \in vaultDisk'.sessions : s.user \in vaultDisk'.users /\ EmailOf[s.user] = EmailOf[s.by]
  BY <1>0, <1>1, <1>2, DoesParts DEF SessionInv
<1>5. \A s, t \in vaultDb'.sessions \cup vaultDisk'.sessions : s.by = t.by => s = t
  <2>1. vaultDisk'.sessions \subseteq vaultDb.sessions \cup vaultDisk.sessions
    BY <1>0, DoesParts
  <2>2. ASSUME from = "session_insert", NEW s \in vaultDb.sessions \cup vaultDisk.sessions, s.by = c
        PROVE  FALSE
    <3>1. s \in HeldBy(c)
      BY <2>2 DEF HeldBy, By
    <3> QED
      BY <1>3, <2>2, <3>1
  <2>3. \A s \in vaultDb'.sessions : s \in vaultDb.sessions \/ (from = "session_insert" /\ s = new)
    BY <1>1
  <2> QED
    BY <1>0, <1>2, <2>1, <2>2, <2>3 DEF SessionInv
<1>6. ASSUME NEW d \in Callers
      PROVE  /\ HeldBy(d)' # {} =>
                  \E op \in Opens : Called(d, op)' /\ (Doing(d, op)' =>
                    vaultPc'[d] \notin {"register_insert", "register_commit", "open_use", "open_commit",
                                       "session_insert"})
             /\ \A s \in HeldBy(d)' : s.link # None => s.link = vaultArg'[d] /\ Called(d, "open")'
             /\ vaultPc'[d] = "session_commit" => By(vaultDb', d) # {}
             /\ ~Called(d, "logout")' =>
                  /\ By(vaultDisk', d) \subseteq By(vaultDb', d)
                  /\ \A op \in Opens : Since(d, op, {"token_insert", "commit", "ok"})' =>
                                         By(vaultDisk', d) # {}
             /\ Doing(d, "logout")' /\ vaultPc'[d] \in {"commit", "ok"} => By(vaultDb', d) = {}
             /\ Doing(d, "logout")' /\ vaultPc'[d] = "ok" => By(vaultDisk', d) = {}
             /\ vaultPc'[d] \in {"store_signing", "store_encryption", "get_select", "delete", "recover"}
                  => By(vaultDb', d) # {}
             /\ Doing(d, "store")' /\ vaultPc'[d] = "commit" => By(vaultDb', d) # {}
  <2>0. /\ \A e : LoggedIn(e) <=> By(vaultDb, e) # {}
        /\ \A e : HeldBy(e) = By(vaultDb, e) \cup By(vaultDisk, e)
    BY DEF LoggedIn, By, HeldBy
  <2>1. CASE d # c
    BY <1>0, <2>0, <2>1, DoesParts, DoesSessions DEF SessionInv, Since
  <2>2. CASE d = c
    <3>1. HeldBy(c)' # {} =>
            \E op \in Opens : Called(c, op)' /\ (Doing(c, op)' =>
              vaultPc'[c] \notin {"register_insert", "register_commit", "open_use", "open_commit",
                                 "session_insert"})
      <4>1. CASE from = "session_insert"
        BY <1>0, <1>1, <4>1, DoesParts DEF Leads, StageInv, Order, Opens
      <4>2. CASE from # "session_insert"
        <5>1. HeldBy(c)' # {} => HeldBy(c) # {}
          BY <1>0, <4>2, DoesSessions
        <5>2. to \in {"register_insert", "register_commit", "open_use", "open_commit", "session_insert"} =>
                from \in {"register_insert", "register_commit", "open_use", "open_commit"}
          BY <1>1 DEF Leads
        <5> QED
          BY <1>0, <5>1, <5>2, DoesParts DEF SessionInv
      <4> QED
        BY <4>1, <4>2
    <3>2. \A s \in HeldBy(c)' : s.link # None => s.link = vaultArg'[c] /\ Called(c, "open")'
      <4>1. from = "session_insert" /\ vaultArg[c] # None => Called(c, "open")
        <5>1. vaultArg[c] # None => Called(c, "open") \/ Called(c, "get")
          BY <1>0 DEF ArgInv
        <5>2. from = "session_insert" => Doing(c, "register") \/ Doing(c, "login") \/ Doing(c, "open")
          BY <1>0, DoesParts DEF StageInv, Opens
        <5> QED
          BY <1>0, <5>1, <5>2, DoesParts DEF Order
      <4>2. from = "get_select" => ~Called(c, "open")
        BY <1>0, DoesParts DEF StageInv, Order
      <4>3. \A s \in HeldBy(c) : s.link # None => s.link = vaultArg[c] /\ Called(c, "open")
        BY <1>0 DEF SessionInv
      <4>4. vaultArg'[c] = vaultArg[c] \/ (from = "get_select")
        BY <1>0, DoesParts
      <4>5. \A s \in HeldBy(c)' : s \in HeldBy(c) \/ (from = "session_insert" /\ s.link = vaultArg[c])
        BY <1>0, DoesSessions
      <4>6. Called(c, "open")' <=> Called(c, "open")
        BY <1>0, DoesParts
      <4> QED
        BY <4>1, <4>2, <4>3, <4>4, <4>5, <4>6
    <3>3. vaultPc'[c] = "session_commit" => By(vaultDb', c) # {}
      <4>1. to = "session_commit" => from = "session_insert"
        BY <1>1 DEF Leads
      <4>2. from = "session_insert" => By(vaultDb', c) = By(vaultDb, c) \cup {new}
        BY <1>0, DoesSessions DEF new
      <4> QED
        BY <1>0, <4>1, <4>2, DoesParts
    <3>4. ~Called(c, "logout")' =>
            /\ By(vaultDisk', c) \subseteq By(vaultDb', c)
            /\ \A op \in Opens : Since(c, op, {"token_insert", "commit", "ok"})' =>
                                         By(vaultDisk', c) # {}
      <4>1. SUFFICES ASSUME ~Called(c, "logout")
                     PROVE  /\ By(vaultDisk', c) \subseteq By(vaultDb', c)
                            /\ \A op \in Opens : Since(c, op, {"token_insert", "commit", "ok"})' =>
                                                   By(vaultDisk', c) # {}
        BY <1>0, DoesParts
      <4>2. from # "logout"
        BY <1>0, <4>1, DoesParts DEF StageInv, Order
      <4>3. /\ By(vaultDisk, c) \subseteq By(vaultDb, c)
            /\ \A op \in Opens : Since(c, op, {"token_insert", "commit", "ok"}) => By(vaultDisk, c) # {}
            /\ from = "session_commit" => By(vaultDb, c) # {}
        BY <1>0, <4>1, DoesParts DEF SessionInv
      <4>4. By(vaultDisk', c) \subseteq By(vaultDb', c) /\ By(vaultDisk, c) \subseteq By(vaultDisk', c)
        BY <1>0, <4>2, <4>3, DoesSessions
      <4>5. from = "session_commit" => By(vaultDisk', c) # {}
        BY <1>0, <4>3, DoesSessions DEF Commits
      <4>6. \A op \in Opens : Doing(c, op) /\ to \in {"token_insert", "commit", "ok"} =>
              from \in {"session_commit", "token_insert", "commit"}
        BY <1>0, <1>1, DoesParts DEF Leads, StageInv, Order, Opens, Settings, VaultSteps
      <4> QED
        BY <1>0, <4>3, <4>4, <4>5, <4>6, DoesParts DEF Since
    <3>5. Doing(c, "logout")' /\ vaultPc'[c] \in {"commit", "ok"} => By(vaultDb', c) = {}
      <4>1. Doing(c, "logout") /\ to \in {"commit", "ok"} => from \in {"logout", "commit"}
        BY <1>0, <1>1, DoesParts DEF Leads, StageInv, Order, Opens, Settings, VaultSteps
      <4> QED
        BY <1>0, <4>1, DoesParts, DoesSessions DEF SessionInv
    <3>6. Doing(c, "logout")' /\ vaultPc'[c] = "ok" => By(vaultDisk', c) = {}
      <4>1. Doing(c, "logout") /\ to = "ok" => from = "commit"
        BY <1>0, <1>1, DoesParts DEF Leads, StageInv, Order, Opens, Settings, VaultSteps
      <4> QED
        BY <1>0, <4>1, DoesParts, DoesSessions DEF SessionInv, Commits
    <3>7. /\ vaultPc'[c] \in {"store_signing", "store_encryption", "get_select", "delete", "recover"}
               => By(vaultDb', c) # {}
          /\ Doing(c, "store")' /\ vaultPc'[c] = "commit" => By(vaultDb', c) # {}
      <4>1. to \in {"store_signing", "store_encryption", "get_select", "delete", "recover"} =>
              from = "store_signing"
        BY <1>1 DEF Leads
      <4>2. Doing(c, "store") /\ to = "commit" => from = "store_encryption"
        BY <1>0, <1>1, DoesParts DEF Leads, StageInv, Order, Opens, Settings, VaultSteps
      <4> QED
        BY <1>0, <2>0, <4>1, <4>2, DoesParts, DoesSessions DEF SessionInv
    <3> QED
      BY <2>2, <3>1, <3>2, <3>3, <3>4, <3>5, <3>6, <3>7
  <2> QED
    BY <2>1, <2>2
<1>7. \A d : LoggedIn(d)' <=> By(vaultDb', d) # {}
  BY DEF LoggedIn, By
<1> QED
  BY <1>4, <1>5, <1>6, <1>7 DEF SessionInv

\* A statement makes nobody the opener of a link who was not.
LEMMA DoesRace ==
  ASSUME AccTypeOK, VaultInv, NEW c \in Callers, NEW from, NEW to, Performs(c, from, to), Idle
  PROVE  RaceInv'
<1>0. StageInv /\ ArgInv /\ LinkInv /\ SessionInv /\ RaceInv
  BY DEF VaultInv
<1>1. Leads(c, from, to) /\ from \in VaultSteps /\ raced' = raced
  BY DEF Performs
<1>2. vaultDisk.used \subseteq vaultDisk'.used
  BY <1>0, DoesParts DEF LinkInv
<1>3. from = "get_select" => ~Called(c, "open")
  BY <1>0, DoesParts DEF StageInv, Order
<1>4. Doing(c, "open") /\ to \in {"open_use", "open_commit", "session_insert"} =>
        from \in {"open_use", "open_commit"}
  BY <1>0, <1>1, DoesParts DEF Leads, StageInv, Order
<1>5. from = "session_insert" /\ Called(c, "open") => Doing(c, "open")
  BY <1>0, DoesParts DEF StageInv, Order, Opens
<1>6. \A d \in Callers : Opener(d)' => Opener(d) /\ vaultArg'[d] = vaultArg[d]
  <2>1. \A d \in Callers : d # c => (Opener(d)' => Opener(d))
    BY <1>0, DoesParts, DoesSessions DEF Opener
  <2>2. Opener(c)' => Opener(c)
    BY <1>0, <1>4, <1>5, DoesParts, DoesSessions DEF Opener
  <2>3. \A d \in Callers : Opener(d) => vaultArg'[d] = vaultArg[d]
    BY <1>0, <1>3, DoesParts DEF Opener
  <2> QED
    BY <2>1, <2>2, <2>3
<1>7. \A d \in Callers : Called(d, "open")' /\ HeldBy(d)' # {} => vaultArg'[d] \in vaultDisk'.used
  <2>1. from = "session_insert" /\ Called(c, "open") => vaultArg[c] \in vaultDisk.used
    BY <1>0, <1>5, DoesParts DEF LinkInv, Since
  <2>2. \A d \in Callers : HeldBy(d) # {} /\ Called(d, "open") => vaultArg[d] \in vaultDisk.used
    BY <1>0 DEF RaceInv
  <2>3. \A d \in Callers : Called(d, "open") => vaultArg'[d] = vaultArg[d]
    BY <1>0, <1>3, DoesParts
  <2>4. \A d \in Callers : HeldBy(d)' # {} => HeldBy(d) # {} \/ (d = c /\ from = "session_insert")
    BY <1>0, DoesSessions
  <2> QED
    BY <1>0, <1>2, <2>1, <2>2, <2>3, <2>4, DoesParts
<1> QED
  BY <1>1, <1>0, <1>6, <1>7 DEF RaceInv

\* The session a caller has is the one of which require_auth finds the row.
LEMMA TheSession ==
  ASSUME SessionInv, NEW c \in Callers, NEW s \in vaultDb.sessions, s.by = c
  PROVE  UserOf(c) = s.user
<1>1. SessionOf(c) \in vaultDb.sessions /\ SessionOf(c).by = c
  BY DEF SessionOf
<1>2. SessionOf(c) = s
  BY <1>1 DEF SessionInv
<1> QED
  BY <1>2 DEF UserOf

\* Somebody who asked for the keys' deletion stays who asked.
LEMMA DoesForget ==
  ASSUME AccTypeOK, StageInv, NEW c \in Callers, NEW from, NEW to, Performs(c, from, to), Idle,
         NEW k \in Callers, Forgotten(k)
  PROVE  Forgotten(k)'
<1>1. from = "get_select" => ~Called(c, "delete")
  BY DoesParts DEF StageInv, Order
<1> QED
  BY <1>1, DoesParts DEF Forgotten

\* Until then rows of a key stay.
LEMMA DoesRows ==
  ASSUME AccTypeOK, StageInv, NEW c \in Callers, NEW from, NEW to, Performs(c, from, to), Idle,
         NEW k \in Callers, ~Forgotten(k), NEW r \in vaultDb.keys, r.key = k
  PROVE  r \in vaultDb'.keys
<1>1. from = "delete" => vaultArg[c] # k
  BY DoesParts DEF StageInv, Order, Forgotten
<1>2. vaultDb'.keys =
       CASE from = "store_signing" -> vaultDb.keys \cup {Row(UserOf(c), c, "signing")}
         [] from = "store_encryption" -> vaultDb.keys \cup {Row(UserOf(c), c, "encryption")}
         [] from = "delete" -> {q \in vaultDb.keys : q.user # UserOf(c) \/ q.key # vaultArg[c]}
         [] OTHER -> vaultDb.keys
  BY DEF Performs, Saves
<1> QED
  BY <1>1, <1>2

\* Stored keys are together and safe before the answer says so.
LEMMA DoesKey ==
  ASSUME AccTypeOK, VaultInv, NEW c \in Callers, NEW from, NEW to, Performs(c, from, to), Idle
  PROVE  KeyInv'
<1>0. StageInv /\ SessionInv /\ KeyInv /\ VaultTypeOK
  BY DEF VaultInv, AccTypeOK
<1>1. /\ vaultDb'.keys =
           CASE from = "store_signing" -> vaultDb.keys \cup {Row(UserOf(c), c, "signing")}
             [] from = "store_encryption" -> vaultDb.keys \cup {Row(UserOf(c), c, "encryption")}
             [] from = "delete" -> {q \in vaultDb.keys : q.user # UserOf(c) \/ q.key # vaultArg[c]}
             [] OTHER -> vaultDb.keys
      /\ Leads(c, from, to) /\ from \in VaultSteps
  BY DEF Performs, Saves
<1>2. SessionInv'
  BY DoesSession
<1> SUFFICES ASSUME NEW d \in Callers, ~Forgotten(d)'
             PROVE  /\ vaultPc'[d] = "store_encryption" => Row(UserOf(d)', d, "signing") \in vaultDb'.keys
                    /\ Doing(d, "store")' /\ vaultPc'[d] = "commit" => KeysIn(vaultDb', d)
                    /\ Since(d, "store", {"ok"})' => KeysIn(vaultDb', d) /\ KeysIn(vaultDisk', d)
  BY DEF KeyInv
<1>3. ~Forgotten(d)
  BY <1>0, DoesForget
<1>4. \A u, type : Row(u, d, type) \in vaultDb.keys => Row(u, d, type) \in vaultDb'.keys
  <2>1. \A u, type : Row(u, d, type).key = d
    BY DEF Row
  <2> QED
    BY <1>0, <1>3, <2>1, DoesRows
<1>5. KeysIn(vaultDb, d) => KeysIn(vaultDb', d)
  BY <1>0, <1>4, DoesParts DEF KeysIn
<1>6. /\ KeysIn(vaultDisk, d) /\ from \notin Commits => KeysIn(vaultDisk', d)
      /\ KeysIn(vaultDb, d) /\ from \in Commits => KeysIn(vaultDisk', d)
  BY <1>0, DoesParts DEF KeysIn
<1>7. LoggedIn(d) /\ (d = c => from \notin {"logout", "session_insert"}) => UserOf(d)' = UserOf(d)
  <2> SUFFICES ASSUME LoggedIn(d), d = c => from \notin {"logout", "session_insert"}
               PROVE  UserOf(d)' = UserOf(d)
    OBVIOUS
  <2>1. PICK s \in vaultDb.sessions : s.by = d
    BY DEF LoggedIn
  <2>2. s \in vaultDb'.sessions
    <3>1. By(vaultDb', d) = By(vaultDb, d)
      BY <1>0, DoesSessions
    <3> QED
      BY <2>1, <3>1 DEF By
  <2>3. SessionOf(d)' \in vaultDb'.sessions /\ (SessionOf(d)').by = d
    BY <2>1, <2>2 DEF SessionOf
  <2>4. SessionOf(d)' = s
    BY <1>2, <2>1, <2>2, <2>3 DEF SessionInv
  <2>5. UserOf(d)' = s.user
    BY <2>4 DEF UserOf
  <2> QED
    BY <1>0, <2>1, <2>5, TheSession
<1>8. CASE d # c
  <2>1. vaultPc[d] = "store_encryption" => LoggedIn(d)
    BY <1>0 DEF SessionInv
  <2> QED
    BY <1>0, <1>3, <1>4, <1>5, <1>6, <1>7, <1>8, <2>1, DoesParts DEF KeyInv, Since
<1>9. CASE d = c
  <2>1. to = "store_encryption" => from = "store_signing"
    BY <1>1 DEF Leads
  <2>2. Doing(c, "store") /\ to = "commit" => from = "store_encryption"
    BY <1>0, <1>1, DoesParts DEF Leads, StageInv, Order, Opens, Settings, VaultSteps
  <2>3. Doing(c, "store") /\ to = "ok" => from = "commit"
    BY <1>0, <1>1, DoesParts DEF Leads, StageInv, Order, Opens, Settings, VaultSteps
  <2>4. vaultPc'[c] = "store_encryption" => Row(UserOf(c)', c, "signing") \in vaultDb'.keys
    <3>1. from = "store_signing" => LoggedIn(c) /\ Row(UserOf(c), c, "signing") \in vaultDb'.keys
      BY <1>0, <1>1, DoesParts DEF SessionInv
    <3> QED
      BY <1>0, <1>7, <1>9, <2>1, <3>1, DoesParts
  <2>5. from = "store_encryption" => KeysIn(vaultDb', c)
    <3>1. SUFFICES ASSUME from = "store_encryption" PROVE KeysIn(vaultDb', c)
      OBVIOUS
    <3>2. LoggedIn(c) /\ Row(UserOf(c), c, "signing") \in vaultDb.keys
      BY <1>0, <1>3, <1>9, <3>1, DoesParts DEF SessionInv, KeyInv
    <3>3. Row(UserOf(c), c, "encryption") \in vaultDb'.keys
      BY <1>1, <3>1
    <3>4. UserOf(c) \in vaultDb.users /\ EmailOf[UserOf(c)] = EmailOf[c]
      BY <1>0, <3>2, Theirs DEF SessionInv, UserOf
    <3> QED
      BY <1>0, <1>4, <1>9, <3>2, <3>3, <3>4, DoesParts DEF KeysIn
  <2>6. Doing(c, "store") /\ from = "commit" => KeysIn(vaultDb', c) /\ KeysIn(vaultDisk', c)
    BY <1>0, <1>3, <1>5, <1>6, <1>9, DoesParts DEF KeyInv, Commits
  <2>7. Since(c, "store", {"ok"})' => KeysIn(vaultDb', c) /\ KeysIn(vaultDisk', c)
    <3>1. CASE Doing(c, "store")
      BY <1>0, <2>3, <2>6, <3>1, DoesParts DEF Since
    <3>2. CASE ~Doing(c, "store")
      <4>1. Called(c, "store") => KeysIn(vaultDb, c) /\ KeysIn(vaultDisk, c)
        BY <1>0, <1>3, <1>9, <3>2 DEF KeyInv, Since
      <4> QED
        BY <1>0, <1>5, <1>6, <1>9, <4>1, DoesParts DEF Since
    <3> QED
      BY <3>1, <3>2
  <2> QED
    BY <1>0, <1>9, <2>2, <2>4, <2>5, <2>7, DoesParts
<1> QED
  BY <1>8, <1>9

\* A statement keeps the types.
LEMMA DoesTypes ==
  ASSUME AccTypeOK, NEW c \in Callers, NEW from, NEW to, Performs(c, from, to), Idle,
         UNCHANGED relayVars
  PROVE  AccTypeOK'
<1>1. VaultTypeOK'
  <2>1. vaultDb' \in VaultTables /\ vaultDisk' \in VaultTables
    BY DEF Performs, Saves
  <2>2. vaultPc' \in [Callers -> VaultSteps \cup {"idle", "ok", "no"}]
    BY DEF Performs, Between, AccTypeOK, VaultTypeOK
  <2>3. vaultArg' \in [Callers -> Callers \cup {None}]
    BY DEF Performs, Saves, Leads, AccTypeOK, VaultTypeOK
  <2>4. vaultCrashes' \in 0 .. MaxVaultCrashes /\ raced' \subseteq Callers
    BY DEF Performs, AccTypeOK, VaultTypeOK
  <2> QED
    BY <2>1, <2>2, <2>3, <2>4 DEF VaultTypeOK
<1>2. RelayTypeOK'
  BY DEF AccTypeOK, RelayTypeOK, relayVars
<1> QED
  BY <1>1, <1>2 DEF AccTypeOK, Idle

\* A statement of the vault keeps all of it.
LEMMA DoesInv ==
  ASSUME AccTypeOK, VaultInv, NEW c \in Callers, VaultContinue(c), Idle, UNCHANGED relayVars
  PROVE  AccTypeOK' /\ VaultInv'
<1>1. PICK from \in VaultSteps, to \in Between : Performs(c, from, to)
  BY VaultDoes
<1>2. relayPc' = relayPc
  BY DEF relayVars
<1> QED
  BY <1>1, <1>2, DoesTypes, DoesStage, DoesUser, DoesArg, DoesLink, DoesSession, DoesRace, DoesKey
  DEF VaultInv

-----------------------------------------------------------------------------
(***************************************************************************)
(* Calls.                                                                  *)
(***************************************************************************)
\* The vault's first statement for each call.
Firsts == {<<"register", "register_insert">>, <<"login", "session_insert">>, <<"mail", "link_insert">>,
           <<"open", "open_use">>, <<"logout", "logout">>, <<"store", "store_signing">>,
           <<"get", "get_select">>, <<"delete", "delete">>, <<"authorize", "authorize">>,
           <<"revoke", "revoke">>, <<"recover", "recover">>, <<"email", "verify_update">>}
OnVault == {"register", "login", "mail", "open", "logout", "store", "get", "delete"} \cup Settings

\* c's request for l finds it unspent, unless it is refused.
Spends(c, l, to) ==
  /\ vaultArg' = [vaultArg EXCEPT ![c] = l]
  /\ raced' = IF Opening(l) # {} THEN raced \cup {l} ELSE raced
  /\ to # "no" => l \in vaultDb.links /\ l \notin vaultDb.used

\* c makes its next call, op, and its request at the vault comes to `to'; it stays
\* where it was when the call is one to the relay.
Begins(c, op, to) ==
  /\ Call(c, op)
  /\ op \in OnVault \cup OnRelay
  /\ op \in OnVault => <<op, to>> \in Firsts \/ to = "no"
  /\ op \in OnRelay => to \notin VaultSteps
  /\ to \in Between /\ vaultPc' = [vaultPc EXCEPT ![c] = to]
  /\ vaultDb' = vaultDb /\ vaultDisk' = vaultDisk /\ vaultCrashes' = vaultCrashes
  /\ op = "open" => \E l \in Mailed(c) : Spends(c, l, to)
  /\ op # "open" => vaultArg' = vaultArg /\ raced' = raced
  /\ op \in {"login", "mail", "email"} /\ to # "no" => HasAccount(c)
  /\ op \in {"logout", "store", "get", "delete", "authorize", "revoke", "recover"} /\ to # "no" =>
       LoggedIn(c)

\* Every call to the vault begins a request there, or is refused.
LEMMA VaultBegins ==
  ASSUME NEW c \in Callers, CallVault(c)
  PROVE  \E op \in OnVault, to \in Between : Begins(c, op, to)
<1>1. CASE Call(c, "register") /\ Register(c)
  <2> DEFINE to == IF HasAccount(c) THEN "no" ELSE "register_insert"
  <2>1. to \in Between /\ Begins(c, "register", to)
    BY <1>1 DEF Register, VaultAsk, VaultBegin, Begins, Firsts, OnVault, OnRelay, Between, VaultSteps
  <2> QED
    BY <2>1 DEF OnVault
<1>2. CASE Call(c, "login") /\ Login(c)
  <2> DEFINE to == IF HasAccount(c) THEN "session_insert" ELSE "no"
  <2>1. to \in Between /\ Begins(c, "login", to)
    BY <1>2 DEF Login, VaultAsk, VaultBegin, Begins, Firsts, OnVault, OnRelay, Between, VaultSteps
  <2> QED
    BY <2>1 DEF OnVault
<1>3. CASE Call(c, "mail") /\ RequestMagicLink(c)
  <2> DEFINE to == IF HasAccount(c) THEN "link_insert" ELSE "no"
  <2>1. to \in Between /\ Begins(c, "mail", to)
    BY <1>3 DEF RequestMagicLink, VaultAsk, VaultBegin, Begins, Firsts, OnVault, OnRelay, Between, VaultSteps
  <2> QED
    BY <2>1 DEF OnVault
<1>4. CASE Call(c, "open") /\ \E l \in Mailed(c) : VerifyMagicLink(c, l)
  <2>1. PICK l \in Mailed(c) : VerifyMagicLink(c, l)
    BY <1>4
  <2> DEFINE to == IF l \in vaultDb.links \ vaultDb.used THEN "open_use" ELSE "no"
  <2>2. Spends(c, l, to)
    BY <2>1 DEF VerifyMagicLink, Spends
  <2>3. vaultPc' = [vaultPc EXCEPT ![c] = to] /\ UNCHANGED <<vaultDb, vaultDisk, vaultCrashes>>
    BY <2>1 DEF VerifyMagicLink, VaultBegin
  <2>4. <<"open", to>> \in Firsts \/ to = "no"
    BY DEF Firsts
  <2>5. to \in Between
    BY DEF Between, VaultSteps
  <2> HIDE DEF to
  <2>6. Begins(c, "open", to)
    BY <1>4, <2>2, <2>3, <2>4, <2>5 DEF Begins, OnVault, OnRelay
  <2> QED
    BY <2>5, <2>6 DEF OnVault
<1>5. CASE Call(c, "logout") /\ Logout(c)
  <2> DEFINE to == IF LoggedIn(c) THEN "logout" ELSE "no"
  <2>1. to \in Between /\ Begins(c, "logout", to)
    BY <1>5 DEF Logout, VaultAuth, VaultAsk, VaultBegin, Begins, Firsts, OnVault, OnRelay, Between, VaultSteps
  <2> QED
    BY <2>1 DEF OnVault
<1>6. CASE Call(c, "store") /\ StoreKeys(c)
  <2> DEFINE to == IF LoggedIn(c) THEN "store_signing" ELSE "no"
  <2>1. to \in Between /\ Begins(c, "store", to)
    BY <1>6 DEF StoreKeys, VaultAuth, VaultAsk, VaultBegin, Begins, Firsts, OnVault, OnRelay, Between, VaultSteps
  <2> QED
    BY <2>1 DEF OnVault
<1>7. CASE Call(c, "get") /\ GetKeys(c)
  <2> DEFINE to == IF LoggedIn(c) THEN "get_select" ELSE "no"
  <2>1. to \in Between /\ Begins(c, "get", to)
    BY <1>7 DEF GetKeys, VaultAuth, VaultAsk, VaultBegin, Begins, Firsts, OnVault, OnRelay, Between, VaultSteps
  <2> QED
    BY <2>1 DEF OnVault
<1>8. CASE Call(c, "delete") /\ DeleteKeys(c)
  <2> DEFINE to == IF LoggedIn(c) THEN "delete" ELSE "no"
  <2>1. to \in Between /\ Begins(c, "delete", to)
    BY <1>8 DEF DeleteKeys, VaultAuth, VaultAsk, VaultBegin, Begins, Firsts, OnVault, OnRelay, Between, VaultSteps
  <2> QED
    BY <2>1 DEF OnVault
<1>9. CASE Call(c, "authorize") /\ AuthorizeDevice(c)
  <2> DEFINE to == IF LoggedIn(c) THEN "authorize" ELSE "no"
  <2>1. to \in Between /\ Begins(c, "authorize", to)
    BY <1>9 DEF AuthorizeDevice, VaultAuth, VaultAsk, VaultBegin, Begins, Firsts, OnVault, OnRelay, Between, VaultSteps, Settings
  <2> QED
    BY <2>1 DEF OnVault, Settings
<1>10. CASE Call(c, "revoke") /\ RevokeDevice(c)
  <2> DEFINE to == IF LoggedIn(c) THEN "revoke" ELSE "no"
  <2>1. to \in Between /\ Begins(c, "revoke", to)
    BY <1>10 DEF RevokeDevice, VaultAuth, VaultAsk, VaultBegin, Begins, Firsts, OnVault, OnRelay, Between, VaultSteps, Settings
  <2> QED
    BY <2>1 DEF OnVault, Settings
<1>11. CASE Call(c, "recover") /\ SetupRecovery(c)
  <2> DEFINE to == IF LoggedIn(c) THEN "recover" ELSE "no"
  <2>1. to \in Between /\ Begins(c, "recover", to)
    BY <1>11 DEF SetupRecovery, VaultAuth, VaultAsk, VaultBegin, Begins, Firsts, OnVault, OnRelay, Between, VaultSteps, Settings
  <2> QED
    BY <2>1 DEF OnVault, Settings
<1>12. CASE Call(c, "email") /\ VerifyEmail(c)
  <2> DEFINE to == IF HasAccount(c) /\ AccountOf(c) \in vaultDb.tokens THEN "verify_update" ELSE "no"
  <2>1. to \in Between /\ Begins(c, "email", to)
    BY <1>12 DEF VerifyEmail, VaultAsk, VaultBegin, Begins, Firsts, OnVault, OnRelay, Between, VaultSteps, Settings
  <2> QED
    BY <2>1 DEF OnVault, Settings
<1> QED
  BY <1>1, <1>2, <1>3, <1>4, <1>5, <1>6, <1>7, <1>8, <1>9, <1>10, <1>11, <1>12 DEF CallVault

\* A call to the relay leaves the vault alone, where nothing is at work for the caller.
LEMMA RelayBegins ==
  ASSUME AccTypeOK, StageInv, NEW c \in Callers, NEW op \in OnRelay, Call(c, op), UNCHANGED vaultVars
  PROVE  \E to \in Between : Begins(c, op, to)
<1> DEFINE to == vaultPc[c]
<1>1. \A o : Doing(c, o) /\ o \notin OnRelay => vaultPc[c] = "ok"
  BY CallsNext
<1>2. to \notin VaultSteps
  BY <1>1 DEF StageInv, VaultSteps, Opens, Settings, OnRelay
<1>3. to \in Between /\ vaultPc' = [vaultPc EXCEPT ![c] = to]
  BY DEF AccTypeOK, VaultTypeOK, Between, vaultVars
<1> HIDE DEF to
<1>4. Begins(c, op, to)
  BY <1>2, <1>3 DEF Begins, vaultVars, OnRelay, OnVault, Settings
<1> QED
  BY <1>3, <1>4

\* What a call leaves as it is.
LEMMA BeginParts ==
  ASSUME AccTypeOK, StageInv, NEW c \in Callers, NEW op, NEW to, Begins(c, op, to)
  PROVE  /\ vaultPc'[c] = to /\ \A d \in Callers : d # c => vaultPc'[d] = vaultPc[d]
         /\ \A d \in Callers : \A o : d # c => (Called(d, o)' <=> Called(d, o)) /\ (Doing(d, o)' <=> Doing(d, o))
         /\ Doing(c, op)' /\ ~Called(c, op) /\ Order(c)' /\ Order(c)
         /\ \A o : Doing(c, o)' => o = op
         /\ \A o : Called(c, o)' <=> Called(c, o) \/ o = op
         /\ \A o \in OnVault : Doing(c, o) => vaultPc[c] = "ok"
         /\ \A d \in Callers : d # c \/ op # "open" => vaultArg'[d] = vaultArg[d]
         /\ op = "open" => vaultArg'[c] \in Callers /\ EmailOf[vaultArg'[c]] = EmailOf[c]
         /\ vaultDb' = vaultDb /\ vaultDisk' = vaultDisk
         /\ \A d : HeldBy(d)' = HeldBy(d) /\ By(vaultDb, d)' = By(vaultDb, d)
         /\ \A d : (HasAccount(d)' <=> HasAccount(d)) /\ (LoggedIn(d)' <=> LoggedIn(d))
         /\ plan' = plan
<1>1. /\ vaultPc \in [Callers -> Between] /\ vaultArg \in [Callers -> Callers \cup {None}]
      /\ vaultPc' = [vaultPc EXCEPT ![c] = to] /\ Call(c, op)
      /\ vaultDb' = vaultDb /\ vaultDisk' = vaultDisk
  BY DEF AccTypeOK, VaultTypeOK, Begins, Between
<1>2. vaultPc'[c] = to /\ \A d \in Callers : d # c => vaultPc'[d] = vaultPc[d]
  BY <1>1
<1>3. \A d \in Callers : d # c \/ op # "open" => vaultArg'[d] = vaultArg[d]
  BY <1>1 DEF Begins, Spends
<1>4. op = "open" => vaultArg'[c] \in Callers /\ EmailOf[vaultArg'[c]] = EmailOf[c]
  BY <1>1 DEF Begins, Spends, Mailed
<1>5. /\ \A d : HeldBy(d)' = HeldBy(d) /\ By(vaultDb, d)' = By(vaultDb, d)
      /\ \A d : (HasAccount(d)' <=> HasAccount(d)) /\ (LoggedIn(d)' <=> LoggedIn(d))
  BY <1>1 DEF HeldBy, By, HasAccount, LoggedIn
<1>6. \A o \in OnVault : Doing(c, o) => vaultPc[c] = "ok"
  BY <1>1, CallsNext DEF OnVault, OnRelay, Settings
<1>7. /\ \A d \in Callers : \A o : d # c => (Called(d, o)' <=> Called(d, o)) /\ (Doing(d, o)' <=> Doing(d, o))
      /\ Doing(c, op)' /\ ~Called(c, op) /\ Order(c)' /\ plan' = plan
      /\ \A o : Doing(c, o)' => o = op
      /\ \A o : Called(c, o)' <=> Called(c, o) \/ o = op
  BY <1>1, CallsNext
<1> QED
  BY <1>1, <1>2, <1>3, <1>4, <1>5, <1>6, <1>7, CallsInOrder

\* What a call begins is of that call.
LEMMA BeginStage ==
  ASSUME AccTypeOK, VaultInv, NEW c \in Callers, NEW op, NEW to, Begins(c, op, to),
         \A d \in Callers : d # c => relayPc'[d] = relayPc[d],
         /\ relayPc'[c] \in {"create_handle", "create_insert", "create_commit", "create_log",
                             "create_log_commit"} => op = "create"
         /\ relayPc'[c] \in {"verify_get", "verify_found"} => op = "verify"
  PROVE  StageInv'
<1>0. StageInv
  BY DEF VaultInv
<1>1. \A d \in Callers : stage'[d] <= Len(Calls(d)')
  BY <1>0, CallsNext DEF Begins
<1>2. /\ op \in OnVault => <<op, to>> \in Firsts \/ to = "no"
      /\ op \in OnRelay => to \notin VaultSteps
      /\ op \in OnVault \cup OnRelay
  BY DEF Begins
<1>3. to \in VaultSteps => <<op, to>> \in Firsts
  BY <1>2 DEF VaultSteps
<1> QED
  BY <1>0, <1>1, <1>3, BeginParts DEF StageInv, Firsts, Opens, Settings, VaultSteps

\* A call leaves accounts alone, and goes on only with one where it needs one.
LEMMA BeginUser ==
  ASSUME AccTypeOK, VaultInv, NEW c \in Callers, NEW op, NEW to, Begins(c, op, to)
  PROVE  UserInv'
<1>0. StageInv /\ UserInv /\ LinkInv
  BY DEF VaultInv
<1>1. /\ op \in OnVault => <<op, to>> \in Firsts \/ to = "no"
      /\ op \in OnRelay => to \notin VaultSteps
      /\ op \in OnVault \cup OnRelay
  BY DEF Begins
<1>2. to \in VaultSteps => <<op, to>> \in Firsts
  BY <1>1 DEF VaultSteps
<1>3. \A u \in vaultDb.users : Called(u, "register")'
  <2>1. vaultDb.users \subseteq Callers
    BY DEF AccTypeOK, VaultTypeOK, VaultTables
  <2> QED
    BY <1>0, <2>1, BeginParts DEF UserInv
<1>4. op \in {"login", "mail", "email", "open"} /\ to # "no" => HasAccount(c)
  <2>1. op = "open" /\ to # "no" => HasAccount(c)
    <3>1. ASSUME op = "open", to # "no" PROVE HasAccount(c)
      <4>1. PICK l \in Mailed(c) : Spends(c, l, to)
        BY <3>1 DEF Begins
      <4>2. l \in vaultDb.links /\ EmailOf[l] = EmailOf[c]
        BY <3>1, <4>1 DEF Spends, Mailed
      <4> QED
        BY <1>0, <4>2 DEF LinkInv, HasAccount
    <3> QED
      BY <3>1
  <2> QED
    BY <2>1 DEF Begins
<1>5. ASSUME NEW d \in Callers
      PROVE  /\ vaultPc'[d] = "register_commit" => d \in vaultDb.users
             /\ vaultPc'[d] \in {"session_insert", "link_insert", "open_use", "open_commit",
                                 "verify_update"} => HasAccount(d)
             /\ Since(d, "register", {"session_insert", "session_commit", "token_insert", "commit",
                                      "ok"})' => d \in vaultDisk.users
  <2>1. CASE d # c
    BY <1>0, <2>1, BeginParts DEF UserInv, Since
  <2>2. CASE d = c
    <3>1. vaultPc'[c] # "register_commit"
      BY <1>0, <1>2, BeginParts DEF Firsts, VaultSteps
    <3>2. vaultPc'[c] \in {"session_insert", "link_insert", "open_use", "open_commit",
                           "verify_update"} => HasAccount(c)
      BY <1>0, <1>2, <1>4, BeginParts DEF Firsts, VaultSteps
    <3>3. op = "register" => to \in {"no", "register_insert"}
      BY <1>1 DEF Firsts, OnVault
    <3>4. Since(c, "register", {"session_insert", "session_commit", "token_insert", "commit",
                                "ok"})' => c \in vaultDisk.users
      BY <1>0, <3>3, BeginParts DEF UserInv, Since, OnVault
    <3> QED
      BY <2>2, <3>1, <3>2, <3>4
  <2> QED
    BY <2>1, <2>2
<1>6. vaultDb' = vaultDb /\ vaultDisk' = vaultDisk /\ \A d : HasAccount(d)' <=> HasAccount(d)
  BY <1>0, BeginParts
<1> QED
  BY <1>0, <1>3, <1>5, <1>6 DEF UserInv

\* A call names a link if it opens one, and else nothing.
LEMMA BeginArg ==
  ASSUME AccTypeOK, VaultInv, NEW c \in Callers, NEW op, NEW to, Begins(c, op, to)
  PROVE  ArgInv'
<1>0. StageInv /\ ArgInv
  BY DEF VaultInv
<1>1. op = "get" => to # "ok"
  BY DEF Begins, OnVault, Firsts
<1> QED
  BY <1>0, <1>1, BeginParts, CallersAssumption DEF ArgInv, Since, OnVault

\* A call leaves links alone.
LEMMA BeginLink ==
  ASSUME AccTypeOK, VaultInv, NEW c \in Callers, NEW op, NEW to, Begins(c, op, to)
  PROVE  LinkInv'
<1>0. StageInv /\ LinkInv
  BY DEF VaultInv
<1>1. /\ op = "mail" => to \notin {"ok", "commit"}
      /\ op = "open" => to \notin {"session_insert", "session_commit", "ok"}
      /\ to # "open_commit"
  BY DEF Begins, OnVault, Firsts, OnRelay, VaultSteps
<1>2. vaultDb' = vaultDb /\ vaultDisk' = vaultDisk
  BY <1>0, BeginParts
<1>3. ASSUME NEW d \in Callers
      PROVE  /\ Doing(d, "mail")' /\ vaultPc'[d] = "commit" => d \in vaultDb.links
             /\ Since(d, "mail", {"ok"})' => d \in vaultDisk.links
             /\ vaultPc'[d] = "open_commit" => vaultArg'[d] \in vaultDb.used
             /\ Since(d, "open", {"session_insert", "session_commit", "ok"})' =>
                  vaultArg'[d] \in vaultDisk.used
  <2>1. CASE d # c
    BY <1>0, <2>1, BeginParts DEF LinkInv, Since
  <2>2. CASE d = c
    BY <1>0, <1>1, <2>2, BeginParts DEF LinkInv, Since, OnVault
  <2> QED
    BY <2>1, <2>2
<1> QED
  BY <1>0, <1>2, <1>3 DEF LinkInv

\* One who begins to log in has no session.
LEMMA BeginFresh ==
  ASSUME AccTypeOK, VaultInv, NEW c \in Callers, NEW op \in Opens, NEW to, Begins(c, op, to)
  PROVE  HeldBy(c) = {}
<1>0. StageInv /\ SessionInv
  BY DEF VaultInv
<1>1. HeldBy(c) # {} => \E o \in Opens : Called(c, o)
  BY <1>0 DEF SessionInv
<1> QED
  BY <1>0, <1>1, BeginParts DEF Order

\* A call leaves sessions alone, and goes on only with one where it needs one.
LEMMA BeginSession ==
  ASSUME AccTypeOK, VaultInv, NEW c \in Callers, NEW op, NEW to, Begins(c, op, to)
  PROVE  SessionInv'
<1>0. StageInv /\ SessionInv
  BY DEF VaultInv
<1>1. /\ op \in Opens => to \notin {"token_insert", "commit", "ok", "session_commit"}
      /\ op \in {"logout", "store"} => to \notin {"ok", "commit"}
      /\ to # "session_commit"
      /\ to \in {"store_signing", "store_encryption", "get_select", "delete", "recover"} => LoggedIn(c)
  BY DEF Begins, OnVault, Firsts, OnRelay, VaultSteps, Opens, Settings
<1>2. vaultDb' = vaultDb /\ vaultDisk' = vaultDisk
  BY <1>0, BeginParts
<1>3. ASSUME NEW d \in Callers
      PROVE  /\ HeldBy(d)' # {} =>
                  \E o \in Opens : Called(d, o)' /\ (Doing(d, o)' =>
                    vaultPc'[d] \notin {"register_insert", "register_commit", "open_use", "open_commit",
                                       "session_insert"})
             /\ \A s \in HeldBy(d)' : s.link # None => s.link = vaultArg'[d] /\ Called(d, "open")'
             /\ vaultPc'[d] = "session_commit" => By(vaultDb, d) # {}
             /\ ~Called(d, "logout")' =>
                  /\ By(vaultDisk, d) \subseteq By(vaultDb, d)
                  /\ \A o \in Opens : Since(d, o, {"token_insert", "commit", "ok"})' =>
                                         By(vaultDisk, d) # {}
             /\ Doing(d, "logout")' /\ vaultPc'[d] \in {"commit", "ok"} => By(vaultDb, d) = {}
             /\ Doing(d, "logout")' /\ vaultPc'[d] = "ok" => By(vaultDisk, d) = {}
             /\ vaultPc'[d] \in {"store_signing", "store_encryption", "get_select", "delete", "recover"}
                  => LoggedIn(d)
             /\ Doing(d, "store")' /\ vaultPc'[d] = "commit" => LoggedIn(d)
  <2>1. CASE d # c
    BY <1>0, <2>1, BeginParts DEF SessionInv, Since
  <2>2. CASE d = c
    <3>1. op \in Opens => HeldBy(c)' = {}
      BY <1>0, BeginFresh, BeginParts
    <3>2. HeldBy(c)' # {} =>
            \E o \in Opens : Called(c, o)' /\ (Doing(c, o)' =>
              vaultPc'[c] \notin {"register_insert", "register_commit", "open_use", "open_commit",
                                 "session_insert"})
      BY <1>0, <3>1, BeginParts DEF SessionInv
    <3>3. \A s \in HeldBy(c)' : s.link # None => s.link = vaultArg'[c] /\ Called(c, "open")'
      BY <1>0, <3>1, BeginParts DEF SessionInv, Opens
    <3>4. \A o \in Opens : Since(c, o, {"token_insert", "commit", "ok"})' =>
                             Since(c, o, {"token_insert", "commit", "ok"})
      BY <1>0, <1>1, BeginParts DEF Since, Opens, OnVault
    <3>5. ~Called(c, "logout")' =>
                  /\ By(vaultDisk, c) \subseteq By(vaultDb, c)
                  /\ \A o \in Opens : Since(c, o, {"token_insert", "commit", "ok"})' =>
                                         By(vaultDisk, c) # {}
      BY <1>0, <3>4, BeginParts DEF SessionInv
    <3>6. /\ Doing(c, "logout")' => vaultPc'[c] \notin {"commit", "ok"}
          /\ Doing(c, "store")' => vaultPc'[c] # "commit"
          /\ vaultPc'[c] # "session_commit"
          /\ vaultPc'[c] \in {"store_signing", "store_encryption", "get_select", "delete", "recover"}
                  => LoggedIn(c)
      BY <1>0, <1>1, BeginParts
    <3> QED
      BY <2>2, <3>2, <3>3, <3>5, <3>6
  <2> QED
    BY <2>1, <2>2
<1>4. \A d : LoggedIn(d)' <=> LoggedIn(d)
  BY <1>0, BeginParts
<1> QED
  BY <1>0, <1>2, <1>3, <1>4 DEF SessionInv

\* Who begins to open a link that another is opening finds it unspent, or both are noted.
LEMMA BeginRace ==
  ASSUME AccTypeOK, VaultInv, NEW c \in Callers, NEW op, NEW to, Begins(c, op, to)
  PROVE  RaceInv'
<1>0. StageInv /\ LinkInv /\ SessionInv /\ RaceInv
  BY DEF VaultInv
<1>1. op \in Opens => HeldBy(c) = {}
  BY BeginFresh
<1>2. vaultDb' = vaultDb /\ vaultDisk' = vaultDisk /\ raced \subseteq raced'
  BY <1>0, BeginParts DEF Begins, Spends
<1>3. \A d \in Callers : Called(d, "open")' /\ HeldBy(d)' # {} => vaultArg'[d] \in vaultDisk'.used
  BY <1>0, <1>1, <1>2, BeginParts DEF RaceInv, Opens
<1>4. \A d \in Callers : d # c => (Opener(d)' <=> Opener(d)) /\ vaultArg'[d] = vaultArg[d]
  BY <1>0, BeginParts DEF Opener
<1>5. CASE op # "open"
  <2>1. Opener(c)' => Opener(c) /\ vaultArg'[c] = vaultArg[c]
    BY <1>0, <1>5, BeginParts DEF Opener
  <2> QED
    BY <1>0, <1>2, <1>3, <1>4, <2>1 DEF RaceInv
<1>6. CASE op = "open"
  <2>1. PICK l \in Mailed(c) : Spends(c, l, to)
    BY <1>6 DEF Begins
  <2>2. vaultArg'[c] = l
    BY <2>1 DEF Spends, AccTypeOK, VaultTypeOK
  <2>3. Opener(c)' => l \notin vaultDb.used
    <3>1. Opener(c)' => to # "no"
      BY <1>0, <1>1, <1>6, BeginParts DEF Opener, Opens
    <3> QED
      BY <2>1, <3>1 DEF Spends
  <2>4. ASSUME NEW d \in Callers, d # c, Opener(d), Opener(c)', vaultArg[d] = l
        PROVE  l \in raced'
    <3>1. l \notin vaultDisk.used
      BY <1>0, <2>3, <2>4 DEF LinkInv
    <3>2. HeldBy(d) = {}
      BY <1>0, <2>4, <3>1 DEF RaceInv, Opener
    <3>3. ~(Doing(d, "open") /\ vaultPc[d] = "session_insert")
      BY <1>0, <2>4, <3>1 DEF LinkInv, Since, Opener
    <3>4. vaultPc[d] \in {"open_use", "open_commit"}
      BY <2>4, <3>2, <3>3 DEF Opener
    <3>5. d \in Opening(l)
      BY <2>4, <3>4 DEF Opening
    <3> QED
      BY <2>1, <3>5 DEF Spends
  <2> QED
    BY <1>0, <1>2, <1>3, <1>4, <2>2, <2>4 DEF RaceInv
<1> QED
  BY <1>5, <1>6

\* A call leaves keys alone.
LEMMA BeginKey ==
  ASSUME AccTypeOK, VaultInv, NEW c \in Callers, NEW op, NEW to, Begins(c, op, to)
  PROVE  KeyInv'
<1>0. StageInv /\ KeyInv
  BY DEF VaultInv
<1>1. vaultDb' = vaultDb /\ vaultDisk' = vaultDisk /\ \A d : UserOf(d)' = UserOf(d)
  BY <1>0, BeginParts DEF UserOf, SessionOf
<1>2. \A k \in Callers : Forgotten(k) => Forgotten(k)'
  BY <1>0, BeginParts DEF Forgotten, Order
<1>3. to # "store_encryption" /\ (op = "store" => to \notin {"commit", "ok"})
  BY DEF Begins, OnVault, Firsts, OnRelay, VaultSteps
<1>4. ASSUME NEW d \in Callers, ~Forgotten(d)
      PROVE  /\ vaultPc'[d] = "store_encryption" => Row(UserOf(d), d, "signing") \in vaultDb.keys
             /\ Doing(d, "store")' /\ vaultPc'[d] = "commit" => KeysIn(vaultDb, d)
             /\ Since(d, "store", {"ok"})' => KeysIn(vaultDb, d) /\ KeysIn(vaultDisk, d)
  <2>1. CASE d # c
    BY <1>0, <1>4, <2>1, BeginParts DEF KeyInv, Since
  <2>2. CASE d = c
    BY <1>0, <1>3, <1>4, <2>2, BeginParts DEF KeyInv, Since, OnVault
  <2> QED
    BY <2>1, <2>2
<1> QED
  BY <1>1, <1>2, <1>4 DEF KeyInv

\* A call keeps all of it.
LEMMA BeginInv ==
  ASSUME AccTypeOK, VaultInv, NEW c \in Callers, NEW op, NEW to, Begins(c, op, to), RelayTypeOK',
         \A d \in Callers : d # c => relayPc'[d] = relayPc[d],
         /\ relayPc'[c] \in {"create_handle", "create_insert", "create_commit", "create_log",
                             "create_log_commit"} => op = "create"
         /\ relayPc'[c] \in {"verify_get", "verify_found"} => op = "verify"
  PROVE  AccTypeOK' /\ VaultInv'
<1>0. StageInv
  BY DEF VaultInv
<1>1. VaultTypeOK'
  <2>1. vaultPc' \in [Callers -> VaultSteps \cup {"idle", "ok", "no"}]
    BY DEF Begins, Between, AccTypeOK, VaultTypeOK
  <2>2. vaultArg' \in [Callers -> Callers \cup {None}] /\ raced' \subseteq Callers
    BY DEF Begins, Spends, Mailed, AccTypeOK, VaultTypeOK
  <2> QED
    BY <2>1, <2>2 DEF Begins, AccTypeOK, VaultTypeOK
<1>2. plan' \in Plans /\ stage' \in [Callers -> 0 .. 5]
  BY <1>0, CallsNext DEF Begins, AccTypeOK
<1>3. StageInv'
  BY BeginStage
<1> QED
  BY <1>1, <1>2, <1>3, BeginUser, BeginArg, BeginLink, BeginSession, BeginRace, BeginKey
  DEF AccTypeOK, VaultInv

-----------------------------------------------------------------------------
(***************************************************************************)
(* The vault's commits for others, and its crashes.                        *)
(***************************************************************************)
\* A commit for others makes what is on the connection durable too early, which harms nothing.
LEMMA ElsewhereInv ==
  ASSUME AccTypeOK, VaultInv, VaultCommitElsewhere, Idle, UNCHANGED relayVars
  PROVE  AccTypeOK' /\ VaultInv'
<1>0. StageInv /\ UserInv /\ ArgInv /\ LinkInv /\ SessionInv /\ RaceInv /\ KeyInv
  BY DEF VaultInv
<1>1. /\ vaultDb' = vaultDb /\ vaultDisk' = vaultDb /\ vaultPc' = vaultPc /\ vaultArg' = vaultArg
      /\ raced' = raced /\ relayPc' = relayPc /\ vaultCrashes' = vaultCrashes
  BY DEF VaultCommitElsewhere, relayVars
<1>2. /\ \A d, o : (Called(d, o)' <=> Called(d, o)) /\ (Doing(d, o)' <=> Doing(d, o))
      /\ \A d : Calls(d)' = Calls(d) /\ plan' = plan /\ stage' = stage
  BY DEF Idle, Called, Doing, Calls
<1>3. /\ \A d, o, pts : Since(d, o, pts)' <=> Since(d, o, pts)
      /\ \A d : (HasAccount(d)' <=> HasAccount(d)) /\ (LoggedIn(d)' <=> LoggedIn(d))
      /\ \A d : UserOf(d)' = UserOf(d) /\ (Forgotten(d)' <=> Forgotten(d))
  BY <1>1, <1>2 DEF Since, HasAccount, LoggedIn, UserOf, SessionOf, Forgotten
<1>4. \A d : HeldBy(d)' = By(vaultDb, d) /\ HeldBy(d) = By(vaultDb, d) \cup By(vaultDisk, d)
  BY <1>1 DEF HeldBy, By
<1>5. StageInv'
  BY <1>0, <1>1, <1>2 DEF StageInv
<1>6. UserInv'
  BY <1>0, <1>1, <1>2, <1>3 DEF UserInv
<1>7. ArgInv'
  BY <1>0, <1>1, <1>2, <1>3 DEF ArgInv
<1>8. LinkInv'
  BY <1>0, <1>1, <1>2, <1>3 DEF LinkInv
<1>9. SessionInv'
  <2>1. /\ \A s \in vaultDb.sessions : s.user \in vaultDb.users /\ EmailOf[s.user] = EmailOf[s.by]
        /\ \A s, t \in vaultDb.sessions : s.by = t.by => s = t
    BY <1>0 DEF SessionInv
  <2>2. ASSUME NEW d \in Callers
        PROVE  /\ HeldBy(d)' # {} =>
                  \E o \in Opens : Called(d, o) /\ (Doing(d, o) =>
                    vaultPc[d] \notin {"register_insert", "register_commit", "open_use", "open_commit",
                                       "session_insert"})
               /\ \A s \in HeldBy(d)' : s.link # None => s.link = vaultArg[d] /\ Called(d, "open")
               /\ vaultPc[d] = "session_commit" => By(vaultDb, d) # {}
               /\ ~Called(d, "logout") =>
                    \A o \in Opens : Since(d, o, {"token_insert", "commit", "ok"}) => By(vaultDb, d) # {}
               /\ Doing(d, "logout") /\ vaultPc[d] \in {"commit", "ok"} => By(vaultDb, d) = {}
    BY <1>0, <1>4 DEF SessionInv
  <2> QED
    BY <1>0, <1>1, <1>2, <1>3, <2>1, <2>2 DEF SessionInv
<1>10. RaceInv'
  <2>1. \A d : Opener(d)' => Opener(d)
    BY <1>1, <1>2, <1>4 DEF Opener
  <2>2. vaultDisk.used \subseteq vaultDb.used
    BY <1>0 DEF LinkInv
  <2>3. \A d : HeldBy(d)' # {} => HeldBy(d) # {}
    BY <1>4
  <2> QED
    BY <1>0, <1>1, <1>2, <2>1, <2>2, <2>3 DEF RaceInv
<1>11. KeyInv'
  BY <1>0, <1>1, <1>2, <1>3 DEF KeyInv
<1>12. AccTypeOK'
  BY <1>1, <1>2 DEF AccTypeOK, VaultTypeOK, RelayTypeOK, relayVars
<1> QED
  BY <1>5, <1>6, <1>7, <1>8, <1>9, <1>10, <1>11, <1>12 DEF VaultInv

\* After a crash there is what was committed, and no request is at work.
LEMMA VaultCrashInv ==
  ASSUME AccTypeOK, VaultInv, VaultCrash, Idle, UNCHANGED relayVars
  PROVE  AccTypeOK' /\ VaultInv'
<1>0. StageInv /\ UserInv /\ ArgInv /\ LinkInv /\ SessionInv /\ RaceInv /\ KeyInv
  BY DEF VaultInv
<1>1. /\ vaultDb' = vaultDisk /\ vaultDisk' = vaultDisk /\ vaultArg' = vaultArg
      /\ raced' = raced /\ relayPc' = relayPc
      /\ vaultPc' = [c \in Callers |-> IF vaultPc[c] \in VaultSteps THEN "no" ELSE vaultPc[c]]
      /\ vaultPc \in [Callers -> Between]
  BY DEF VaultCrash, relayVars, AccTypeOK, VaultTypeOK, Between
<1>2. /\ \A d, o : (Called(d, o)' <=> Called(d, o)) /\ (Doing(d, o)' <=> Doing(d, o))
      /\ \A d : Calls(d)' = Calls(d) /\ plan' = plan /\ stage' = stage
  BY DEF Idle, Called, Doing, Calls
<1>3. \A d \in Callers : /\ vaultPc'[d] \in {"idle", "ok", "no"}
                         /\ vaultPc'[d] = "ok" => vaultPc[d] = "ok"
  BY <1>1 DEF VaultSteps, Between
<1>4. \A d : HeldBy(d)' = By(vaultDisk, d) /\ HeldBy(d) = By(vaultDb, d) \cup By(vaultDisk, d)
  BY <1>1 DEF HeldBy, By
<1>5. \A d : Forgotten(d)' <=> Forgotten(d)
  BY <1>1, <1>2 DEF Forgotten
<1>6. StageInv'
  BY <1>0, <1>1, <1>2, <1>3 DEF StageInv
<1>7. UserInv'
  <2>1. \A u \in vaultDisk.users : Called(u, "register")
    BY <1>0 DEF UserInv
  <2> QED
    BY <1>0, <1>1, <1>2, <1>3, <2>1 DEF UserInv, Since
<1>8. ArgInv'
  BY <1>0, <1>1, <1>2, <1>3 DEF ArgInv, Since
<1>9. LinkInv'
  BY <1>0, <1>1, <1>2, <1>3 DEF LinkInv, Since
<1>10. SessionInv'
  <2>1. /\ \A s \in vaultDisk.sessions : s.user \in vaultDisk.users /\ EmailOf[s.user] = EmailOf[s.by]
        /\ \A s, t \in vaultDisk.sessions : s.by = t.by => s = t
    BY <1>0 DEF SessionInv
  <2>2. ASSUME NEW d \in Callers
        PROVE  /\ HeldBy(d)' # {} => \E o \in Opens : Called(d, o)
               /\ \A s \in HeldBy(d)' : s.link # None => s.link = vaultArg[d] /\ Called(d, "open")
               /\ ~Called(d, "logout") =>
                    \A o \in Opens : Since(d, o, {"token_insert", "commit", "ok"}) => By(vaultDisk, d) # {}
               /\ Doing(d, "logout") /\ vaultPc[d] = "ok" => By(vaultDisk, d) = {}
    BY <1>0, <1>4 DEF SessionInv
  <2>3. \A d \in Callers : \A o : Since(d, o, {"token_insert", "commit", "ok"})' =>
                                    Since(d, o, {"token_insert", "commit", "ok"})
    BY <1>2, <1>3 DEF Since
  <2>4. ASSUME NEW d \in Callers
        PROVE  /\ HeldBy(d)' # {} =>
                  \E o \in Opens : Called(d, o)' /\ (Doing(d, o)' =>
                    vaultPc'[d] \notin {"register_insert", "register_commit", "open_use", "open_commit",
                                       "session_insert"})
               /\ \A s \in HeldBy(d)' : s.link # None => s.link = vaultArg'[d] /\ Called(d, "open")'
               /\ vaultPc'[d] # "session_commit"
               /\ ~Called(d, "logout")' =>
                    \A o \in Opens : Since(d, o, {"token_insert", "commit", "ok"})' => By(vaultDisk, d) # {}
               /\ Doing(d, "logout")' /\ vaultPc'[d] = "ok" => By(vaultDisk, d) = {}
               /\ vaultPc'[d] \in {"idle", "ok", "no"}
    BY <1>1, <1>2, <1>3, <2>2, <2>3
  <2> QED
    BY <1>1, <2>1, <2>4 DEF SessionInv
<1>11. RaceInv'
  <2>1. \A d \in Callers : Opener(d)' => Opener(d)
    BY <1>1, <1>2, <1>3, <1>4 DEF Opener
  <2>2. \A d : HeldBy(d)' # {} => HeldBy(d) # {}
    BY <1>4
  <2> QED
    BY <1>0, <1>1, <1>2, <2>1, <2>2 DEF RaceInv
<1>12. KeyInv'
  BY <1>0, <1>1, <1>2, <1>3, <1>5 DEF KeyInv, Since
<1>13. AccTypeOK'
  <2>1. vaultCrashes' \in 0 .. MaxVaultCrashes
    BY VaultAssumption DEF VaultCrash, AccTypeOK, VaultTypeOK
  <2>2. vaultPc' \in [Callers -> VaultSteps \cup {"idle", "ok", "no"}]
    BY <1>1 DEF Between
  <2> QED
    BY <1>1, <1>2, <2>1, <2>2 DEF AccTypeOK, VaultTypeOK, RelayTypeOK, relayVars
<1> QED
  BY <1>6, <1>7, <1>8, <1>9, <1>10, <1>11, <1>12, <1>13 DEF VaultInv

\* When the relay is at work, the vault's invariant stands.
LEMMA VaultStands ==
  ASSUME VaultInv, UNCHANGED vaultVars, Idle, StageInv'
  PROVE  VaultInv'
<1>1. UNCHANGED <<vaultDb, vaultDisk, vaultPc, vaultArg, raced, plan, stage>>
  BY DEF vaultVars, Idle
<1>2. UserInv' /\ ArgInv' /\ LinkInv'
  BY <1>1 DEF VaultInv, UserInv, ArgInv, LinkInv, Called, Doing, Since, Calls, HasAccount
<1>3. SessionInv' /\ RaceInv'
  BY <1>1 DEF VaultInv, SessionInv, RaceInv, Called, Doing, Since, Calls, LoggedIn, HeldBy, By, Opener
<1>4. KeyInv'
  BY <1>1 DEF VaultInv, KeyInv, Called, Doing, Since, Calls, Forgotten, UserOf, SessionOf
<1> QED
  BY <1>2, <1>3, <1>4 DEF VaultInv

-----------------------------------------------------------------------------
(***************************************************************************)
(* The relay.                                                              *)
(***************************************************************************)
CreateSteps == {"create_handle", "create_insert", "create_commit", "create_log", "create_log_commit"}

\* An id sent in a challenge's call is one there is.
LEMMA SentId ==
  ASSUME AccTypeOK, ArgInv, NEW c \in Callers,
         \/ \E m \in DOMAIN Calls(c) : Calls(c)[m] = "create"
         \/ Since(c, "get", {"ok"})
  PROVE  EntityId(c) \in Ids
<1>1. RelayId(c) \in Ids
  BY DEF RelayId, Ids, Hashes
<1>2. CASE \E m \in DOMAIN Calls(c) : Calls(c)[m] = "create"
  BY <1>1, <1>2 DEF EntityId
<1>3. CASE Since(c, "get", {"ok"})
  <2>1. vaultArg[c] \in Callers
    BY <1>3 DEF ArgInv, AccTypeOK, VaultTypeOK
  <2>2. VaultId(vaultArg[c]) \in Ids
    BY <2>1, CallersAssumption DEF VaultId, Ids
  <2> QED
    BY <1>1, <2>2 DEF EntityId
<1> QED
  BY <1>2, <1>3

\* The id in a challenge's or a login's call
LEMMA CalledId ==
  ASSUME AccTypeOK, VaultInv, NEW c \in Callers, NEW op \in {"challenge", "verify"}, Call(c, op)
  PROVE  EntityId(c) \in Ids
<1>0. StageInv /\ ArgInv
  BY DEF VaultInv
<1>1. Calls(c)' = Calls(c) /\ Order(c)' /\ Doing(c, op)' /\ \A o : Called(c, o)' <=> Called(c, o) \/ o = op
  BY <1>0, CallsNext
<1>2. \/ \E m \in DOMAIN Calls(c) : Calls(c)[m] = "create"
      \/ Called(c, "get")
  BY <1>1 DEF Order
<1>3. Doing(c, "get") => vaultPc[c] = "ok"
  BY <1>0, CallsNext DEF OnRelay
<1> QED
  BY <1>0, <1>2, <1>3, SentId DEF Since

\* The id of a login at work
LEMMA HeldId ==
  ASSUME AccTypeOK, VaultInv, NEW c \in Callers, Doing(c, "verify")
  PROVE  EntityId(c) \in Ids
<1>0. StageInv /\ ArgInv
  BY DEF VaultInv
<1> QED
  BY <1>0, CallsInOrder, SentId DEF Order, Since

\* No step of the vault, and none that leaves entities and who is creating alone,
\* touches what is said of entities.
LEMMA EntitiesStand ==
  ASSUME EntityInv, UNCHANGED <<relayDb, relayDisk, rivals>>,
         \A c \in Callers : \A o : Called(c, o) => Called(c, o)',
         \A c \in Callers : relayPc'[c] \in {"create_handle", "create_insert"} => relayPc'[c] = relayPc[c],
         relayDb.entities \subseteq Callers
  PROVE  EntityInv'
<1>1. HandlesAreDistinct'
  BY DEF EntityInv, HandlesAreDistinct
<1>2. \A c \in Callers : Creating(c)' => Creating(c)
  BY DEF Creating
<1> QED
  BY <1>1, <1>2 DEF EntityInv

\* Nor does one that leaves challenges and sessions alone touch what is said of logins.
LEMMA LoginsStand ==
  ASSUME SomeLoginSucceeds, UNCHANGED <<challenges, relaySessions, expired, issued, relayCrashes>>
  PROVE  SomeLoginSucceeds'
  BY DEF SomeLoginSucceeds

\* A call to the relay
LEMMA CallRelayInv ==
  ASSUME AccInv, NEW c \in Callers, CallRelay(c), UNCHANGED vaultVars
  PROVE  AccInv'
<1>0. AccTypeOK /\ VaultInv /\ EntityInv /\ SomeLoginSucceeds /\ StageInv /\ RelayTypeOK
      /\ relayDb.entities \subseteq Callers
  BY DEF AccInv, VaultInv, AccTypeOK, RelayTypeOK, RelayTables
<1>1. ASSUME NEW op \in OnRelay, Call(c, op), NEW to, RelayBegin(c, to), RelayTypeOK',
             to \in CreateSteps => op = "create", to \in {"verify_get", "verify_found"} => op = "verify"
      PROVE  AccTypeOK' /\ VaultInv' /\ relayPc'[c] = to /\ \A d \in Callers : d # c => relayPc'[d] = relayPc[d]
  <2>1. PICK vt \in Between : Begins(c, op, vt)
    BY <1>0, <1>1, RelayBegins
  <2>2. relayPc'[c] = to /\ \A d \in Callers : d # c => relayPc'[d] = relayPc[d]
    BY <1>0, <1>1 DEF RelayBegin, RelayTypeOK
  <2>3. AccTypeOK' /\ VaultInv'
    BY <1>0, <1>1, <2>1, <2>2, BeginInv DEF CreateSteps
  <2> QED
    BY <2>2, <2>3
<1>2. ASSUME NEW op, Call(c, op)
      PROVE  /\ \A d \in Callers : \A o : Called(d, o) => Called(d, o)'
             /\ Doing(c, op)'
  BY <1>0, <1>2, CallsNext
<1>3. CASE Call(c, "create") /\ CreateEntity(c)
  <2> DEFINE to == IF c \in relayDb.entities THEN "no" ELSE "create_handle"
  <2>1. /\ RelayBegin(c, to) /\ to \in {"no", "create_handle"}
        /\ rivals' = rivals \cup {{c, d} : d \in {e \in Callers \ {c} :
                             Creating(e) /\ HandleOf[e] = HandleOf[c]}}
        /\ UNCHANGED <<relayDb, relayDisk, issued, challenges, relaySessions, expired, relayCrashes>>
    BY <1>3 DEF CreateEntity, AuthAlone, RelayBegin
  <2> HIDE DEF to
  <2>2. RelayTypeOK'
    <3>1. relayPc' \in [Callers -> RelaySteps \cup {"idle", "ok", "no"}]
      BY <1>0, <2>1 DEF RelayBegin, RelayTypeOK, RelaySteps
    <3>2. rivals' \subseteq SUBSET Callers
      BY <1>0, <2>1 DEF RelayTypeOK
    <3> QED
      BY <1>0, <2>1, <3>1, <3>2 DEF RelayTypeOK
  <2>3. AccTypeOK' /\ VaultInv' /\ relayPc'[c] = to /\ \A d \in Callers : d # c => relayPc'[d] = relayPc[d]
    BY <1>1, <1>3, <2>1, <2>2 DEF OnRelay, CreateSteps
  <2>4. SomeLoginSucceeds'
    BY <1>0, <2>1, LoginsStand
  <2>5. EntityInv'
    <3>1. /\ \A d \in Callers : d # c => (Creating(d)' <=> Creating(d))
          /\ \A d \in Callers : relayPc'[d] = "create_insert" => relayPc[d] = "create_insert"
      BY <2>1, <2>3 DEF Creating
    <3>2. \A d \in Callers : d # c /\ Creating(d) /\ HandleOf[d] = HandleOf[c] => {c, d} \in rivals'
      BY <2>1
    <3>3. rivals \subseteq rivals'
      BY <2>1
    <3>4. ASSUME NEW d \in Callers, NEW e \in Callers, d # e, HandleOf[d] = HandleOf[e]
          PROVE  /\ Creating(d)' /\ Creating(e)' => {d, e} \in rivals'
                 /\ relayPc'[d] = "create_insert" /\ e \in relayDb.entities => {d, e} \in rivals'
      <4>1. {d, e} = {e, d}
        OBVIOUS
      <4> QED
        BY <1>0, <3>1, <3>2, <3>3, <3>4, <4>1 DEF EntityInv
    <3>5. HandlesAreDistinct'
      BY <1>0, <2>1, <3>3 DEF EntityInv, HandlesAreDistinct
    <3>6. \A k \in relayDb.entities : Called(k, "create")'
      BY <1>0, <1>2, <1>3 DEF EntityInv
    <3> QED
      BY <1>0, <2>1, <3>4, <3>5, <3>6 DEF EntityInv
  <2> QED
    BY <2>3, <2>4, <2>5 DEF AccInv
<1>4. CASE Call(c, "challenge") /\ AuthChallenge(c, EntityId(c))
  <2> DEFINE i == EntityId(c)
  <2>1. /\ RelayBegin(c, "ok") /\ challenges' = [challenges EXCEPT ![i] = c]
        /\ issued' = issued \cup {<<i, c>>} /\ relayCrashes' = relayCrashes
        /\ UNCHANGED <<relaySessions, expired, relayDb, relayDisk, rivals>>
    BY <1>4 DEF AuthChallenge, EntityAlone, RelayBegin
  <2>2. i \in Ids
    BY <1>0, <1>4, CalledId
  <2> HIDE DEF i
  <2>3. RelayTypeOK'
    <3>1. relayPc' \in [Callers -> RelaySteps \cup {"idle", "ok", "no"}]
      BY <1>0, <2>1 DEF RelayBegin, RelayTypeOK
    <3>2. challenges' \in [Ids -> Callers \cup {None}] /\ issued' \subseteq Ids \X Callers
      BY <1>0, <2>1, <2>2 DEF RelayTypeOK
    <3> QED
      BY <1>0, <2>1, <3>1, <3>2 DEF RelayTypeOK
  <2>4. AccTypeOK' /\ VaultInv' /\ relayPc'[c] = "ok" /\ \A d \in Callers : d # c => relayPc'[d] = relayPc[d]
    BY <1>1, <1>4, <2>1, <2>3 DEF OnRelay, CreateSteps
  <2>5. SomeLoginSucceeds'
    <3>1. \A j \in Ids : challenges'[j] = IF j = i THEN c ELSE challenges[j]
      BY <1>0, <2>1, <2>2 DEF RelayTypeOK
    <3>2. ASSUME NEW x \in issued'
          PROVE  \/ relayCrashes > 0 \/ x[1] \in expired
                 \/ challenges'[x[1]] # None
                 \/ \E s \in relaySessions : s[1] = x[1]
      <4>1. CASE x[1] = i
        BY <2>2, <3>1, <4>1, CallersAssumption
      <4>2. CASE x[1] # i
        <5>1. x \in issued /\ x[1] \in Ids
          BY <1>0, <2>1, <4>2 DEF RelayTypeOK
        <5> QED
          BY <1>0, <3>1, <4>2, <5>1 DEF SomeLoginSucceeds
      <4> QED
        BY <4>1, <4>2
    <3> QED
      BY <2>1, <3>2 DEF SomeLoginSucceeds
  <2>6. EntityInv'
    BY <1>0, <1>2, <1>4, <2>1, <2>4, EntitiesStand
  <2> QED
    BY <2>4, <2>5, <2>6 DEF AccInv
<1>5. CASE Call(c, "verify") /\ AuthVerify(c, EntityId(c))
  <2> DEFINE to == IF challenges[EntityId(c)] = c THEN "verify_get" ELSE "no"
  <2>1. /\ RelayBegin(c, to) /\ to \in {"no", "verify_get"}
        /\ UNCHANGED <<relayDb, relayDisk, rivals, issued, challenges, relaySessions, expired, relayCrashes>>
    BY <1>5 DEF AuthVerify, EntityAlone, AuthAlone, RelayBegin
  <2> HIDE DEF to
  <2>2. RelayTypeOK'
    BY <1>0, <2>1 DEF RelayBegin, RelayTypeOK, RelaySteps
  <2>3. AccTypeOK' /\ VaultInv' /\ relayPc'[c] = to /\ \A d \in Callers : d # c => relayPc'[d] = relayPc[d]
    BY <1>1, <1>5, <2>1, <2>2 DEF OnRelay, CreateSteps
  <2>4. SomeLoginSucceeds'
    BY <1>0, <2>1, LoginsStand
  <2>5. EntityInv'
    BY <1>0, <1>2, <1>5, <2>1, <2>3, EntitiesStand
  <2> QED
    BY <2>3, <2>4, <2>5 DEF AccInv
<1>6. CASE Call(c, "verify") /\ AuthVerifyLate(c, EntityId(c))
  <2> DEFINE i == EntityId(c)
  <2>1. /\ RelayBegin(c, "no") /\ challenges' = [challenges EXCEPT ![i] = None]
        /\ expired' = expired \cup {i} /\ relayCrashes' = relayCrashes
        /\ UNCHANGED <<relaySessions, issued, relayDb, relayDisk, rivals>>
    BY <1>6 DEF AuthVerifyLate, EntityAlone, RelayBegin
  <2>2. i \in Ids
    BY <1>0, <1>6, CalledId
  <2> HIDE DEF i
  <2>3. RelayTypeOK'
    <3>1. relayPc' \in [Callers -> RelaySteps \cup {"idle", "ok", "no"}]
      BY <1>0, <2>1 DEF RelayBegin, RelayTypeOK
    <3>2. challenges' \in [Ids -> Callers \cup {None}] /\ expired' \subseteq Ids
      BY <1>0, <2>1, <2>2 DEF RelayTypeOK
    <3> QED
      BY <1>0, <2>1, <3>1, <3>2 DEF RelayTypeOK
  <2>4. AccTypeOK' /\ VaultInv' /\ relayPc'[c] = "no" /\ \A d \in Callers : d # c => relayPc'[d] = relayPc[d]
    BY <1>1, <1>6, <2>1, <2>3 DEF OnRelay, CreateSteps
  <2>5. SomeLoginSucceeds'
    <3>1. \A j \in Ids : j # i => challenges'[j] = challenges[j]
      BY <1>0, <2>1, <2>2 DEF RelayTypeOK
    <3>2. \A x \in issued : x[1] \in Ids
      BY <1>0 DEF RelayTypeOK
    <3> QED
      BY <1>0, <2>1, <3>1, <3>2 DEF SomeLoginSucceeds
  <2>6. EntityInv'
    BY <1>0, <1>2, <1>6, <2>1, <2>4, EntitiesStand
  <2> QED
    BY <2>4, <2>5, <2>6 DEF AccInv
<1> QED
  BY <1>3, <1>4, <1>5, <1>6 DEF CallRelay

\* Where a request at the relay goes on; it is of the call the caller waits for.
LEMMA RelayGoes ==
  ASSUME AccTypeOK, VaultInv, UNCHANGED vaultVars, Idle, NEW c \in Callers, NEW from, NEW to,
         RelayGo(c, from, to), RelayTypeOK',
         to \in CreateSteps => from \in CreateSteps, to = "verify_found" => from = "verify_get",
         to # "verify_get"
  PROVE  /\ AccTypeOK' /\ VaultInv' /\ relayPc[c] = from /\ relayPc'[c] = to
         /\ \A d \in Callers : d # c => relayPc'[d] = relayPc[d]
<1>0. StageInv /\ RelayTypeOK
  BY DEF VaultInv, AccTypeOK
<1>1. relayPc[c] = from /\ relayPc'[c] = to /\ \A d \in Callers : d # c => relayPc'[d] = relayPc[d]
  BY <1>0 DEF RelayGo, RelayTypeOK
<1>2. AccTypeOK'
  BY DEF AccTypeOK, VaultTypeOK, vaultVars, Idle
<1>3. /\ \A d, o : Doing(d, o)' <=> Doing(d, o)
      /\ \A d : Calls(d)' = Calls(d) /\ stage' = stage /\ vaultPc' = vaultPc
  BY DEF Idle, Doing, Calls, vaultVars
<1>4. StageInv'
  BY <1>0, <1>1, <1>3 DEF StageInv, CreateSteps
<1> QED
  BY <1>1, <1>2, <1>4, VaultStands

\* A statement of the relay
LEMMA RelayContinueInv ==
  ASSUME AccInv, NEW c \in Callers, RelayContinue(c, EntityId(c)), UNCHANGED vaultVars, Idle
  PROVE  AccInv'
<1>0. AccTypeOK /\ VaultInv /\ EntityInv /\ SomeLoginSucceeds /\ StageInv /\ RelayTypeOK
      /\ relayDb \in RelayTables /\ relayDb.entities \subseteq Callers
  BY DEF AccInv, VaultInv, AccTypeOK, RelayTypeOK, RelayTables
<1>1. \A d, o : Called(d, o)' <=> Called(d, o)
  BY DEF Idle, Called, Calls
<1>2. CASE CreateHandle(c)
  <2> DEFINE to == IF HandleTaken(c) THEN "no" ELSE "create_insert"
  <2>1. /\ RelayGo(c, "create_handle", to) /\ to \in {"no", "create_insert"}
        /\ UNCHANGED <<relayDb, relayDisk, rivals, issued, challenges, relaySessions, expired, relayCrashes>>
    BY <1>2 DEF CreateHandle, EntityAlone, AuthAlone, RelayGo
  <2>2. to = "create_insert" => \A k \in relayDb.entities : HandleOf[k] # HandleOf[c]
    BY DEF HandleTaken
  <2> HIDE DEF to
  <2>3. RelayTypeOK'
    BY <1>0, <2>1 DEF RelayGo, RelayTypeOK, RelaySteps
  <2>4. /\ AccTypeOK' /\ VaultInv' /\ relayPc[c] = "create_handle" /\ relayPc'[c] = to
        /\ \A d \in Callers : d # c => relayPc'[d] = relayPc[d]
    BY <1>0, <2>1, <2>3, RelayGoes DEF CreateSteps
  <2>5. SomeLoginSucceeds'
    BY <1>0, <2>1, LoginsStand
  <2>6. EntityInv'
    <3>1. \A d \in Callers : Creating(d)' => Creating(d)
      BY <2>4 DEF Creating
    <3>2. ASSUME NEW d \in Callers, NEW e \in Callers, d # e, HandleOf[d] = HandleOf[e]
          PROVE  /\ Creating(d)' /\ Creating(e)' => {d, e} \in rivals
                 /\ relayPc'[d] = "create_insert" /\ e \in relayDb.entities => {d, e} \in rivals
      BY <1>0, <2>1, <2>2, <2>4, <3>1, <3>2 DEF EntityInv
    <3>3. HandlesAreDistinct'
      BY <1>0, <2>1 DEF EntityInv, HandlesAreDistinct
    <3> QED
      BY <1>0, <1>1, <2>1, <3>2, <3>3 DEF EntityInv
  <2> QED
    BY <2>4, <2>5, <2>6 DEF AccInv
<1>3. CASE CreateInsert(c)
  <2>1. /\ RelayGo(c, "create_insert", "create_commit")
        /\ relayDb' = [relayDb EXCEPT !.entities = @ \cup {c}]
        /\ UNCHANGED <<relayDisk, rivals, issued, challenges, relaySessions, expired, relayCrashes>>
    BY <1>3 DEF CreateInsert, AuthAlone, RelayGo
  <2>2. relayDb' \in RelayTables /\ relayDb'.entities = relayDb.entities \cup {c}
    BY <1>0, <2>1 DEF RelayTables
  <2>3. RelayTypeOK'
    BY <1>0, <2>1, <2>2 DEF RelayGo, RelayTypeOK, RelaySteps
  <2>4. /\ AccTypeOK' /\ VaultInv' /\ relayPc[c] = "create_insert" /\ relayPc'[c] = "create_commit"
        /\ \A d \in Callers : d # c => relayPc'[d] = relayPc[d]
    BY <1>0, <2>1, <2>3, RelayGoes DEF CreateSteps
  <2>5. SomeLoginSucceeds'
    BY <1>0, <2>1, LoginsStand
  <2>6. EntityInv'
    <3>1. \A d \in Callers : (Creating(d)' => Creating(d)) /\ (relayPc'[d] = "create_insert" => d # c)
      BY <2>4 DEF Creating
    <3>2. Creating(c)
      BY <2>4 DEF Creating
    <3>3. ASSUME NEW d \in Callers, NEW e \in Callers, d # e, HandleOf[d] = HandleOf[e]
          PROVE  /\ Creating(d)' /\ Creating(e)' => {d, e} \in rivals
                 /\ relayPc'[d] = "create_insert" /\ e \in relayDb'.entities => {d, e} \in rivals
      <4>1. relayPc'[d] = "create_insert" => Creating(d) /\ relayPc[d] = "create_insert"
        BY <2>4 DEF Creating
      <4> QED
        BY <1>0, <2>2, <3>1, <3>2, <3>3, <4>1 DEF EntityInv
    <3>4. ASSUME NEW k \in relayDb'.entities, NEW m \in relayDb'.entities, k # m, HandleOf[k] = HandleOf[m]
          PROVE  {k, m} \in rivals
      <4>1. {k, m} = {m, k}
        OBVIOUS
      <4> QED
        BY <1>0, <2>2, <2>4, <3>4, <4>1 DEF EntityInv, HandlesAreDistinct
    <3>5. Called(c, "create")
      BY <1>0, <2>4, CallsInOrder DEF StageInv, Order
    <3>6. relayDisk.entities \subseteq relayDb'.entities /\ \A k \in relayDb'.entities : Called(k, "create")'
      BY <1>0, <1>1, <2>2, <3>5 DEF EntityInv
    <3>7. HandlesAreDistinct'
      BY <2>1, <3>4 DEF HandlesAreDistinct
    <3> QED
      BY <2>1, <3>3, <3>6, <3>7 DEF EntityInv
  <2> QED
    BY <2>4, <2>5, <2>6 DEF AccInv
<1>4. ASSUME NEW from, NEW to, CreateCommit(c, from, to),
             \/ from = "create_commit" /\ to = "create_log"
             \/ from = "create_log_commit" /\ to = "ok"
      PROVE  AccInv'
  <2>1. /\ RelayGo(c, from, to) /\ relayDisk' = relayDb
        /\ UNCHANGED <<relayDb, rivals, issued, challenges, relaySessions, expired, relayCrashes>>
    BY <1>4 DEF CreateCommit, AuthAlone, RelayGo
  <2>2. RelayTypeOK'
    BY <1>0, <1>4, <2>1 DEF RelayGo, RelayTypeOK, RelaySteps
  <2>3. /\ AccTypeOK' /\ VaultInv' /\ relayPc[c] = from /\ relayPc'[c] = to
        /\ \A d \in Callers : d # c => relayPc'[d] = relayPc[d]
    BY <1>0, <1>4, <2>1, <2>2, RelayGoes DEF CreateSteps
  <2>4. SomeLoginSucceeds'
    BY <1>0, <2>1, LoginsStand
  <2>5. EntityInv'
    <3>1. \A d \in Callers : (Creating(d)' => Creating(d))
                             /\ (relayPc'[d] = "create_insert" => relayPc[d] = "create_insert")
      BY <1>4, <2>3 DEF Creating
    <3>2. HandlesAreDistinct'
      BY <1>0, <2>1 DEF EntityInv, HandlesAreDistinct
    <3> QED
      BY <1>0, <1>1, <2>1, <3>1, <3>2 DEF EntityInv
  <2> QED
    BY <2>3, <2>4, <2>5 DEF AccInv
<1>5. CASE CreateLog(c)
  <2>1. /\ RelayGo(c, "create_log", "create_log_commit")
        /\ relayDb' = [relayDb EXCEPT !.logged = @ \cup {c}]
        /\ UNCHANGED <<relayDisk, rivals, issued, challenges, relaySessions, expired, relayCrashes>>
    BY <1>5 DEF CreateLog, AuthAlone, RelayGo
  <2>2. relayDb' \in RelayTables /\ relayDb'.entities = relayDb.entities
    BY <1>0, <2>1 DEF RelayTables
  <2>3. RelayTypeOK'
    BY <1>0, <2>1, <2>2 DEF RelayGo, RelayTypeOK, RelaySteps
  <2>4. /\ AccTypeOK' /\ VaultInv' /\ relayPc[c] = "create_log" /\ relayPc'[c] = "create_log_commit"
        /\ \A d \in Callers : d # c => relayPc'[d] = relayPc[d]
    BY <1>0, <2>1, <2>3, RelayGoes DEF CreateSteps
  <2>5. SomeLoginSucceeds'
    BY <1>0, <2>1, LoginsStand
  <2>6. EntityInv'
    <3>1. \A d \in Callers : (Creating(d)' => Creating(d))
                             /\ (relayPc'[d] = "create_insert" => relayPc[d] = "create_insert")
      BY <2>4 DEF Creating
    <3>2. HandlesAreDistinct'
      BY <1>0, <2>1, <2>2 DEF EntityInv, HandlesAreDistinct
    <3> QED
      BY <1>0, <1>1, <2>1, <2>2, <3>1, <3>2 DEF EntityInv
  <2> QED
    BY <2>4, <2>5, <2>6 DEF AccInv
<1>6. CASE AuthGetEntity(c, EntityId(c))
  <2>1. PICK to \in {"verify_found", "no"} :
          /\ RelayGo(c, "verify_get", to)
          /\ UNCHANGED <<relayDb, relayDisk, rivals, issued, challenges, relaySessions, expired, relayCrashes>>
    BY <1>6 DEF AuthGetEntity, EntityAlone, AuthAlone, RelayGo
  <2>2. RelayTypeOK'
    BY <1>0, <2>1 DEF RelayGo, RelayTypeOK, RelaySteps
  <2>3. /\ AccTypeOK' /\ VaultInv' /\ relayPc'[c] = to
        /\ \A d \in Callers : d # c => relayPc'[d] = relayPc[d]
    BY <1>0, <2>1, <2>2, RelayGoes DEF CreateSteps
  <2>4. SomeLoginSucceeds'
    BY <1>0, <2>1, LoginsStand
  <2>5. EntityInv'
    BY <1>0, <1>1, <2>1, <2>3, EntitiesStand
  <2> QED
    BY <2>3, <2>4, <2>5 DEF AccInv
<1>7. CASE AuthSession(c, EntityId(c))
  <2> DEFINE i == EntityId(c)
             to == IF challenges[i] = None THEN "no" ELSE "ok"
  <2>1. /\ RelayGo(c, "verify_found", to) /\ to \in {"no", "ok"}
        /\ challenges' = [challenges EXCEPT ![i] = None]
        /\ relaySessions' = IF challenges[i] = None THEN relaySessions
                              ELSE relaySessions \cup {<<i, c>>}
        /\ UNCHANGED <<relayDb, relayDisk, rivals, issued, expired, relayCrashes>>
    BY <1>7 DEF AuthSession, EntityAlone, RelayGo
  <2>2. i \in Ids
    BY <1>0, <2>1, HeldId DEF StageInv, RelayGo
  <2> HIDE DEF i, to
  <2>3. RelayTypeOK'
    <3>1. challenges' \in [Ids -> Callers \cup {None}] /\ relaySessions' \subseteq Ids \X Callers
      BY <1>0, <2>1, <2>2 DEF RelayTypeOK
    <3>2. relayPc' \in [Callers -> RelaySteps \cup {"idle", "ok", "no"}]
      BY <1>0, <2>1 DEF RelayGo, RelayTypeOK
    <3> QED
      BY <1>0, <2>1, <3>1, <3>2 DEF RelayTypeOK
  <2>4. /\ AccTypeOK' /\ VaultInv' /\ relayPc'[c] = to
        /\ \A d \in Callers : d # c => relayPc'[d] = relayPc[d]
    BY <1>0, <2>1, <2>3, RelayGoes DEF CreateSteps
  <2>5. SomeLoginSucceeds'
    <3>1. \A j \in Ids : j # i => challenges'[j] = challenges[j]
      BY <1>0, <2>1, <2>2 DEF RelayTypeOK
    <3>2. relaySessions \subseteq relaySessions'
      BY <2>1
    <3>3. challenges[i] # None => \E s \in relaySessions' : s[1] = i
      <4>1. <<i, c>>[1] = i
        OBVIOUS
      <4> QED
        BY <2>1, <4>1
    <3>4. ASSUME NEW x \in issued
          PROVE  \/ relayCrashes > 0 \/ x[1] \in expired
                 \/ challenges'[x[1]] # None
                 \/ \E s \in relaySessions' : s[1] = x[1]
      <4>1. x[1] \in Ids
        BY <1>0 DEF RelayTypeOK
      <4> QED
        BY <1>0, <3>1, <3>2, <3>3, <4>1 DEF SomeLoginSucceeds
    <3> QED
      BY <2>1, <3>4 DEF SomeLoginSucceeds
  <2>6. EntityInv'
    BY <1>0, <1>1, <2>1, <2>4, EntitiesStand
  <2> QED
    BY <2>4, <2>5, <2>6 DEF AccInv
<1> QED
  BY <1>2, <1>3, <1>4, <1>5, <1>6, <1>7 DEF RelayContinue

\* The relay's commits for others, and its crashes
LEMMA RelayRestInv ==
  ASSUME AccInv, RelayCommitElsewhere \/ RelayCrash, UNCHANGED vaultVars, Idle
  PROVE  AccInv'
<1>0. AccTypeOK /\ VaultInv /\ EntityInv /\ SomeLoginSucceeds /\ StageInv /\ RelayTypeOK
  BY DEF AccInv, VaultInv, AccTypeOK
<1>1. /\ \A d, o : (Called(d, o)' <=> Called(d, o)) /\ (Doing(d, o)' <=> Doing(d, o))
      /\ \A d : Calls(d)' = Calls(d) /\ stage' = stage /\ vaultPc' = vaultPc
  BY DEF Idle, Called, Doing, Calls, vaultVars
<1>2. /\ relayDisk' \in {relayDb, relayDisk} /\ relayDb' \in {relayDb, relayDisk}
      /\ relayDisk'.entities \subseteq relayDb'.entities /\ relayDb'.entities \subseteq relayDb.entities
      /\ rivals' = rivals
      /\ \A d \in Callers : relayPc'[d] = relayPc[d] \/ relayPc'[d] = "no"
      /\ relayPc' \in [Callers -> RelaySteps \cup {"idle", "ok", "no"}]
      /\ issued' = issued /\ expired' = expired
  <2>1. CASE RelayCommitElsewhere
    BY <1>0, <2>1 DEF RelayCommitElsewhere, AuthAlone, RelayTypeOK
  <2>2. CASE RelayCrash
    BY <1>0, <2>2 DEF RelayCrash, RelayTypeOK, EntityInv
  <2> QED
    BY <2>1, <2>2
<1>3. RelayTypeOK' /\ SomeLoginSucceeds'
  <2>1. CASE RelayCommitElsewhere
    <3>1. UNCHANGED <<challenges, relaySessions, expired, issued, relayCrashes>>
      BY <2>1 DEF RelayCommitElsewhere, AuthAlone
    <3> QED
      BY <1>0, <1>2, <3>1, LoginsStand DEF RelayTypeOK
  <2>2. CASE RelayCrash
    <3>1. /\ relayCrashes' \in 0 .. MaxRelayCrashes /\ relayCrashes' > 0
          /\ challenges' \in [Ids -> Callers \cup {None}] /\ relaySessions' \subseteq Ids \X Callers
      BY <1>0, <2>2, RelayAuthAssumption DEF RelayCrash, RelayTypeOK
    <3> QED
      BY <1>0, <1>2, <3>1 DEF RelayTypeOK, SomeLoginSucceeds
  <2> QED
    BY <2>1, <2>2
<1>4. StageInv'
  BY <1>0, <1>1, <1>2 DEF StageInv
<1>5. AccTypeOK' /\ VaultInv'
  BY <1>0, <1>3, <1>4, VaultStands DEF AccTypeOK, VaultTypeOK, vaultVars, Idle
<1>6. EntityInv'
  <2>1. \A d \in Callers : (Creating(d)' => Creating(d))
                           /\ (relayPc'[d] = "create_insert" => relayPc[d] = "create_insert")
    BY <1>2 DEF Creating
  <2>2. HandlesAreDistinct'
    BY <1>0, <1>2 DEF EntityInv, HandlesAreDistinct
  <2> QED
    BY <1>0, <1>1, <1>2, <2>1, <2>2 DEF EntityInv
<1> QED
  BY <1>3, <1>5, <1>6 DEF AccInv

-----------------------------------------------------------------------------
(***************************************************************************)
(* The invariant, and what follows from it.                                *)
(***************************************************************************)
\* It holds before anybody calls.
LEMMA AccInitInv == ASSUME AccInit PROVE AccInv
<1>1. /\ \A c \in Callers : stage[c] = 0 /\ vaultPc[c] = "idle" /\ relayPc[c] = "idle" /\ vaultArg[c] = None
      /\ vaultDisk = vaultDb /\ relayDisk = relayDb
      /\ vaultDb.users = {} /\ vaultDb.sessions = {} /\ vaultDb.links = {} /\ vaultDb.used = {}
      /\ relayDb.entities = {} /\ issued = {}
  BY DEF AccInit, VaultInit, RelayInit
<1>2. \A c \in Callers : \A o : ~Called(c, o) /\ ~Doing(c, o)
  BY <1>1 DEF Called, Doing
<1>3. AccTypeOK
  <2>1. vaultDb \in VaultTables
    BY DEF AccInit, VaultInit, VaultTables
  <2>2. VaultTypeOK
    BY <2>1, VaultAssumption DEF AccInit, VaultInit, VaultTypeOK
  <2>3. relayDb \in RelayTables
    BY DEF AccInit, RelayInit, RelayTables
  <2>4. RelayTypeOK
    BY <2>3, RelayAuthAssumption DEF AccInit, RelayInit, RelayTypeOK
  <2> QED
    BY <2>2, <2>4 DEF AccInit, AccTypeOK
<1>4. StageInv
  <2>1. \A c \in Callers : Len(Calls(c)) \in 0 .. 5
    <3>1. \A c \in Callers : plan[c] \in DOMAIN Program
      BY <1>3, PlansAssumption DEF AccTypeOK
    <3>2. \A p \in DOMAIN Program : Len(Program[p]) \in Nat
      BY Programs
    <3>3. \A p \in DOMAIN Program : 0 \in 0 .. Len(Program[p])
      BY <3>2
    <3> QED
      BY <3>1, <3>3, ProgramsOrdered DEF Calls
  <2> QED
    BY <1>1, <2>1 DEF StageInv
<1>5. UserInv /\ ArgInv /\ LinkInv
  BY <1>1, <1>2 DEF UserInv, ArgInv, LinkInv, Since
<1>6. SessionInv
  BY <1>1, <1>2 DEF SessionInv, HeldBy, By, Since
<1>7. RaceInv /\ KeyInv
  BY <1>1, <1>2 DEF RaceInv, KeyInv, Opener, Since
<1>8. EntityInv /\ SomeLoginSucceeds
  BY <1>1 DEF EntityInv, SomeLoginSucceeds, HandlesAreDistinct, Creating
<1> QED
  BY <1>3, <1>4, <1>5, <1>6, <1>7, <1>8 DEF AccInv, VaultInv

\* Every step keeps it.
LEMMA AccStepInv == AccInv /\ [AccNext]_accVars => AccInv'
<1> SUFFICES ASSUME AccInv, [AccNext]_accVars PROVE AccInv'
  OBVIOUS
<1>0. AccTypeOK /\ VaultInv /\ EntityInv /\ SomeLoginSucceeds /\ StageInv
      /\ relayDb.entities \subseteq Callers
  BY DEF AccInv, VaultInv, AccTypeOK, RelayTypeOK, RelayTables
<1>1. ASSUME UNCHANGED relayVars, \A c \in Callers : \A o : Called(c, o) => Called(c, o)'
      PROVE  EntityInv' /\ SomeLoginSucceeds'
  <2>1. UNCHANGED <<relayDb, relayDisk, rivals, relayPc, challenges, relaySessions, expired, issued, relayCrashes>>
    BY <1>1 DEF relayVars
  <2> QED
    BY <1>0, <1>1, <2>1, EntitiesStand, LoginsStand
<1>2. Idle => \A c \in Callers : \A o : Called(c, o) => Called(c, o)'
  BY DEF Idle, Called, Calls
<1>3. ASSUME NEW c \in Callers, CallVault(c), UNCHANGED relayVars
      PROVE  AccInv'
  <2>1. PICK op \in OnVault, to \in Between : Begins(c, op, to)
    BY <1>3, VaultBegins
  <2>2. RelayTypeOK' /\ relayPc' = relayPc
    BY <1>0, <1>3 DEF AccTypeOK, RelayTypeOK, relayVars
  <2>3. relayPc[c] \notin RelaySteps
    <3>1. \A o \in OnRelay : Doing(c, o) => relayPc[c] = "ok"
      BY <1>0, <2>1, CallsNext DEF Begins
    <3> QED
      BY <1>0, <3>1 DEF StageInv, OnRelay, RelaySteps
  <2>4. AccTypeOK' /\ VaultInv'
    BY <1>0, <2>1, <2>2, <2>3, BeginInv DEF RelaySteps
  <2>5. \A d \in Callers : \A o : Called(d, o) => Called(d, o)'
    BY <1>0, <2>1, BeginParts
  <2> QED
    BY <1>1, <1>3, <2>4, <2>5 DEF AccInv
<1>4. ASSUME NEW c \in Callers, CallRelay(c), UNCHANGED vaultVars
      PROVE  AccInv'
  BY <1>4, CallRelayInv
<1>5. CASE VaultNext /\ UNCHANGED relayVars /\ Idle
  <2>1. AccTypeOK' /\ VaultInv'
    BY <1>0, <1>5, DoesInv, ElsewhereInv, VaultCrashInv DEF VaultNext
  <2> QED
    BY <1>1, <1>2, <1>5, <2>1 DEF AccInv
<1>6. CASE /\ \/ \E c \in Callers : RelayContinue(c, EntityId(c))
              \/ RelayCommitElsewhere \/ RelayCrash
           /\ UNCHANGED vaultVars /\ Idle
  BY <1>6, RelayContinueInv, RelayRestInv
<1>7. CASE UNCHANGED accVars
  <2>1. UNCHANGED vaultVars /\ UNCHANGED relayVars /\ Idle
    BY <1>7 DEF accVars, Idle
  <2>2. StageInv'
    BY <1>0, <2>1 DEF StageInv, Doing, Calls, Idle, vaultVars, relayVars
  <2>3. VaultInv'
    BY <1>0, <2>1, <2>2, VaultStands
  <2>4. AccTypeOK'
    BY <1>0, <2>1 DEF AccTypeOK, VaultTypeOK, RelayTypeOK, vaultVars, relayVars, Idle
  <2> QED
    BY <1>1, <1>2, <2>1, <2>3, <2>4 DEF AccInv
<1> QED
  BY <1>3, <1>4, <1>5, <1>6, <1>7 DEF AccNext

\* An answer that is no error came to the last call or to one before it.
LEMMA AnsweredSince ==
  ASSUME AccTypeOK, StageInv, NEW c \in Callers, NEW op \in OnVault, Answered(c, op)
  PROVE  Since(c, op, {"ok"}) /\ (Doing(c, op) => vaultPc[c] = "ok")
<1>1. stage[c] \in Nat /\ op \notin OnRelay
  BY DEF AccTypeOK, OnVault, OnRelay, Settings
<1>2. PICK n \in 1 .. stage[c] : Calls(c)[n] = op /\ (n = stage[c] => vaultPc[c] = "ok")
  BY <1>1 DEF Answered
<1>3. Doing(c, op) => n = stage[c]
  <2>1. \A m \in 1 .. stage[c] - 1 : Calls(c)[m] # Calls(c)[stage[c]]
    BY CallsInOrder DEF Order
  <2> QED
    BY <1>1, <1>2, <2>1 DEF Doing
<1> QED
  BY <1>2, <1>3 DEF Since, Called

\* It says all that is promised of accounts.
LEMMA AccHolds ==
  ASSUME AccInv
  PROVE  /\ AccTypeOK /\ EntityRecoverable /\ AnswersAreDurable
         /\ LinkOpensOnce /\ SomeLoginSucceeds /\ HandlesAreDistinct
<1>0. AccTypeOK /\ VaultInv /\ EntityInv /\ SomeLoginSucceeds /\ StageInv /\ UserInv /\ ArgInv
      /\ LinkInv /\ SessionInv /\ RaceInv /\ KeyInv
  BY DEF AccInv, VaultInv
<1>1. \A k : KeysIn(vaultDisk, k) => KeysSafe(k)
  BY DEF KeysIn, KeysSafe, Row
<1>2. EntityRecoverable
  <2>1. SUFFICES ASSUME NEW k \in relayDb.entities PROVE Forgotten(k) \/ KeysSafe(k)
    BY DEF EntityRecoverable
  <2>2. k \in Callers /\ Called(k, "create")
    BY <1>0 DEF EntityInv, AccTypeOK, RelayTypeOK, RelayTables
  <2>3. Since(k, "store", {"ok"})
    BY <1>0, <2>2, CallsInOrder DEF Order, Since
  <2> QED
    BY <1>0, <1>1, <2>2, <2>3 DEF KeyInv
<1>3. AnswersAreDurable
  <2>1. SUFFICES ASSUME NEW c \in Callers
        PROVE  /\ Answered(c, "register") => c \in vaultDisk.users
               /\ Answered(c, "mail") => c \in vaultDisk.links
               /\ Answered(c, "open") => vaultArg[c] \in vaultDisk.used
               /\ Answered(c, "store") => Forgotten(c) \/ KeysSafe(c)
               /\ (Answered(c, "register") \/ Answered(c, "login") \/ Answered(c, "open"))
                     => Called(c, "logout") \/ \E s \in vaultDisk.sessions : s.by = c
               /\ Answered(c, "logout") =>
                    \A s \in vaultDb.sessions \cup vaultDisk.sessions : s.by # c
    BY DEF AnswersAreDurable
  <2>2. \A op \in OnVault : Answered(c, op) => Since(c, op, {"ok"}) /\ (Doing(c, op) => vaultPc[c] = "ok")
    BY <1>0, AnsweredSince
  <2>3. /\ Answered(c, "register") => c \in vaultDisk.users
        /\ Answered(c, "mail") => c \in vaultDisk.links
        /\ Answered(c, "open") => vaultArg[c] \in vaultDisk.used
    BY <1>0, <2>2 DEF UserInv, LinkInv, Since, OnVault
  <2>4. Answered(c, "store") => Forgotten(c) \/ KeysSafe(c)
    BY <1>0, <1>1, <2>2 DEF KeyInv, OnVault
  <2>5. \A op \in Opens : Answered(c, op) => Called(c, "logout") \/ By(vaultDisk, c) # {}
    BY <1>0, <2>2 DEF SessionInv, Since, Opens, OnVault
  <2>6. Answered(c, "logout") => By(vaultDb, c) = {} /\ By(vaultDisk, c) = {}
    BY <1>0, <2>2, CallsInOrder DEF SessionInv, Since, Order, OnVault
  <2> QED
    BY <2>3, <2>4, <2>5, <2>6 DEF By, Opens
<1>4. LinkOpensOnce
  <2>1. SUFFICES ASSUME NEW s \in vaultDb.sessions \cup vaultDisk.sessions,
                        NEW t \in vaultDb.sessions \cup vaultDisk.sessions,
                        s.link # None, s.link = t.link, s # t
                 PROVE  s.link \in raced
    BY DEF LinkOpensOnce
  <2>2. s.by \in Callers /\ t.by \in Callers
    BY <1>0 DEF AccTypeOK, VaultTypeOK, VaultTables, Session
  <2>3. s \in HeldBy(s.by) /\ t \in HeldBy(t.by)
    BY DEF HeldBy, By
  <2>4. s.by # t.by
    BY <1>0, <2>1 DEF SessionInv
  <2>5. /\ s.link = vaultArg[s.by] /\ Opener(s.by)
        /\ t.link = vaultArg[t.by] /\ Opener(t.by)
    BY <1>0, <2>1, <2>2, <2>3 DEF SessionInv, Opener
  <2> QED
    BY <1>0, <2>1, <2>2, <2>4, <2>5 DEF RaceInv
<1> QED
  BY <1>0, <1>2, <1>3, <1>4 DEF EntityInv

-----------------------------------------------------------------------------
(***************************************************************************)
(* Moderation.  What is on the disk is on the connection, and each row is  *)
(* the work of a request that has begun, so that an answer speaks of the   *)
(* disk; labels and revocations are never taken out of their tables again. *)
(***************************************************************************)

\* Rows come from requests.
ModRows ==
  /\ \A t \in {modDb, modDisk} : \A l \in Labelers :
       /\ l \in t.labels  => Begun("label", l)
       /\ l \in t.revoked => Begun("revoke", l)
       /\ l \in t.follows => Begun("follow", l)
  /\ modDisk.labels \subseteq modDb.labels
  /\ modDisk.revoked \subseteq modDb.revoked

\* What has been written, and what has been answered
ModKept ==
  \A l \in Labelers :
    /\ modPc[<<"label", l>>] \in {"commit", "ok"} => l \in modDb.labels
    /\ Done("label", l) => l \in modDisk.labels
    /\ modPc[<<"revoke", l>>] \in {"commit", "ok"} => l \in modDb.revoked
    /\ Done("revoke", l) => l \in modDisk.revoked
    /\ ~Begun("unfollow", l) =>
         /\ modDisk.follows \cap {l} \subseteq modDb.follows
         /\ modPc[<<"follow", l>>] \in {"commit", "ok"} => l \in modDb.follows
         /\ Done("follow", l) => l \in modDisk.follows

\* What the filter was due to honour when it was asked
ModDue ==
  /\ \A l \in due.must : l \in modDisk.labels
  /\ due.gone \subseteq modDisk.revoked
  /\ due.must \subseteq modTrusted
  /\ \A l \in modTrusted : Begun("follow", l)
  /\ \A r \in Asked : modPc[r] \in {"labels", "visible", "hidden"} => r = Filter

\* What moderation keeps.
ModInv == ModTypeOK /\ ModRows /\ ModKept /\ ModDue /\ FilterHonoursAnswers

\* It holds before anything is asked.
LEMMA ModInitInv == ModInit => ModInv
BY ModerationAssumption
   DEF ModInit, ModInv, ModTypeOK, ModTables, ModRows, ModKept, ModDue,
       FilterHonoursAnswers, Begun, Done, Filter, Asked, ModSteps

\* What may be asked of moderation, pair by pair.
LEMMA AskedPairs ==
  /\ \A l \in Labelers : \A op \in {"label", "revoke", "follow", "unfollow"} :
       <<op, l>> \in Asked
  /\ \A op \in {"report", "resolve", "filter"} : <<op, "content">> \in Asked
  /\ Filter \in Asked
BY DEF Asked, Filter

\* A verdict of the filter stands as long as nothing is asked of it anew.
LEMMA FilterStays ==
  ASSUME ModInv, due' = due, modExpired \subseteq modExpired',
         modPc'[Filter] \in {"visible", "hidden"} => modPc'[Filter] = modPc[Filter],
         \A r \in Asked : modPc'[r] = "idle" => modPc[r] = "idle"
  PROVE  FilterHonoursAnswers'
<1>1. \A l \in Labelers : \A op \in {"label", "revoke", "follow"} :
        Begun(op, l) => Begun(op, l)'
  BY AskedPairs DEF Begun
<1>2. due.must \subseteq Labelers
  BY DEF ModInv, ModTypeOK
<1>3. ASSUME modPc'[Filter] = "visible", NEW l \in due.must
      PROVE  l \in modExpired' \/ Begun("revoke", l)'
  BY <1>1, <1>2, <1>3 DEF ModInv, FilterHonoursAnswers
<1>4. ASSUME modPc'[Filter] = "hidden"
      PROVE  \E l \in Labelers \ due.gone : Begun("label", l)' /\ Begun("follow", l)'
  BY <1>1, <1>4 DEF ModInv, FilterHonoursAnswers
<1> QED
  BY <1>3, <1>4 DEF FilterHonoursAnswers

\* Every statement, commit and crash of moderation keeps it.
LEMMA ModStepInv == ModInv /\ [ModNext]_modVars => ModInv'
<1> SUFFICES ASSUME ModInv, [ModNext]_modVars PROVE ModInv'
  OBVIOUS
<1>0. ModTypeOK /\ ModRows /\ ModKept /\ ModDue /\ FilterHonoursAnswers
  BY DEF ModInv
<1> USE <1>0, AskedPairs
<1>1. ASSUME NEW l \in Labelers, CreateAttestation(l) PROVE ModInv'
  <2>1. /\ modPc' = [modPc EXCEPT ![<<"label", l>>] = "commit"]
        /\ modDb' = [modDb EXCEPT !["labels"] = modDb.labels \cup {l}]
        /\ UNCHANGED <<modDisk, modTrusted, modExpired, modCrashes, due>>
    BY <1>1 DEF CreateAttestation, ModWrite, ModGo
  <2>2. /\ ModTypeOK'
        /\ modPc' = [modPc EXCEPT ![<<"label", l>>] = "commit"] /\ modPc[<<"label", l>>] = "idle"
        /\ modDb'.labels = modDb.labels \cup {l}
        /\ modDb'.revoked = modDb.revoked /\ modDb'.follows = modDb.follows
        /\ UNCHANGED <<modDisk, modTrusted, modExpired, modCrashes, due>>
    <3>1. modDb'.labels = modDb.labels \cup {l} /\ modDb'.revoked = modDb.revoked /\ modDb'.follows = modDb.follows
      BY <2>1 DEF ModTypeOK, ModTables
    <3>2. modDb' \in ModTables
      BY <2>1 DEF ModTypeOK, ModTables
    <3>3. modPc' \in [Asked -> ModSteps \cup {"idle", "ok", "no", "visible", "hidden"}]
      BY <2>1 DEF ModTypeOK, ModSteps
    <3>4. modPc[<<"label", l>>] = "idle"
      BY <1>1 DEF CreateAttestation, ModWrite, ModGo
    <3> QED
      BY <2>1, <3>1, <3>2, <3>3, <3>4 DEF ModTypeOK
  <2>3. /\ \A r \in Asked : modPc'[r] = "idle" => modPc[r] = "idle"
        /\ \A r \in Asked : r # <<"label", l>> => modPc'[r] = modPc[r]
        /\ modPc'[<<"label", l>>] = "commit"
    BY <2>2 DEF ModTypeOK
  <2>4. ModRows'
    BY <2>2, <2>3 DEF ModRows, Begun
  <2>5. ModKept'
    BY <2>2, <2>3 DEF ModKept, Begun, Done
  <2>6. ModDue'
    BY <2>2, <2>3 DEF ModDue, Begun, Filter
  <2>7. FilterHonoursAnswers'
    BY <2>2, <2>3, FilterStays DEF Filter
  <2> QED
    BY <2>2, <2>4, <2>5, <2>6, <2>7 DEF ModInv
<1>2. ASSUME NEW l \in Labelers, RevokeAttestation(l) PROVE ModInv'
  <2>1. /\ modPc' = [modPc EXCEPT ![<<"revoke", l>>] = "commit"]
        /\ modDb' = [modDb EXCEPT !["revoked"] = modDb.revoked \cup {l}]
        /\ UNCHANGED <<modDisk, modTrusted, modExpired, modCrashes, due>>
    BY <1>2 DEF RevokeAttestation, ModWrite, ModGo
  <2>2. /\ ModTypeOK'
        /\ modPc' = [modPc EXCEPT ![<<"revoke", l>>] = "commit"] /\ modPc[<<"revoke", l>>] = "revoke"
        /\ modDb'.revoked = modDb.revoked \cup {l}
        /\ modDb'.labels = modDb.labels /\ modDb'.follows = modDb.follows
        /\ UNCHANGED <<modDisk, modTrusted, modExpired, modCrashes, due>>
    <3>1. modDb'.revoked = modDb.revoked \cup {l} /\ modDb'.labels = modDb.labels /\ modDb'.follows = modDb.follows
      BY <2>1 DEF ModTypeOK, ModTables
    <3>2. modDb' \in ModTables
      BY <2>1 DEF ModTypeOK, ModTables
    <3>3. modPc' \in [Asked -> ModSteps \cup {"idle", "ok", "no", "visible", "hidden"}]
      BY <2>1 DEF ModTypeOK, ModSteps
    <3>4. modPc[<<"revoke", l>>] = "revoke"
      BY <1>2 DEF RevokeAttestation, ModWrite, ModGo
    <3> QED
      BY <2>1, <3>1, <3>2, <3>3, <3>4 DEF ModTypeOK
  <2>3. /\ \A r \in Asked : modPc'[r] = "idle" => modPc[r] = "idle"
        /\ \A r \in Asked : r # <<"revoke", l>> => modPc'[r] = modPc[r]
        /\ modPc'[<<"revoke", l>>] = "commit"
    BY <2>2 DEF ModTypeOK
  <2>4. ModRows'
    BY <2>2, <2>3 DEF ModRows, Begun
  <2>5. ModKept'
    BY <2>2, <2>3 DEF ModKept, Begun, Done
  <2>6. ModDue'
    BY <2>2, <2>3 DEF ModDue, Begun, Filter
  <2>7. FilterHonoursAnswers'
    BY <2>2, <2>3, FilterStays DEF Filter
  <2> QED
    BY <2>2, <2>4, <2>5, <2>6, <2>7 DEF ModInv
<1>3. ASSUME NEW l \in Labelers, FollowLabeler(l) PROVE ModInv'
  <2>1. /\ modPc' = [modPc EXCEPT ![<<"follow", l>>] = "commit"]
        /\ modDb' = [modDb EXCEPT !["follows"] = modDb.follows \cup {l}]
        /\ UNCHANGED <<modDisk, modTrusted, modExpired, modCrashes, due>>
    BY <1>3 DEF FollowLabeler, ModWrite, ModGo
  <2>2. /\ ModTypeOK'
        /\ modPc' = [modPc EXCEPT ![<<"follow", l>>] = "commit"] /\ modPc[<<"follow", l>>] = "idle"
        /\ modDb'.follows = modDb.follows \cup {l}
        /\ modDb'.labels = modDb.labels /\ modDb'.revoked = modDb.revoked
        /\ UNCHANGED <<modDisk, modTrusted, modExpired, modCrashes, due>>
    <3>1. modDb'.follows = modDb.follows \cup {l} /\ modDb'.labels = modDb.labels /\ modDb'.revoked = modDb.revoked
      BY <2>1 DEF ModTypeOK, ModTables
    <3>2. modDb' \in ModTables
      BY <2>1 DEF ModTypeOK, ModTables
    <3>3. modPc' \in [Asked -> ModSteps \cup {"idle", "ok", "no", "visible", "hidden"}]
      BY <2>1 DEF ModTypeOK, ModSteps
    <3>4. modPc[<<"follow", l>>] = "idle"
      BY <1>3 DEF FollowLabeler, ModWrite, ModGo
    <3> QED
      BY <2>1, <3>1, <3>2, <3>3, <3>4 DEF ModTypeOK
  <2>3. /\ \A r \in Asked : modPc'[r] = "idle" => modPc[r] = "idle"
        /\ \A r \in Asked : r # <<"follow", l>> => modPc'[r] = modPc[r]
        /\ modPc'[<<"follow", l>>] = "commit"
    BY <2>2 DEF ModTypeOK
  <2>4. ModRows'
    BY <2>2, <2>3 DEF ModRows, Begun
  <2>5. ModKept'
    BY <2>2, <2>3 DEF ModKept, Begun, Done
  <2>6. ModDue'
    BY <2>2, <2>3 DEF ModDue, Begun, Filter
  <2>7. FilterHonoursAnswers'
    BY <2>2, <2>3, FilterStays DEF Filter
  <2> QED
    BY <2>2, <2>4, <2>5, <2>6, <2>7 DEF ModInv
<1>4. ASSUME NEW l \in Labelers, UnfollowLabeler(l) PROVE ModInv'
  <2>1. /\ modPc' = [modPc EXCEPT ![<<"unfollow", l>>] = "commit"]
        /\ modDb' = [modDb EXCEPT !["follows"] = modDb.follows \ {l}]
        /\ UNCHANGED <<modDisk, modTrusted, modExpired, modCrashes, due>>
    BY <1>4 DEF UnfollowLabeler, ModWrite, ModGo
  <2>2. /\ ModTypeOK'
        /\ modPc' = [modPc EXCEPT ![<<"unfollow", l>>] = "commit"] /\ modPc[<<"unfollow", l>>] = "idle"
        /\ modDb'.follows = modDb.follows \ {l}
        /\ modDb'.labels = modDb.labels /\ modDb'.revoked = modDb.revoked
        /\ UNCHANGED <<modDisk, modTrusted, modExpired, modCrashes, due>>
    <3>1. modDb'.follows = modDb.follows \ {l} /\ modDb'.labels = modDb.labels /\ modDb'.revoked = modDb.revoked
      BY <2>1 DEF ModTypeOK, ModTables
    <3>2. modDb' \in ModTables
      BY <2>1 DEF ModTypeOK, ModTables
    <3>3. modPc' \in [Asked -> ModSteps \cup {"idle", "ok", "no", "visible", "hidden"}]
      BY <2>1 DEF ModTypeOK, ModSteps
    <3>4. modPc[<<"unfollow", l>>] = "idle"
      BY <1>4 DEF UnfollowLabeler, ModWrite, ModGo
    <3> QED
      BY <2>1, <3>1, <3>2, <3>3, <3>4 DEF ModTypeOK
  <2>3. /\ \A r \in Asked : modPc'[r] = "idle" => modPc[r] = "idle"
        /\ \A r \in Asked : r # <<"unfollow", l>> => modPc'[r] = modPc[r]
        /\ modPc'[<<"unfollow", l>>] = "commit"
    BY <2>2 DEF ModTypeOK
  <2>4. ModRows'
    BY <2>2, <2>3 DEF ModRows, Begun
  <2>5. ModKept'
    BY <2>2, <2>3 DEF ModKept, Begun, Done
  <2>6. ModDue'
    BY <2>2, <2>3 DEF ModDue, Begun, Filter
  <2>7. FilterHonoursAnswers'
    BY <2>2, <2>3, FilterStays DEF Filter
  <2> QED
    BY <2>2, <2>4, <2>5, <2>6, <2>7 DEF ModInv
<1>5. ASSUME CreateReport PROVE ModInv'
  <2>1. /\ modPc' = [modPc EXCEPT ![<<"report", "content">>] = "commit"]
        /\ modDb' = [modDb EXCEPT !["report"] = "pending"]
        /\ UNCHANGED <<modDisk, modTrusted, modExpired, modCrashes, due>>
    BY <1>5 DEF CreateReport, ModWrite, ModGo
  <2>2. /\ ModTypeOK'
        /\ modPc' = [modPc EXCEPT ![<<"report", "content">>] = "commit"]
        /\ modDb'.labels = modDb.labels /\ modDb'.revoked = modDb.revoked
        /\ modDb'.follows = modDb.follows
        /\ UNCHANGED <<modDisk, modTrusted, modExpired, modCrashes, due>>
    BY <1>5, <2>1 DEF ModTypeOK, ModTables, ModSteps, CreateReport, ModWrite, ModGo
  <2>3. /\ \A r \in Asked : modPc'[r] = "idle" => modPc[r] = "idle"
        /\ \A r \in Asked : r # <<"report", "content">> => modPc'[r] = modPc[r]
        /\ modPc'[<<"report", "content">>] = "commit"
    BY <2>2 DEF ModTypeOK
  <2>4. ModRows'
    BY <2>2, <2>3 DEF ModRows, Begun
  <2>5. ModKept'
    BY <2>2, <2>3 DEF ModKept, Begun, Done
  <2>6. ModDue'
    BY <2>2, <2>3 DEF ModDue, Begun, Filter
  <2>7. FilterHonoursAnswers'
    BY <2>2, <2>3, FilterStays DEF Filter
  <2> QED
    BY <2>2, <2>4, <2>5, <2>6, <2>7 DEF ModInv
<1>6. ASSUME UpdateReport PROVE ModInv'
  <2>1. /\ modPc' = [modPc EXCEPT ![<<"resolve", "content">>] = "commit"]
        /\ modDb' = [modDb EXCEPT !["report"] = IF modDb.report = "none" THEN "none" ELSE "resolved"]
        /\ UNCHANGED <<modDisk, modTrusted, modExpired, modCrashes, due>>
    BY <1>6 DEF UpdateReport, ModWrite, ModGo
  <2>2. /\ ModTypeOK'
        /\ modPc' = [modPc EXCEPT ![<<"resolve", "content">>] = "commit"]
        /\ modDb'.labels = modDb.labels /\ modDb'.revoked = modDb.revoked
        /\ modDb'.follows = modDb.follows
        /\ UNCHANGED <<modDisk, modTrusted, modExpired, modCrashes, due>>
    BY <1>6, <2>1 DEF ModTypeOK, ModTables, ModSteps, UpdateReport, ModWrite, ModGo
  <2>3. /\ \A r \in Asked : modPc'[r] = "idle" => modPc[r] = "idle"
        /\ \A r \in Asked : r # <<"resolve", "content">> => modPc'[r] = modPc[r]
        /\ modPc'[<<"resolve", "content">>] = "commit"
    BY <2>2 DEF ModTypeOK
  <2>4. ModRows'
    BY <2>2, <2>3 DEF ModRows, Begun
  <2>5. ModKept'
    BY <2>2, <2>3 DEF ModKept, Begun, Done
  <2>6. ModDue'
    BY <2>2, <2>3 DEF ModDue, Begun, Filter
  <2>7. FilterHonoursAnswers'
    BY <2>2, <2>3, FilterStays DEF Filter
  <2> QED
    BY <2>2, <2>4, <2>5, <2>6, <2>7 DEF ModInv
<1>7. ASSUME NEW l \in Labelers, FindAttestation(l) PROVE ModInv'
  <2>1. /\ modPc' = [modPc EXCEPT ![<<"revoke", l>>] = IF l \in modDb.labels THEN "revoke" ELSE "no"]
        /\ UNCHANGED <<modDb, modDisk, modTrusted, modExpired, modCrashes, due>>
    BY <1>7 DEF FindAttestation, ModGo
  <2>2. ModTypeOK'
    BY <2>1 DEF ModTypeOK, ModSteps
  <2>3. /\ \A r \in Asked : r # <<"revoke", l>> => modPc'[r] = modPc[r]
        /\ modPc'[<<"revoke", l>>] \in {"revoke", "no"}
    BY <2>1 DEF ModTypeOK
  <2>4. ModRows' /\ ModKept'
    BY <2>1, <2>3 DEF ModRows, ModKept, Begun, Done
  <2>5. ModDue' /\ FilterHonoursAnswers'
    BY <2>1, <2>3 DEF ModDue, FilterHonoursAnswers, Begun, Filter
  <2> QED
    BY <2>2, <2>4, <2>5 DEF ModInv
<1>8. ASSUME NEW r \in Asked, ModCommit(r) PROVE ModInv'
  <2>1. /\ modPc' = [modPc EXCEPT ![r] = "ok"] /\ modPc[r] = "commit" /\ modDisk' = modDb
        /\ UNCHANGED <<modDb, modTrusted, modExpired, modCrashes, due>>
    BY <1>8 DEF ModCommit, ModGo
  <2>2. ModTypeOK'
    BY <2>1 DEF ModTypeOK, ModSteps
  <2>3. /\ \A q \in Asked : q # r => modPc'[q] = modPc[q]
        /\ modPc'[r] = "ok"
    BY <2>1 DEF ModTypeOK
  <2>4. ModRows'
    BY <2>1, <2>3 DEF ModRows, Begun
  <2>5. ModKept'
    BY <2>1, <2>3 DEF ModKept, Begun, Done
  <2>6. ModDue'
    BY <2>1, <2>3 DEF ModDue, Begun, Filter, ModRows, ModTypeOK, ModTables
  <2>7. FilterHonoursAnswers'
    BY <2>1, <2>3, FilterStays DEF Filter
  <2> QED
    BY <2>2, <2>4, <2>5, <2>6, <2>7 DEF ModInv
<1>9. CASE FilterTrusted
  <2>1. /\ modPc' = [modPc EXCEPT ![Filter] = "labels"] /\ modPc[Filter] = "idle"
        /\ modTrusted' = modDb.follows
        /\ due'.must = {l \in Labelers : /\ Done("label", l) /\ Done("follow", l)
                                        /\ ~Begun("revoke", l) /\ ~Begun("unfollow", l)}
        /\ due'.gone = {l \in Labelers : Done("revoke", l)}
        /\ UNCHANGED <<modDb, modDisk, modExpired, modCrashes>>
    BY <1>9 DEF FilterTrusted, ModGo
  <2>2. ModTypeOK'
    <3>1. due' \in [must : SUBSET Labelers, gone : SUBSET Labelers]
      BY <1>9 DEF FilterTrusted
    <3> QED
      BY <2>1, <3>1 DEF ModTypeOK, ModSteps, ModTables
  <2>3. /\ \A q \in Asked : q # Filter => modPc'[q] = modPc[q]
        /\ modPc'[Filter] = "labels"
    BY <2>1 DEF ModTypeOK
  <2>4. ModRows' /\ ModKept'
    BY <2>1, <2>3 DEF ModRows, ModKept, Begun, Done, Filter
  <2>5. ModDue'
    BY <2>1, <2>3 DEF ModDue, ModRows, ModKept, Begun, Done, ModTypeOK, ModTables, Filter
  <2>6. FilterHonoursAnswers'
    BY <2>3 DEF FilterHonoursAnswers
  <2> QED
    BY <2>2, <2>4, <2>5, <2>6 DEF ModInv
<1>10. CASE FilterLabels
  <2> DEFINE to == IF \E l \in modTrusted : InForce(l) THEN "hidden" ELSE "visible"
  <2>1. /\ modPc' = [modPc EXCEPT ![Filter] = to] /\ modPc[Filter] = "labels"
        /\ UNCHANGED <<modDb, modDisk, modTrusted, modExpired, modCrashes, due>>
    BY <1>10 DEF FilterLabels, ModGo
  <2>2. /\ to \in {"hidden", "visible"}
        /\ to = "hidden" <=> \E l \in modTrusted : InForce(l)
    OBVIOUS
  <2> HIDE DEF to
  <2>3. ModTypeOK'
    BY <2>1, <2>2 DEF ModTypeOK, ModSteps
  <2>4. /\ \A q \in Asked : q # Filter => modPc'[q] = modPc[q]
        /\ modPc'[Filter] = to
    BY <2>1 DEF ModTypeOK
  <2>5. ModRows' /\ ModKept' /\ ModDue'
    BY <2>1, <2>2, <2>4 DEF ModRows, ModKept, ModDue, Begun, Done, Filter
  <2>6. FilterHonoursAnswers'
    <3>1. ASSUME to = "visible", NEW l \in due.must PROVE l \in modExpired \/ Begun("revoke", l)
      BY <2>2, <3>1 DEF InForce, ModDue, ModRows, ModTypeOK, ModTables
    <3>2. ASSUME to = "hidden"
          PROVE  \E l \in Labelers \ due.gone : Begun("label", l) /\ Begun("follow", l)
      BY <2>2, <3>2 DEF InForce, ModDue, ModRows, ModTypeOK, ModTables
    <3>3. due.must \subseteq Labelers
      BY DEF ModTypeOK
    <3> QED
      BY <2>1, <2>2, <2>4, <3>1, <3>2, <3>3 DEF FilterHonoursAnswers, Begun, Filter
  <2> QED
    BY <2>3, <2>5, <2>6 DEF ModInv
<1>11. ASSUME NEW l \in Labelers, LabelExpires(l) PROVE ModInv'
  BY <1>11 DEF ModInv, LabelExpires, ModTypeOK, ModRows, ModKept, ModDue, FilterHonoursAnswers, Begun, Done
<1>12. CASE ModCrash
  <2>1. /\ modCrashes' = modCrashes + 1 /\ modCrashes < MaxModCrashes
        /\ modDb' = modDisk
        /\ modPc' = [r \in Asked |-> IF modPc[r] \in ModSteps THEN "no" ELSE modPc[r]]
        /\ UNCHANGED <<modDisk, modTrusted, modExpired, due>>
    BY <1>12 DEF ModCrash
  <2>2. ModTypeOK'
    BY <2>1, ModerationAssumption DEF ModTypeOK
  <2>3. \A r \in Asked : /\ modPc[r] \in ModSteps => modPc'[r] = "no"
                         /\ modPc[r] \notin ModSteps => modPc'[r] = modPc[r]
    BY <2>1
  <2>4. ModRows' /\ ModDue' /\ FilterHonoursAnswers'
    BY <2>1, <2>3 DEF ModRows, ModDue, FilterHonoursAnswers, Begun, Filter, ModSteps, ModTypeOK
  <2>5. ModKept'
    BY <2>1, <2>3 DEF ModKept, Begun, Done, ModSteps
  <2> QED
    BY <2>2, <2>4, <2>5 DEF ModInv
<1>13. CASE UNCHANGED modVars
  BY <1>13 DEF ModInv, modVars, ModTypeOK, ModRows, ModKept, ModDue, FilterHonoursAnswers, Begun, Done, Filter
<1> QED
  BY <1>1, <1>2, <1>3, <1>4, <1>5, <1>6, <1>7, <1>8, <1>9, <1>10, <1>11, <1>12, <1>13 DEF ModNext

-----------------------------------------------------------------------------
(***************************************************************************)
(* Payments.  Of a subscription whose events came in turn: what each stage *)
(* of its events says of the row, which turns active once and only once.   *)
(***************************************************************************)
Completed(s) == <<"completed", s>>
Ending(s)    == <<"deleted", s>>

\* A cancellation has found a row, and only a crash takes rows back.
RowsInv ==
  /\ \A e \in Events : /\ payPc[e] = "insert" => e[1] = "completed"
                       /\ payPc[e] = "update" => e[1] # "completed"
  /\ \A s \in Checkouts : payPc[<<"cancel", s>>] = "stripe" => payDb.status[s] # "none"

\* Events that came in turn: the row and Stripe at each stage of them.
TurnInv ==
  \A s \in Checkouts : s \notin replayed =>
    /\ delivered[Completed(s)] \in {0, 1}
    /\ s \notin payDb.extra \cup payDisk.extra
    /\ delivered[Completed(s)] = 0 => payPc[Completed(s)] = "idle"
    /\ payPc[Completed(s)] \in {"idle", "insert"} =>
         payDb.status[s] = "none" /\ payDisk.status[s] = "none"
    /\ payPc[Completed(s)] \in {"commit", "ok"} => payDb.status[s] # "none"
    /\ payPc[Completed(s)] = "ok" => payDisk.status[s] # "none"
    /\ payPc[Ending(s)] # "idle" => payPc[Completed(s)] = "ok"
    /\ payPc[Ending(s)] \in {"commit", "ok"} => payDb.status[s] # "active"
    /\ payPc[Ending(s)] = "ok" => payDisk.status[s] # "active"

\* The customer on record is the one every session was opened for.
CustomerInv ==
  payCrashes = 0 =>
    /\ \A x \in stripe.sessions : x[2] = payDb.customer
    /\ \A s \in Checkouts :
         payPc[<<"checkout", s>>] = "customer_commit" => payDb.customer = s

\* A row says canceled after Stripe has ended the subscription or failed to.
BillInv ==
  \A s \in Checkouts :
    /\ \A t \in {payDb, payDisk} :
         t.status[s] = "canceled" /\ s \notin billedOn => stripe.subs[s] = "deleted"
    /\ payPc[Ending(s)] # "idle" => stripe.subs[s] = "deleted"

\* How far a payout has come, by where its request is
PayoutInv ==
  /\ payDb.payouts \cup payDisk.payouts \subseteq stripe.transfers
  /\ \A p \in Payouts :
       LET at == payPc[<<"payout", p>>]
       IN  /\ at = "insert" => p \in stripe.transfers
           /\ at \in {"commit", "ok"} => p \in payDb.payouts
           /\ at = "ok" => p \in payDisk.payouts
           /\ p \in stripe.transfers => at \in {"insert", "commit", "ok", "no"}
           /\ p \in stripe.transfers \ payDb.payouts => at \in {"insert", "no"}

\* What payments keeps.
PayInv == PayTypeOK /\ RowsInv /\ TurnInv /\ CustomerInv /\ BillInv /\ PayoutInv

\* What may be asked of payments, pair by pair.
LEMMA PayRequests ==
  /\ \A s \in Checkouts :
       \A k \in {"completed", "failed", "deleted", "checkout", "cancel", "refund"} :
         <<k, s>> \in Requests
  /\ \A p \in Payouts : <<"payout", p>> \in Requests
  /\ \A o \in Onboardings : <<"onboard", o>> \in Requests
  /\ <<"create", "product">> \in Requests
  /\ Events \subseteq Requests
  /\ \A s \in Checkouts : \A k \in EventTypes : <<k, s>> \in Events
  /\ \A e \in Events : e[1] \in EventTypes /\ e[2] \in Checkouts /\ e = <<e[1], e[2]>>
BY DEF Requests, Events, EventTypes

\* Requests of two kinds are two requests.
LEMMA KindsApart ==
  ASSUME NEW k, NEW x
  PROVE  /\ k \notin EventTypes => \A e \in Events : e # <<k, x>>
         /\ \A j, y : j # k => <<j, y>> # <<k, x>>
<1>1. ASSUME k \notin EventTypes, NEW e \in Events PROVE e # <<k, x>>
  <2>1. e[1] \in EventTypes
    BY PayRequests
  <2> QED
    BY <1>1, <2>1
<1>2. \A j, y : j # k => <<j, y>> # <<k, x>>
  OBVIOUS
<1> QED
  BY <1>1, <1>2

\* It says what is promised of billing.
LEMMA PayHolds == PayInv => AccessEndsWithBilling /\ StripeOnRecord
<1> SUFFICES ASSUME PayInv PROVE AccessEndsWithBilling /\ StripeOnRecord
  OBVIOUS
<1>1. AccessEndsWithBilling
  BY DEF PayInv, TurnInv, AccessEndsWithBilling, Handled, Access, Ending
<1>2. OneCustomer /\ CanceledIsNotBilled
  BY DEF PayInv, CustomerInv, BillInv, OneCustomer, CanceledIsNotBilled
<1>3. PayoutsAreTransfers
  <2>1. stripe.transfers \subseteq Payouts
    BY DEF PayInv, PayTypeOK, Stripe
  <2> QED
    BY <2>1 DEF PayInv, PayoutInv, PayoutsAreTransfers
<1> QED
  BY <1>1, <1>2, <1>3 DEF StripeOnRecord

\* It holds before anything is asked.
LEMMA PayInitInv == PayInit => PayInv
<1> SUFFICES ASSUME PayInit PROVE PayInv
  OBVIOUS
<1> USE PayRequests DEF PayInit
<1>1. payDb \in PayTables /\ payDisk \in PayTables
  BY DEF PayTables, Statuses
<1>2. stripe \in Stripe
  BY DEF Stripe
<1>3. PayTypeOK
  BY <1>1, <1>2, PaymentsAssumption DEF PayTypeOK, PaySteps
<1>4. RowsInv /\ CustomerInv
  BY DEF RowsInv, CustomerInv
<1>5. TurnInv
  <2> SUFFICES ASSUME NEW s \in Checkouts
               PROVE  /\ delivered[Completed(s)] = 0
                      /\ payPc[Completed(s)] = "idle" /\ payPc[Ending(s)] = "idle"
                      /\ payDb.status[s] = "none" /\ payDisk.status[s] = "none"
                      /\ s \notin payDb.extra \cup payDisk.extra
    BY DEF TurnInv
  <2>1. Completed(s) \in Events /\ Completed(s) \in Requests /\ Ending(s) \in Requests
    BY DEF EventTypes, Completed, Ending
  <2>2. delivered[Completed(s)] = 0 /\ payPc[Completed(s)] = "idle" /\ payPc[Ending(s)] = "idle"
    BY <2>1
  <2>3. payDb.status[s] = "none" /\ payDisk.status[s] = "none"
    OBVIOUS
  <2>4. payDb.extra = {} /\ payDisk.extra = {}
    OBVIOUS
  <2> QED
    BY <2>2, <2>3, <2>4
<1>6. BillInv
  <2>1. \A s \in Checkouts : payPc[Ending(s)] = "idle"
    BY DEF Ending
  <2>2. \A s \in Checkouts : payDb.status[s] = "none"
    OBVIOUS
  <2>3. payDisk = payDb
    OBVIOUS
  <2> QED
    BY <2>1, <2>2, <2>3 DEF BillInv
<1>7. PayoutInv
  BY DEF PayoutInv
<1> QED
  BY <1>3, <1>4, <1>5, <1>6, <1>7 DEF PayInv

\* One request moves on.
LEMMA PayGoes ==
  ASSUME PayInv, NEW r \in Requests, NEW from, NEW to, PayGo(r, from, to),
         to \in PaySteps \cup {"idle", "ok", "no"}
  PROVE  /\ payPc' \in [Requests -> PaySteps \cup {"idle", "ok", "no"}]
         /\ payPc[r] = from /\ payPc'[r] = to
         /\ \A q \in Requests : q # r => payPc'[q] = payPc[q]
         /\ payCrashes' = payCrashes /\ payAsked' = payAsked
BY DEF PayInv, PayTypeOK, PayGo

\* Steps that leave the rows of subscriptions and their events alone
LEMMA TurnFrame ==
  ASSUME PayInv, payDisk' = payDisk \/ payDisk' = payDb,
         payDb'.status = payDb.status, payDb'.extra = payDb.extra,
         delivered' = delivered, replayed' = replayed,
         \A e \in Events : payPc'[e] = payPc[e],
         \A s \in Checkouts : payPc'[<<"cancel", s>>] = "stripe" =>
           payPc[<<"cancel", s>>] = "stripe" \/ payDb.status[s] # "none"
  PROVE  RowsInv' /\ TurnInv'
<1>1. RowsInv'
  BY DEF PayInv, RowsInv
<1>2. \A s \in Checkouts : /\ payPc'[Completed(s)] = payPc[Completed(s)]
                          /\ payPc'[Ending(s)] = payPc[Ending(s)]
  BY PayRequests DEF EventTypes, Completed, Ending
<1>3. TurnInv'
  BY <1>2 DEF PayInv, TurnInv
<1> QED
  BY <1>1, <1>3

\* Steps that end a subscription's access, if it has begun
LEMMA EndFrame ==
  ASSUME PayInv, payDisk' = payDisk, payDb'.extra = payDb.extra,
         delivered' = delivered, replayed' = replayed,
         \A e \in Events : payPc'[e] = payPc[e],
         \A s \in Checkouts : payPc'[<<"cancel", s>>] = "stripe" =>
                                payPc[<<"cancel", s>>] = "stripe",
         \A s \in Checkouts :
           \/ payDb'.status[s] = payDb.status[s]
           \/ payDb.status[s] # "none" /\ payDb'.status[s] \notin {"none", "active"}
  PROVE  RowsInv' /\ TurnInv'
<1>1. RowsInv'
  BY DEF PayInv, RowsInv
<1>2. \A s \in Checkouts : /\ payPc'[Completed(s)] = payPc[Completed(s)]
                          /\ payPc'[Ending(s)] = payPc[Ending(s)]
  BY PayRequests DEF EventTypes, Completed, Ending
<1>3. TurnInv'
  BY <1>2 DEF PayInv, TurnInv
<1> QED
  BY <1>1, <1>3

\* BillInv depends on the rows' status, on what Stripe has deleted and on the events only.
LEMMA BillFrame ==
  ASSUME PayInv, payDisk' = payDisk \/ payDisk' = payDb, payDb'.status = payDb.status,
         billedOn \subseteq billedOn',
         \A s \in Checkouts : stripe.subs[s] = "deleted" => stripe'.subs[s] = "deleted",
         \A e \in Events : payPc'[e] = payPc[e]
  PROVE  BillInv'
<1>1. \A s \in Checkouts : payPc'[Ending(s)] = payPc[Ending(s)]
  BY PayRequests DEF EventTypes, Ending
<1> QED
  BY <1>1 DEF PayInv, BillInv

\* CustomerInv depends on the customer's row, on Stripe's sessions and on the checkouts only.
LEMMA CustomerFrame ==
  ASSUME PayInv, payCrashes' = payCrashes, payDb'.customer = payDb.customer,
         stripe'.sessions = stripe.sessions,
         \A s \in Checkouts : payPc'[<<"checkout", s>>] = "customer_commit" =>
                                payPc[<<"checkout", s>>] = "customer_commit"
  PROVE  CustomerInv'
BY DEF PayInv, CustomerInv

\* PayoutInv depends on the rows of payouts, on the transfers and on the payouts' requests only.
LEMMA PayoutFrame ==
  ASSUME PayInv, payDisk' = payDisk \/ payDisk' = payDb,
         payDb'.payouts = payDb.payouts, stripe'.transfers = stripe.transfers,
         \A p \in Payouts : payPc'[<<"payout", p>>] = payPc[<<"payout", p>>]
  PROVE  PayoutInv'
BY DEF PayInv, PayoutInv

\* Every statement, event, commit and crash of payments keeps it.
LEMMA PayStepInv == PayInv /\ [PayNext]_payVars => PayInv'
<1> SUFFICES ASSUME PayInv, [PayNext]_payVars PROVE PayInv'
  OBVIOUS
<1>0. /\ PayTypeOK /\ RowsInv /\ TurnInv /\ CustomerInv /\ BillInv /\ PayoutInv
      /\ payDb \in PayTables /\ payDisk \in PayTables /\ stripe \in Stripe
  BY DEF PayInv, PayTypeOK
<1>1. ASSUME CreateProduct PROVE PayInv'
  <2> DEFINE r  == <<"create", "product">>
             to == "commit"
  <2>1. /\ r \in Requests
        /\ to \in {"commit"} /\ to \in PaySteps \cup {"idle", "ok", "no"}
    BY PayRequests DEF PaySteps
  <2>2. PayGo(r, "idle", to)
    BY <1>1 DEF CreateProduct, PayRead, PayWrite, Unseen
  <2>3. payDb' = [payDb EXCEPT !["product"] = TRUE] /\ UNCHANGED <<payDisk, stripe, billedOn, delivered, replayed>>
    BY <1>1 DEF CreateProduct, PayRead, PayWrite, Unseen
  <2>4. /\ payDb'.customer = payDb.customer
        /\ payDb'.status = payDb.status
        /\ payDb'.extra = payDb.extra
        /\ payDb'.account = payDb.account
        /\ payDb'.payouts = payDb.payouts
        /\ payDb'.product = TRUE
        /\ payDb' \in PayTables
    BY <2>3, <1>0 DEF PayTables, Statuses
  <2> HIDE DEF to
  <2>5. /\ payPc' \in [Requests -> PaySteps \cup {"idle", "ok", "no"}]
        /\ payPc[r] = "idle" /\ payPc'[r] = to
        /\ \A q \in Requests : q # r => payPc'[q] = payPc[q]
        /\ payCrashes' = payCrashes /\ payAsked' = payAsked
    BY <2>1, <2>2, PayGoes
  <2>6. /\ \A e \in Events : payPc'[e] = payPc[e]
        /\ \A t \in Checkouts : payPc'[<<"cancel", t>>] = payPc[<<"cancel", t>>]
        /\ \A t \in Checkouts : payPc'[<<"checkout", t>>] = payPc[<<"checkout", t>>]
        /\ \A p \in Payouts : payPc'[<<"payout", p>>] = payPc[<<"payout", p>>]
    <3>1. /\ \A e \in Events : e \in Requests /\ e # r
          /\ \A t0 \in Checkouts : <<"cancel", t0>> \in Requests /\ <<"cancel", t0>> # r
          /\ \A t0 \in Checkouts : <<"checkout", t0>> \in Requests /\ <<"checkout", t0>> # r
          /\ \A p0 \in Payouts : <<"payout", p0>> \in Requests /\ <<"payout", p0>> # r
      BY PayRequests, KindsApart DEF EventTypes
    <3> QED
      BY <2>5, <3>1
  <2>7. PayTypeOK'
    BY <2>3, <2>4, <2>5, <1>0 DEF PayTypeOK, PayTables, Stripe
  <2>8. RowsInv' /\ TurnInv'
    BY <2>3, <2>4, <2>1, <2>5, <2>6, PayRequests, TurnFrame
  <2>9. CustomerInv'
    BY <2>3, <2>4, <2>1, <2>5, <2>6, PayRequests, CustomerFrame
  <2>10. BillInv'
    BY <2>3, <2>4, <2>1, <2>5, <2>6, PayRequests, BillFrame
  <2>11. PayoutInv'
    BY <2>3, <2>4, <2>1, <2>5, <2>6, PayRequests, PayoutFrame
  <2> QED
    BY <2>7, <2>8, <2>9, <2>10, <2>11 DEF PayInv
<1>2. ASSUME NEW s \in Checkouts, CreateCheckout(s) PROVE PayInv'
  <2> DEFINE r  == <<"checkout", s>>
             to == IF payDb.product THEN "customer_find" ELSE "no"
  <2>1. /\ r \in Requests
        /\ to \in {"customer_find", "no"} /\ to \in PaySteps \cup {"idle", "ok", "no"}
    BY PayRequests DEF PaySteps
  <2>2. PayGo(r, "idle", to)
    BY <1>2 DEF CreateCheckout, PayRead, PayWrite, Unseen
  <2>3. UNCHANGED <<payDb, payDisk, stripe, billedOn, delivered, replayed>>
    BY <1>2 DEF CreateCheckout, PayRead, PayWrite, Unseen
  <2> HIDE DEF to
  <2>4. /\ payPc' \in [Requests -> PaySteps \cup {"idle", "ok", "no"}]
        /\ payPc[r] = "idle" /\ payPc'[r] = to
        /\ \A q \in Requests : q # r => payPc'[q] = payPc[q]
        /\ payCrashes' = payCrashes /\ payAsked' = payAsked
    BY <2>1, <2>2, PayGoes
  <2>5. /\ \A e \in Events : payPc'[e] = payPc[e]
        /\ \A t \in Checkouts : payPc'[<<"cancel", t>>] = payPc[<<"cancel", t>>]
        /\ \A p \in Payouts : payPc'[<<"payout", p>>] = payPc[<<"payout", p>>]
    <3>1. /\ \A e \in Events : e \in Requests /\ e # r
          /\ \A t0 \in Checkouts : <<"cancel", t0>> \in Requests /\ <<"cancel", t0>> # r
          /\ \A p0 \in Payouts : <<"payout", p0>> \in Requests /\ <<"payout", p0>> # r
      BY PayRequests, KindsApart DEF EventTypes
    <3> QED
      BY <2>4, <3>1
  <2>6. PayTypeOK'
    BY <2>3, <2>4, <1>0 DEF PayTypeOK, PayTables, Stripe
  <2>7. RowsInv' /\ TurnInv'
    BY <2>3, <2>1, <2>4, <2>5, PayRequests, TurnFrame
  <2>8. CustomerInv'
    BY <2>3, <2>1, <2>4, <2>5, PayRequests, CustomerFrame
  <2>9. BillInv'
    BY <2>3, <2>1, <2>4, <2>5, PayRequests, BillFrame
  <2>10. PayoutInv'
    BY <2>3, <2>1, <2>4, <2>5, PayRequests, PayoutFrame
  <2> QED
    BY <2>6, <2>7, <2>8, <2>9, <2>10 DEF PayInv
<1>3. ASSUME NEW s \in Checkouts, FindCustomer(s) PROVE PayInv'
  <2> DEFINE r  == <<"checkout", s>>
             to == IF payDb.customer = NoOne THEN "customer_insert" ELSE "ok"
  <2>1. /\ r \in Requests
        /\ to \in {"customer_insert", "ok"} /\ to \in PaySteps \cup {"idle", "ok", "no"}
    BY PayRequests DEF PaySteps
  <2>2. PayGo(r, "customer_find", to)
    BY <1>3 DEF FindCustomer, Unseen
  <2>3. UNCHANGED <<payDb, payDisk, billedOn, delivered, replayed>>
    BY <1>3 DEF FindCustomer, Unseen
  <2>4. /\ stripe'.subs = stripe.subs /\ stripe'.transfers = stripe.transfers
        /\ \A x \in stripe'.sessions : x \in stripe.sessions \/ x[2] = payDb.customer
        /\ stripe' \in Stripe
    BY <1>3, <1>0 DEF FindCustomer, OpenSession, PayTables, Stripe
  <2> HIDE DEF to
  <2>5. /\ payPc' \in [Requests -> PaySteps \cup {"idle", "ok", "no"}]
        /\ payPc[r] = "customer_find" /\ payPc'[r] = to
        /\ \A q \in Requests : q # r => payPc'[q] = payPc[q]
        /\ payCrashes' = payCrashes /\ payAsked' = payAsked
    BY <2>1, <2>2, PayGoes
  <2>6. /\ \A e \in Events : payPc'[e] = payPc[e]
        /\ \A t \in Checkouts : payPc'[<<"cancel", t>>] = payPc[<<"cancel", t>>]
        /\ \A p \in Payouts : payPc'[<<"payout", p>>] = payPc[<<"payout", p>>]
    <3>1. /\ \A e \in Events : e \in Requests /\ e # r
          /\ \A t0 \in Checkouts : <<"cancel", t0>> \in Requests /\ <<"cancel", t0>> # r
          /\ \A p0 \in Payouts : <<"payout", p0>> \in Requests /\ <<"payout", p0>> # r
      BY PayRequests, KindsApart DEF EventTypes
    <3> QED
      BY <2>5, <3>1
  <2>7. PayTypeOK'
    BY <2>3, <2>4, <2>5, <1>0 DEF PayTypeOK, PayTables, Stripe
  <2>8. RowsInv' /\ TurnInv'
    BY <2>3, <2>4, <2>1, <2>5, <2>6, PayRequests, TurnFrame
  <2>9. CustomerInv'
    BY <2>3, <2>4, <2>1, <2>5, <1>0, PayRequests DEF CustomerInv
  <2>10. BillInv'
    BY <2>3, <2>4, <2>1, <2>5, <2>6, PayRequests, BillFrame
  <2>11. PayoutInv'
    BY <2>3, <2>4, <2>1, <2>5, <2>6, PayRequests, PayoutFrame
  <2> QED
    BY <2>7, <2>8, <2>9, <2>10, <2>11 DEF PayInv
<1>4. ASSUME NEW s \in Checkouts, InsertCustomer(s) PROVE PayInv'
  <2> DEFINE r  == <<"checkout", s>>
             to == IF payDb.customer = NoOne THEN "customer_commit" ELSE "no"
  <2>1. /\ r \in Requests
        /\ (to = "customer_commit" /\ payDb.customer = NoOne) \/ to = "no"
        /\ to \in PaySteps \cup {"idle", "ok", "no"}
    BY PayRequests DEF PaySteps
  <2>2. PayGo(r, "customer_insert", to) /\ UNCHANGED <<payDisk, stripe, billedOn, delivered, replayed>>
    BY <1>4 DEF InsertCustomer, PayRead, PayWrite, Unseen
  <2>3. IF payDb.customer = NoOne THEN payDb' = [payDb EXCEPT !["customer"] = s] ELSE payDb' = payDb
    BY <1>4 DEF InsertCustomer, PayRead, PayWrite, Unseen
  <2>4. /\ payDb'.product = payDb.product
        /\ payDb'.status = payDb.status
        /\ payDb'.extra = payDb.extra
        /\ payDb'.account = payDb.account
        /\ payDb'.payouts = payDb.payouts
        /\ payDb.customer = NoOne => payDb'.customer = s
        /\ payDb.customer # NoOne => payDb'.customer = payDb.customer
        /\ payDb' \in PayTables
    BY <2>3, <1>0 DEF PayTables
  <2> HIDE DEF to
  <2>5. /\ payPc' \in [Requests -> PaySteps \cup {"idle", "ok", "no"}]
        /\ payPc'[r] = to
        /\ \A q \in Requests : q # r => payPc'[q] = payPc[q]
        /\ payCrashes' = payCrashes /\ payAsked' = payAsked
    BY <2>1, <2>2, PayGoes
  <2>6. /\ \A e \in Events : payPc'[e] = payPc[e]
        /\ \A t \in Checkouts : payPc'[<<"cancel", t>>] = payPc[<<"cancel", t>>]
        /\ \A p \in Payouts : payPc'[<<"payout", p>>] = payPc[<<"payout", p>>]
    <3>1. /\ \A e \in Events : e \in Requests /\ e # r
          /\ \A t0 \in Checkouts : <<"cancel", t0>> \in Requests /\ <<"cancel", t0>> # r
          /\ \A p0 \in Payouts : <<"payout", p0>> \in Requests /\ <<"payout", p0>> # r
      BY PayRequests, KindsApart DEF EventTypes
    <3> QED
      BY <2>5, <3>1
  <2>7. PayTypeOK'
    BY <2>2, <2>4, <2>5, <1>0 DEF PayTypeOK
  <2>8. RowsInv' /\ TurnInv'
    BY <2>2, <2>4, <2>6, TurnFrame
  \* The first customer comes before every session.
  <2>9. CustomerInv'
    <3>1. \A x \in stripe.sessions : x[2] # NoOne
      BY <1>0, PaymentsAssumption DEF Stripe
    <3>2. \A t \in Checkouts : t # NoOne
      BY PaymentsAssumption
    <3>3. \A t \in Checkouts : t # s => payPc'[<<"checkout", t>>] = payPc[<<"checkout", t>>]
      BY <2>5, PayRequests
    <3> QED
      BY <2>1, <2>2, <2>4, <2>5, <3>1, <3>2, <3>3, <1>0 DEF CustomerInv
  <2>10. BillInv' /\ PayoutInv'
    BY <2>2, <2>4, <2>6, BillFrame, PayoutFrame
  <2> QED
    BY <2>7, <2>8, <2>9, <2>10 DEF PayInv
<1>5. ASSUME NEW s \in Checkouts, CommitCustomer(s) PROVE PayInv'
  <2> DEFINE r  == <<"checkout", s>>
             to == "ok"
  <2>1. /\ r \in Requests
        /\ to \in {"ok"} /\ to \in PaySteps \cup {"idle", "ok", "no"}
    BY PayRequests DEF PaySteps
  <2>2. PayGo(r, "customer_commit", to)
    BY <1>5 DEF CommitCustomer, Unseen
  <2>3. payDisk' = payDb /\ UNCHANGED <<payDb, billedOn, delivered, replayed>>
    BY <1>5 DEF CommitCustomer, Unseen
  <2>4. /\ stripe'.subs = stripe.subs /\ stripe'.transfers = stripe.transfers
        /\ \A x \in stripe'.sessions : x \in stripe.sessions \/ x[2] = s
        /\ stripe' \in Stripe
    BY <1>5, <1>0 DEF CommitCustomer, OpenSession, Stripe
  <2> HIDE DEF to
  <2>5. /\ payPc' \in [Requests -> PaySteps \cup {"idle", "ok", "no"}]
        /\ payPc[r] = "customer_commit" /\ payPc'[r] = to
        /\ \A q \in Requests : q # r => payPc'[q] = payPc[q]
        /\ payCrashes' = payCrashes /\ payAsked' = payAsked
    BY <2>1, <2>2, PayGoes
  <2>6. /\ \A e \in Events : payPc'[e] = payPc[e]
        /\ \A t \in Checkouts : payPc'[<<"cancel", t>>] = payPc[<<"cancel", t>>]
        /\ \A p \in Payouts : payPc'[<<"payout", p>>] = payPc[<<"payout", p>>]
    <3>1. /\ \A e \in Events : e \in Requests /\ e # r
          /\ \A t0 \in Checkouts : <<"cancel", t0>> \in Requests /\ <<"cancel", t0>> # r
          /\ \A p0 \in Payouts : <<"payout", p0>> \in Requests /\ <<"payout", p0>> # r
      BY PayRequests, KindsApart DEF EventTypes
    <3> QED
      BY <2>5, <3>1
  <2>7. PayTypeOK'
    BY <2>3, <2>4, <2>5, <1>0 DEF PayTypeOK, PayTables, Stripe
  <2>8. RowsInv' /\ TurnInv'
    BY <2>3, <2>4, <2>1, <2>5, <2>6, PayRequests, TurnFrame
  <2>9. CustomerInv'
    BY <2>3, <2>4, <2>1, <2>5, <1>0, PayRequests DEF CustomerInv
  <2>10. BillInv'
    BY <2>3, <2>4, <2>1, <2>5, <2>6, PayRequests, BillFrame
  <2>11. PayoutInv'
    BY <2>3, <2>4, <2>1, <2>5, <2>6, PayRequests, PayoutFrame
  <2> QED
    BY <2>7, <2>8, <2>9, <2>10, <2>11 DEF PayInv
<1>6. ASSUME NEW s \in Checkouts, StripePays(s) \/ StripeInvoiceFails(s) \/ StripeEnds(s)
      PROVE  PayInv'
  <2>1. UNCHANGED <<payAsked, payDb, payDisk, payPc, payCrashes, billedOn, delivered, replayed>>
    BY <1>6 DEF StripePays, StripeInvoiceFails, StripeEnds, StripeAlone, Unseen
  <2>2. /\ stripe'.sessions = stripe.sessions /\ stripe'.transfers = stripe.transfers
        /\ \A t \in Checkouts : stripe.subs[t] = "deleted" => stripe'.subs[t] = "deleted"
        /\ stripe' \in Stripe
    <3>1. CASE StripePays(s)
      BY <3>1, <1>0 DEF StripePays, Stripe
    <3>2. CASE StripeInvoiceFails(s)
      BY <3>2, <1>0 DEF StripeInvoiceFails, Stripe
    <3>3. CASE StripeEnds(s)
      BY <3>3, <1>0 DEF StripeEnds, Stripe
    <3> QED
      BY <1>6, <3>1, <3>2, <3>3
  <2>3. PayTypeOK'
    BY <2>1, <2>2, <1>0 DEF PayTypeOK
  <2>4. RowsInv' /\ TurnInv'
    BY <2>1, TurnFrame
  <2>5. CustomerInv'
    BY <2>1, <2>2, CustomerFrame
  <2>6. BillInv'
    BY <2>1, <2>2, BillFrame
  <2>7. PayoutInv'
    BY <2>1, <2>2, PayoutFrame
  <2> QED
    BY <2>3, <2>4, <2>5, <2>6, <2>7 DEF PayInv
<1>7. ASSUME NEW s \in Checkouts, Cancel(s) PROVE PayInv'
  <2> DEFINE r  == <<"cancel", s>>
             to == IF payDb.status[s] = "none" THEN "no" ELSE "stripe"
  <2>1. /\ r \in Requests
        /\ to \in {"no", "stripe"} /\ to \in PaySteps \cup {"idle", "ok", "no"}
    BY PayRequests DEF PaySteps
  <2>2. PayGo(r, "idle", to)
    BY <1>7 DEF Cancel, PayRead, PayWrite, Unseen
  <2>3. UNCHANGED <<payDb, payDisk, stripe, billedOn, delivered, replayed>>
    BY <1>7 DEF Cancel, PayRead, PayWrite, Unseen
  <2>4. to = "stripe" => payDb.status[s] # "none"
    OBVIOUS
  <2> HIDE DEF to
  <2>5. /\ payPc' \in [Requests -> PaySteps \cup {"idle", "ok", "no"}]
        /\ payPc[r] = "idle" /\ payPc'[r] = to
        /\ \A q \in Requests : q # r => payPc'[q] = payPc[q]
        /\ payCrashes' = payCrashes /\ payAsked' = payAsked
    BY <2>1, <2>2, PayGoes
  <2>6. /\ \A e \in Events : payPc'[e] = payPc[e]
        /\ \A t \in Checkouts : payPc'[<<"checkout", t>>] = payPc[<<"checkout", t>>]
        /\ \A p \in Payouts : payPc'[<<"payout", p>>] = payPc[<<"payout", p>>]
    <3>1. /\ \A e \in Events : e \in Requests /\ e # r
          /\ \A t0 \in Checkouts : <<"checkout", t0>> \in Requests /\ <<"checkout", t0>> # r
          /\ \A p0 \in Payouts : <<"payout", p0>> \in Requests /\ <<"payout", p0>> # r
      BY PayRequests, KindsApart DEF EventTypes
    <3> QED
      BY <2>5, <3>1
  <2>7. PayTypeOK'
    BY <2>3, <2>4, <2>5, <1>0 DEF PayTypeOK, PayTables, Stripe
  <2>8. RowsInv' /\ TurnInv'
    <3>1. \A t \in Checkouts : t # s => payPc'[<<"cancel", t>>] = payPc[<<"cancel", t>>]
      BY <2>5, PayRequests
    <3> QED
      BY <2>3, <2>4, <2>5, <2>6, <3>1, TurnFrame
  <2>9. CustomerInv'
    BY <2>3, <2>4, <2>1, <2>5, <2>6, PayRequests, CustomerFrame
  <2>10. BillInv'
    BY <2>3, <2>4, <2>1, <2>5, <2>6, PayRequests, BillFrame
  <2>11. PayoutInv'
    BY <2>3, <2>4, <2>1, <2>5, <2>6, PayRequests, PayoutFrame
  <2> QED
    BY <2>7, <2>8, <2>9, <2>10, <2>11 DEF PayInv
<1>8. ASSUME NEW s \in Checkouts, CancelUpdate(s) PROVE PayInv'
  <2> DEFINE r  == <<"cancel", s>>
             to == "commit"
  <2>1. /\ r \in Requests
        /\ to \in {"commit"} /\ to \in PaySteps \cup {"idle", "ok", "no"}
    BY PayRequests DEF PaySteps
  <2>2. PayGo(r, "stripe", to)
    BY <1>8 DEF CancelUpdate, Unseen
  <2>3. UNCHANGED <<payDisk, delivered, replayed>>
    BY <1>8 DEF CancelUpdate, Unseen
  <2>4. /\ payDb'.product = payDb.product
        /\ payDb'.customer = payDb.customer
        /\ payDb'.extra = payDb.extra
        /\ payDb'.account = payDb.account
        /\ payDb'.payouts = payDb.payouts
        /\ payDb'.status = [payDb.status EXCEPT ![s] = "canceled"]
        /\ payDb'.status[s] = "canceled" /\ payDb' \in PayTables
    BY <1>8, <1>0 DEF CancelUpdate, PayTables, Statuses
  <2>5. \/ /\ stripe' = [stripe EXCEPT !.subs[s] = "deleted"] /\ billedOn' = billedOn
        \/ /\ billedOn' = billedOn \cup {s} /\ stripe' = stripe
    BY <1>8 DEF CancelUpdate
  <2>6. /\ stripe'.sessions = stripe.sessions /\ stripe'.transfers = stripe.transfers
        /\ \A t \in Checkouts : stripe.subs[t] = "deleted" => stripe'.subs[t] = "deleted"
        /\ stripe'.subs[s] = "deleted" \/ s \in billedOn'
        /\ billedOn \subseteq billedOn' /\ billedOn' \subseteq Checkouts
        /\ stripe' \in Stripe
    BY <2>5, <1>0 DEF Stripe, PayTypeOK
  <2> HIDE DEF to
  <2>7. /\ payPc' \in [Requests -> PaySteps \cup {"idle", "ok", "no"}]
        /\ payPc[r] = "stripe" /\ payPc'[r] = to
        /\ \A q \in Requests : q # r => payPc'[q] = payPc[q]
        /\ payCrashes' = payCrashes /\ payAsked' = payAsked
    BY <2>1, <2>2, PayGoes
  <2>8. /\ \A e \in Events : payPc'[e] = payPc[e]
        /\ \A t \in Checkouts : payPc'[<<"checkout", t>>] = payPc[<<"checkout", t>>]
        /\ \A p \in Payouts : payPc'[<<"payout", p>>] = payPc[<<"payout", p>>]
    <3>1. /\ \A e \in Events : e \in Requests /\ e # r
          /\ \A t0 \in Checkouts : <<"checkout", t0>> \in Requests /\ <<"checkout", t0>> # r
          /\ \A p0 \in Payouts : <<"payout", p0>> \in Requests /\ <<"payout", p0>> # r
      BY PayRequests, KindsApart DEF EventTypes
    <3> QED
      BY <2>7, <3>1
  <2>9. PayTypeOK'
    BY <2>3, <2>4, <2>5, <2>6, <2>7, <1>0 DEF PayTypeOK, PayTables, Stripe
  <2>10. RowsInv' /\ TurnInv'
    <3>1. \A t \in Checkouts : t # s => payDb'.status[t] = payDb.status[t]
      BY <2>3, <2>4, <2>5, <2>6, <1>0 DEF PayTables
    <3>2. \A t \in Checkouts : payPc'[<<"cancel", t>>] = "stripe" =>
                                  payPc[<<"cancel", t>>] = "stripe"
      BY <2>1, <2>7, PayRequests
    <3>3. payDb.status[s] # "none" /\ payDb'.status[s] \notin {"none", "active"}
      BY <2>3, <2>4, <2>5, <2>6, <2>7, <1>0 DEF RowsInv
    <3> QED
      BY <2>3, <2>4, <2>5, <2>6, <2>8, <3>1, <3>2, <3>3, EndFrame
  <2>11. CustomerInv'
    BY <2>3, <2>4, <2>5, <2>6, <2>1, <2>7, <2>8, PayRequests, CustomerFrame
  <2>12. BillInv'
    <3>1. \A t \in Checkouts : payPc'[Ending(t)] = payPc[Ending(t)]
      BY <2>8, PayRequests DEF EventTypes, Ending
    <3>2. \A t \in Checkouts : t # s => payDb'.status[t] = payDb.status[t]
      BY <2>3, <2>4, <2>5, <2>6, <1>0 DEF PayTables
    <3>3. \A t \in Checkouts : t # s =>
            (payDb'.status[t] = "canceled" /\ t \notin billedOn' => stripe'.subs[t] = "deleted")
      BY <2>3, <2>4, <2>5, <2>6, <3>2, <1>0 DEF BillInv
    <3>4. \A t \in Checkouts :
            payDisk'.status[t] = "canceled" /\ t \notin billedOn' => stripe'.subs[t] = "deleted"
      BY <2>3, <2>4, <2>5, <2>6, <1>0 DEF BillInv
    <3> QED
      BY <2>3, <2>4, <2>5, <2>6, <3>1, <3>3, <3>4, <1>0 DEF BillInv
  <2>13. PayoutInv'
    BY <2>3, <2>4, <2>5, <2>6, <2>1, <2>7, <2>8, PayRequests, PayoutFrame
  <2> QED
    BY <2>9, <2>10, <2>11, <2>12, <2>13 DEF PayInv
<1>9. ASSUME NEW s \in Checkouts, Refund(s) PROVE PayInv'
  <2> DEFINE r  == <<"refund", s>>
             to == "commit"
  <2>1. /\ r \in Requests
        /\ to \in {"commit"} /\ to \in PaySteps \cup {"idle", "ok", "no"}
    BY PayRequests DEF PaySteps
  <2>2. PayGo(r, "idle", to)
    BY <1>9 DEF Refund, PayRead, PayWrite, Unseen
  <2>3. /\ payDb' = [payDb EXCEPT !["status"] = IF payDb.status[s] = "none" THEN payDb.status
                                                ELSE [payDb.status EXCEPT ![s] = "refunded"]]
        /\ UNCHANGED <<payDisk, stripe, billedOn, delivered, replayed>>
    BY <1>9 DEF Refund, PayRead, PayWrite, Unseen
  <2>4. /\ payDb'.product = payDb.product
        /\ payDb'.customer = payDb.customer
        /\ payDb'.extra = payDb.extra
        /\ payDb'.account = payDb.account
        /\ payDb'.payouts = payDb.payouts
        /\ payDb'.status = IF payDb.status[s] = "none" THEN payDb.status
                                                     ELSE [payDb.status EXCEPT ![s] = "refunded"]
    BY <2>3, <1>0 DEF PayTables
  <2>5. /\ payDb.status[s] = "none" => payDb'.status[s] = "none"
        /\ payDb.status[s] # "none" => payDb'.status[s] = "refunded"
        /\ \A t \in Checkouts : t # s => payDb'.status[t] = payDb.status[t]
        /\ payDb'.status \in [Checkouts -> Statuses]
    BY <2>4, <1>0 DEF PayTables, Statuses
  <2>6. payDb' \in PayTables
    BY <2>3, <2>4, <2>5, <1>0 DEF PayTables
  <2> HIDE DEF to
  <2>7. /\ payPc' \in [Requests -> PaySteps \cup {"idle", "ok", "no"}]
        /\ payPc[r] = "idle" /\ payPc'[r] = to
        /\ \A q \in Requests : q # r => payPc'[q] = payPc[q]
        /\ payCrashes' = payCrashes /\ payAsked' = payAsked
    BY <2>1, <2>2, PayGoes
  <2>8. /\ \A e \in Events : payPc'[e] = payPc[e]
        /\ \A t \in Checkouts : payPc'[<<"cancel", t>>] = payPc[<<"cancel", t>>]
        /\ \A t \in Checkouts : payPc'[<<"checkout", t>>] = payPc[<<"checkout", t>>]
        /\ \A p \in Payouts : payPc'[<<"payout", p>>] = payPc[<<"payout", p>>]
    <3>1. /\ \A e \in Events : e \in Requests /\ e # r
          /\ \A t0 \in Checkouts : <<"cancel", t0>> \in Requests /\ <<"cancel", t0>> # r
          /\ \A t0 \in Checkouts : <<"checkout", t0>> \in Requests /\ <<"checkout", t0>> # r
          /\ \A p0 \in Payouts : <<"payout", p0>> \in Requests /\ <<"payout", p0>> # r
      BY PayRequests, KindsApart DEF EventTypes
    <3> QED
      BY <2>7, <3>1
  <2>9. PayTypeOK'
    BY <2>3, <2>4, <2>5, <2>6, <2>7, <1>0 DEF PayTypeOK, PayTables, Stripe
  <2>10. RowsInv' /\ TurnInv'
    <3>1. \A t \in Checkouts : t # s => payDb'.status[t] = payDb.status[t]
      BY <2>3, <2>4, <2>5, <2>6, <1>0 DEF PayTables
    <3>2. \A t \in Checkouts : payPc'[<<"cancel", t>>] = "stripe" =>
                                  payPc[<<"cancel", t>>] = "stripe"
      BY <2>1, <2>7, PayRequests
    <3>3. payDb.status[s] = "none" \/ payDb'.status[s] = "refunded"
      BY <2>3, <2>4, <2>5, <2>6, <2>7, <1>0 DEF RowsInv
    <3> QED
      BY <2>3, <2>4, <2>5, <2>6, <2>8, <3>1, <3>2, <3>3, EndFrame
  <2>11. CustomerInv'
    BY <2>3, <2>4, <2>5, <2>6, <2>1, <2>7, <2>8, PayRequests, CustomerFrame
  <2>12. BillInv'
    <3>1. \A t \in Checkouts : payPc'[Ending(t)] = payPc[Ending(t)]
      BY <2>8, PayRequests DEF EventTypes, Ending
    <3> QED
      BY <2>3, <2>4, <2>5, <2>6, <3>1, <1>0 DEF BillInv
  <2>13. PayoutInv'
    BY <2>3, <2>4, <2>5, <2>6, <2>1, <2>7, <2>8, PayRequests, PayoutFrame
  <2> QED
    BY <2>9, <2>10, <2>11, <2>12, <2>13 DEF PayInv
<1>10. ASSUME NEW o \in Onboardings, Onboard(o) PROVE PayInv'
  <2> DEFINE r  == <<"onboard", o>>
             to == IF payDb.account = NoOne THEN "commit" ELSE "no"
  <2>1. /\ r \in Requests
        /\ to \in {"commit", "no"} /\ to \in PaySteps \cup {"idle", "ok", "no"}
    BY PayRequests DEF PaySteps
  <2>2. PayGo(r, "idle", to)
    BY <1>10 DEF Onboard, PayRead, PayWrite, Unseen
  <2>3. payDb' \in {payDb, [payDb EXCEPT !["account"] = o]} /\ UNCHANGED <<payDisk, stripe, billedOn, delivered, replayed>>
    BY <1>10 DEF Onboard, PayRead, PayWrite, Unseen
  <2>4. /\ payDb'.product = payDb.product
        /\ payDb'.customer = payDb.customer
        /\ payDb'.status = payDb.status
        /\ payDb'.extra = payDb.extra
        /\ payDb'.payouts = payDb.payouts
        /\ payDb' \in PayTables
    BY <2>3, <1>0 DEF PayTables
  <2> HIDE DEF to
  <2>5. /\ payPc' \in [Requests -> PaySteps \cup {"idle", "ok", "no"}]
        /\ payPc[r] = "idle" /\ payPc'[r] = to
        /\ \A q \in Requests : q # r => payPc'[q] = payPc[q]
        /\ payCrashes' = payCrashes /\ payAsked' = payAsked
    BY <2>1, <2>2, PayGoes
  <2>6. /\ \A e \in Events : payPc'[e] = payPc[e]
        /\ \A t \in Checkouts : payPc'[<<"cancel", t>>] = payPc[<<"cancel", t>>]
        /\ \A t \in Checkouts : payPc'[<<"checkout", t>>] = payPc[<<"checkout", t>>]
        /\ \A p \in Payouts : payPc'[<<"payout", p>>] = payPc[<<"payout", p>>]
    <3>1. /\ \A e \in Events : e \in Requests /\ e # r
          /\ \A t0 \in Checkouts : <<"cancel", t0>> \in Requests /\ <<"cancel", t0>> # r
          /\ \A t0 \in Checkouts : <<"checkout", t0>> \in Requests /\ <<"checkout", t0>> # r
          /\ \A p0 \in Payouts : <<"payout", p0>> \in Requests /\ <<"payout", p0>> # r
      BY PayRequests, KindsApart DEF EventTypes
    <3> QED
      BY <2>5, <3>1
  <2>7. PayTypeOK'
    BY <2>3, <2>4, <2>5, <1>0 DEF PayTypeOK, PayTables, Stripe
  <2>8. RowsInv' /\ TurnInv'
    BY <2>3, <2>4, <2>1, <2>5, <2>6, PayRequests, TurnFrame
  <2>9. CustomerInv'
    BY <2>3, <2>4, <2>1, <2>5, <2>6, PayRequests, CustomerFrame
  <2>10. BillInv'
    BY <2>3, <2>4, <2>1, <2>5, <2>6, PayRequests, BillFrame
  <2>11. PayoutInv'
    BY <2>3, <2>4, <2>1, <2>5, <2>6, PayRequests, PayoutFrame
  <2> QED
    BY <2>7, <2>8, <2>9, <2>10, <2>11 DEF PayInv
<1>11. ASSUME NEW p \in Payouts, CreatePayout(p) PROVE PayInv'
  <2> DEFINE r  == <<"payout", p>>
             to == IF payDb.account = NoOne THEN "no" ELSE "transfer"
  <2>1. /\ r \in Requests
        /\ to \in {"no", "transfer"} /\ to \in PaySteps \cup {"idle", "ok", "no"}
    BY PayRequests DEF PaySteps
  <2>2. PayGo(r, "idle", to)
    BY <1>11 DEF CreatePayout, PayRead, PayWrite, Unseen
  <2>3. UNCHANGED <<payDb, payDisk, stripe, billedOn, delivered, replayed>>
    BY <1>11 DEF CreatePayout, PayRead, PayWrite, Unseen
  <2> HIDE DEF to
  <2>4. /\ payPc' \in [Requests -> PaySteps \cup {"idle", "ok", "no"}]
        /\ payPc[r] = "idle" /\ payPc'[r] = to
        /\ \A q \in Requests : q # r => payPc'[q] = payPc[q]
        /\ payCrashes' = payCrashes /\ payAsked' = payAsked
    BY <2>1, <2>2, PayGoes
  <2>5. /\ \A e \in Events : payPc'[e] = payPc[e]
        /\ \A t \in Checkouts : payPc'[<<"cancel", t>>] = payPc[<<"cancel", t>>]
        /\ \A t \in Checkouts : payPc'[<<"checkout", t>>] = payPc[<<"checkout", t>>]
    <3>1. /\ \A e \in Events : e \in Requests /\ e # r
          /\ \A t0 \in Checkouts : <<"cancel", t0>> \in Requests /\ <<"cancel", t0>> # r
          /\ \A t0 \in Checkouts : <<"checkout", t0>> \in Requests /\ <<"checkout", t0>> # r
      BY PayRequests, KindsApart DEF EventTypes
    <3> QED
      BY <2>4, <3>1
  <2>6. PayTypeOK'
    BY <2>3, <2>4, <1>0 DEF PayTypeOK, PayTables, Stripe
  <2>7. RowsInv' /\ TurnInv'
    BY <2>3, <2>1, <2>4, <2>5, PayRequests, TurnFrame
  <2>8. CustomerInv'
    BY <2>3, <2>1, <2>4, <2>5, PayRequests, CustomerFrame
  <2>9. BillInv'
    BY <2>3, <2>1, <2>4, <2>5, PayRequests, BillFrame
  <2>10. PayoutInv'
    <3>1. \A q \in Payouts : q # p => payPc'[<<"payout", q>>] = payPc[<<"payout", q>>]
      BY <2>4, PayRequests
    <3> QED
      BY <2>3, <2>1, <2>4, <3>1, <1>0 DEF PayoutInv
  <2> QED
    BY <2>6, <2>7, <2>8, <2>9, <2>10 DEF PayInv
<1>12. ASSUME NEW p \in Payouts, Transfer(p) PROVE PayInv'
  <2> DEFINE r == <<"payout", p>>
  <2>1. PICK to \in {"no", "insert"} :
          /\ PayGo(r, "transfer", to)
          /\ \/ to = "no" /\ stripe' = stripe
             \/ to = "insert" /\ stripe' = [stripe EXCEPT !.transfers = @ \cup {p}]
          /\ UNCHANGED <<payDb, payDisk, billedOn, delivered, replayed>>
    BY <1>12 DEF Transfer, PayRead, Unseen
  <2>2. /\ stripe'.sessions = stripe.sessions /\ stripe'.subs = stripe.subs
        /\ to = "no" => stripe'.transfers = stripe.transfers
        /\ to = "insert" => stripe'.transfers = stripe.transfers \cup {p}
        /\ stripe' \in Stripe
    BY <2>1, <1>0 DEF Stripe
  <2>3. to \in PaySteps \cup {"idle", "ok", "no"} /\ r \in Requests
    BY PayRequests DEF PaySteps
  <2>4. /\ payPc' \in [Requests -> PaySteps \cup {"idle", "ok", "no"}]
        /\ payPc[r] = "transfer" /\ payPc'[r] = to
        /\ \A q \in Requests : q # r => payPc'[q] = payPc[q]
        /\ payCrashes' = payCrashes /\ payAsked' = payAsked
    BY <2>1, <2>3, PayGoes
  <2>5. /\ \A e \in Events : payPc'[e] = payPc[e]
        /\ \A t \in Checkouts : payPc'[<<"cancel", t>>] = payPc[<<"cancel", t>>]
        /\ \A t \in Checkouts : payPc'[<<"checkout", t>>] = payPc[<<"checkout", t>>]
    <3>1. /\ \A e \in Events : e \in Requests /\ e # r
          /\ \A t0 \in Checkouts : <<"cancel", t0>> \in Requests /\ <<"cancel", t0>> # r
          /\ \A t0 \in Checkouts : <<"checkout", t0>> \in Requests /\ <<"checkout", t0>> # r
      BY PayRequests, KindsApart DEF EventTypes
    <3> QED
      BY <2>4, <3>1
  <2>6. PayTypeOK'
    BY <2>1, <2>2, <2>4, <1>0 DEF PayTypeOK
  <2>7. RowsInv' /\ TurnInv'
    BY <2>1, <2>5, TurnFrame
  <2>8. CustomerInv' /\ BillInv'
    BY <2>1, <2>2, <2>4, <2>5, CustomerFrame, BillFrame
  <2>9. PayoutInv'
    <3>1. \A q \in Payouts : q # p => payPc'[<<"payout", q>>] = payPc[<<"payout", q>>]
      BY <2>4, PayRequests
    <3> QED
      BY <2>1, <2>2, <2>4, <3>1, <1>0 DEF PayoutInv
  <2> QED
    BY <2>6, <2>7, <2>8, <2>9 DEF PayInv
<1>13. ASSUME NEW p \in Payouts, InsertPayout(p) PROVE PayInv'
  <2> DEFINE r  == <<"payout", p>>
             to == "commit"
  <2>1. /\ r \in Requests
        /\ to \in {"commit"} /\ to \in PaySteps \cup {"idle", "ok", "no"}
    BY PayRequests DEF PaySteps
  <2>2. PayGo(r, "insert", to)
    BY <1>13 DEF InsertPayout, PayRead, PayWrite, Unseen
  <2>3. payDb' = [payDb EXCEPT !["payouts"] = payDb.payouts \cup {p}] /\ UNCHANGED <<payDisk, stripe, billedOn, delivered, replayed>>
    BY <1>13 DEF InsertPayout, PayRead, PayWrite, Unseen
  <2>4. /\ payDb'.product = payDb.product
        /\ payDb'.customer = payDb.customer
        /\ payDb'.status = payDb.status
        /\ payDb'.extra = payDb.extra
        /\ payDb'.account = payDb.account
        /\ payDb'.payouts = payDb.payouts \cup {p}
        /\ payDb' \in PayTables
    BY <2>3, <1>0 DEF PayTables, Statuses
  <2> HIDE DEF to
  <2>5. /\ payPc' \in [Requests -> PaySteps \cup {"idle", "ok", "no"}]
        /\ payPc[r] = "insert" /\ payPc'[r] = to
        /\ \A q \in Requests : q # r => payPc'[q] = payPc[q]
        /\ payCrashes' = payCrashes /\ payAsked' = payAsked
    BY <2>1, <2>2, PayGoes
  <2>6. /\ \A e \in Events : payPc'[e] = payPc[e]
        /\ \A t \in Checkouts : payPc'[<<"cancel", t>>] = payPc[<<"cancel", t>>]
        /\ \A t \in Checkouts : payPc'[<<"checkout", t>>] = payPc[<<"checkout", t>>]
    <3>1. /\ \A e \in Events : e \in Requests /\ e # r
          /\ \A t0 \in Checkouts : <<"cancel", t0>> \in Requests /\ <<"cancel", t0>> # r
          /\ \A t0 \in Checkouts : <<"checkout", t0>> \in Requests /\ <<"checkout", t0>> # r
      BY PayRequests, KindsApart DEF EventTypes
    <3> QED
      BY <2>5, <3>1
  <2>7. PayTypeOK'
    BY <2>3, <2>4, <2>5, <1>0 DEF PayTypeOK, PayTables, Stripe
  <2>8. RowsInv' /\ TurnInv'
    BY <2>3, <2>4, <2>1, <2>5, <2>6, PayRequests, TurnFrame
  <2>9. CustomerInv'
    BY <2>3, <2>4, <2>1, <2>5, <2>6, PayRequests, CustomerFrame
  <2>10. BillInv'
    BY <2>3, <2>4, <2>1, <2>5, <2>6, PayRequests, BillFrame
  <2>11. PayoutInv'
    <3>1. \A q \in Payouts : q # p => payPc'[<<"payout", q>>] = payPc[<<"payout", q>>]
      BY <2>5, PayRequests
    <3> QED
      BY <2>3, <2>4, <2>1, <2>5, <3>1, <1>0 DEF PayoutInv
  <2> QED
    BY <2>7, <2>8, <2>9, <2>10, <2>11 DEF PayInv
<1>14. ASSUME NEW e \in Events, Webhook(e) PROVE PayInv'
  <2> DEFINE to == IF e[1] = "completed" THEN "insert" ELSE "update"
  <2>1. /\ Happened(e) /\ payPc' = [payPc EXCEPT ![e] = to]
        /\ delivered[e] < MaxDeliveries /\ delivered' = [delivered EXCEPT ![e] = @ + 1]
        /\ replayed' = IF OutOfTurn(e) THEN replayed \cup {e[2]} ELSE replayed
        /\ UNCHANGED <<payDb, payDisk, stripe, payCrashes, billedOn, payAsked>>
    BY <1>14 DEF Webhook
  <2>2. /\ e \in Requests /\ to \in PaySteps /\ e[2] \in Checkouts /\ e[1] \in EventTypes
        /\ e = <<e[1], e[2]>>
    BY PayRequests DEF PaySteps
  <2>3. /\ e[1] = "completed" => to = "insert"
        /\ e[1] # "completed" => to = "update"
    OBVIOUS
  <2> HIDE DEF to
  <2>4. /\ payPc' \in [Requests -> PaySteps \cup {"idle", "ok", "no"}]
        /\ payPc'[e] = to
        /\ \A q \in Requests : q # e => payPc'[q] = payPc[q]
    BY <2>1, <2>2, <1>0 DEF PayTypeOK
  <2>5. /\ delivered' \in [Events -> 0 .. MaxDeliveries]
        /\ \A f \in Events : delivered[f] \in Nat
        /\ delivered'[e] = delivered[e] + 1
        /\ \A f \in Events : f # e => delivered'[f] = delivered[f]
    BY <2>1, <1>0, PaymentsAssumption DEF PayTypeOK
  <2>6. /\ replayed \subseteq replayed' /\ replayed' \subseteq Checkouts
        /\ e[2] \notin replayed' => ~OutOfTurn(e)
    BY <2>1, <2>2, <1>0 DEF PayTypeOK
  <2>7. PayTypeOK'
    BY <2>1, <2>4, <2>5, <2>6, <1>0 DEF PayTypeOK
  <2>8. \A s \in Checkouts :
          /\ Completed(s) \in Events /\ Completed(s) \in Requests
          /\ Ending(s) \in Events /\ Ending(s) \in Requests /\ Completed(s) # Ending(s)
          /\ Completed(s) = e <=> e[1] = "completed" /\ e[2] = s
          /\ Ending(s) = e <=> e[1] = "deleted" /\ e[2] = s
    BY <2>2, PayRequests DEF Completed, Ending, EventTypes
  <2>9. /\ \A s \in Checkouts : /\ <<"cancel", s>> \in Requests /\ <<"cancel", s>> # e
                                /\ <<"checkout", s>> \in Requests /\ <<"checkout", s>> # e
        /\ \A p \in Payouts : <<"payout", p>> \in Requests /\ <<"payout", p>> # e
    BY PayRequests, KindsApart DEF EventTypes
  <2>10. RowsInv'
    <3>1. \A f \in Events : /\ payPc'[f] = "insert" => f[1] = "completed"
                            /\ payPc'[f] = "update" => f[1] # "completed"
      BY <2>3, <2>4, <1>0, PayRequests DEF RowsInv
    <3>2. \A s \in Checkouts : payPc'[<<"cancel", s>>] = payPc[<<"cancel", s>>]
      BY <2>4, <2>9
    <3> QED
      BY <2>1, <3>1, <3>2, <1>0 DEF RowsInv
  <2>11. TurnInv'
    <3>1. ASSUME NEW s \in Checkouts, s \notin replayed', e # Completed(s), e # Ending(s)
          PROVE  /\ delivered'[Completed(s)] = delivered[Completed(s)]
                 /\ payPc'[Completed(s)] = payPc[Completed(s)]
                 /\ payPc'[Ending(s)] = payPc[Ending(s)]
      BY <2>4, <2>5, <2>8, <3>1
    <3>2. ASSUME NEW s \in Checkouts, s \notin replayed', e = Completed(s)
          PROVE  /\ delivered'[Completed(s)] = 1
                 /\ payPc'[Completed(s)] = "insert" /\ payPc'[Ending(s)] = "idle"
                 /\ payDb.status[s] = "none" /\ payDisk.status[s] = "none"
      <4>1. s \notin replayed /\ delivered[e] = 0
        BY <2>5, <2>6, <2>8, <3>2 DEF OutOfTurn
      <4>2. /\ payPc[e] = "idle" /\ payPc[Ending(s)] = "idle"
            /\ payDb.status[s] = "none" /\ payDisk.status[s] = "none"
        BY <4>1, <3>2, <1>0 DEF TurnInv
      <4> QED
        BY <2>3, <2>4, <2>5, <2>8, <3>2, <4>1, <4>2
    <3>3. ASSUME NEW s \in Checkouts, s \notin replayed', e = Ending(s)
          PROVE  /\ delivered'[Completed(s)] = delivered[Completed(s)]
                 /\ payPc'[Completed(s)] = payPc[Completed(s)] /\ payPc[Completed(s)] = "ok"
                 /\ payPc'[Ending(s)] = "update"
      <4>1. payPc[Completed(s)] = "ok"
        BY <2>6, <2>8, <3>3 DEF OutOfTurn, Handled, Completed
      <4> QED
        BY <2>3, <2>4, <2>5, <2>8, <3>3, <4>1
    <3>4. ASSUME NEW s \in Checkouts, s \notin replayed'
          PROVE  s \notin replayed
      BY <2>6, <3>4
    <3> QED
      BY <2>1, <3>1, <3>2, <3>3, <3>4, <1>0 DEF TurnInv
  <2>12. CustomerInv'
    BY <2>1, <2>4, <2>9, CustomerFrame
  <2>13. BillInv'
    <3>1. \A s \in Checkouts : payPc'[Ending(s)] # "idle" => stripe.subs[s] = "deleted"
      BY <2>1, <2>4, <2>8, <1>0 DEF BillInv, Happened
    <3> QED
      BY <2>1, <3>1, <1>0 DEF BillInv
  <2>14. PayoutInv'
    BY <2>1, <2>4, <2>9, PayoutFrame
  <2> QED
    BY <2>7, <2>10, <2>11, <2>12, <2>13, <2>14 DEF PayInv
<1>15. ASSUME NEW e \in Events, WebhookInsert(e) \/ WebhookUpdate(e) PROVE PayInv'
  <2> DEFINE s == e[2]
             first  == WebhookInsert(e) /\ payDb.status[s] = "none"
             second == WebhookInsert(e) /\ payDb.status[s] # "none"
             ends   == WebhookUpdate(e) /\ payDb.status[s] # "none"
             to     == IF e[1] = "deleted" THEN "canceled" ELSE "past_due"
  <2>1. PICK from \in {"insert", "update"} : PayGo(e, from, "commit")
    BY <1>15 DEF WebhookInsert, WebhookUpdate
  <2>2. /\ e \in Requests /\ s \in Checkouts /\ e[1] \in EventTypes /\ e = <<e[1], e[2]>>
        /\ UNCHANGED <<payDisk, stripe, billedOn, delivered, replayed>>
    BY <1>15, PayRequests DEF WebhookInsert, WebhookUpdate, Unseen
  <2>3. /\ payPc' \in [Requests -> PaySteps \cup {"idle", "ok", "no"}]
        /\ payPc[e] = from /\ payPc'[e] = "commit"
        /\ \A q \in Requests : q # e => payPc'[q] = payPc[q]
        /\ payCrashes' = payCrashes /\ payAsked' = payAsked
    BY <2>1, <2>2, PayGoes DEF PaySteps
  <2>4. /\ WebhookInsert(e) => payPc[e] = "insert" /\ e[1] = "completed"
        /\ WebhookUpdate(e) => payPc[e] = "update" /\ e[1] # "completed"
    BY <1>0 DEF WebhookInsert, WebhookUpdate, PayGo, RowsInv
  <2>5. /\ first => payDb' = [payDb EXCEPT !.status[s] = "active"]
        /\ second => payDb' = [payDb EXCEPT !.extra = @ \cup {s}]
        /\ ends => payDb' = [payDb EXCEPT !.status[s] = to, !.extra = @ \ {s}]
        /\ first \/ second \/ ends \/ payDb' = payDb
    BY <1>15 DEF WebhookInsert, WebhookUpdate, SetStatus
  <2>6. /\ to \in {"canceled", "past_due"} /\ (to = "canceled" => e[1] = "deleted")
        /\ first => payDb.status[s] = "none" /\ e[1] = "completed" /\ payPc[e] = "insert"
        /\ second => payDb.status[s] # "none" /\ e[1] = "completed" /\ payPc[e] = "insert"
        /\ ends => payDb.status[s] # "none" /\ e[1] # "completed" /\ payPc[e] = "update"
        /\ e[1] # "completed" => ~first /\ ~second
        /\ e[1] = "completed" => ~ends /\ (first \/ second)
        /\ ~ends /\ e[1] # "completed" => payDb.status[s] = "none"
    BY <1>15, <2>4
  <2> HIDE DEF first, second, ends, to
  <2>7. /\ payDb'.product = payDb.product /\ payDb'.customer = payDb.customer
        /\ payDb'.account = payDb.account /\ payDb'.payouts = payDb.payouts
        /\ \A t \in Checkouts : t # s => payDb'.status[t] = payDb.status[t]
        /\ first => payDb'.status[s] = "active" /\ payDb'.extra = payDb.extra
        /\ second => payDb'.status[s] = payDb.status[s] /\ payDb'.extra = payDb.extra \cup {s}
        /\ ends => payDb'.status[s] = to /\ payDb'.extra = payDb.extra \ {s}
        /\ payDb' \in PayTables
    <3>1. CASE first
      BY <2>2, <2>5, <2>6, <3>1, <1>0 DEF PayTables, Statuses
    <3>2. CASE second
      BY <2>2, <2>5, <2>6, <3>2, <1>0 DEF PayTables, Statuses
    <3>3. CASE ends
      <4>1. payDb' = [payDb EXCEPT !.status = [payDb.status EXCEPT ![s] = to],
                                   !.extra = payDb.extra \ {s}]
        BY <2>5, <3>3
      <4>2. /\ payDb'.product = payDb.product /\ payDb'.customer = payDb.customer
            /\ payDb'.account = payDb.account /\ payDb'.payouts = payDb.payouts
            /\ payDb'.status = [payDb.status EXCEPT ![s] = to]
            /\ payDb'.extra = payDb.extra \ {s}
        BY <4>1, <1>0 DEF PayTables
      <4>3. payDb'.status \in [Checkouts -> Statuses] /\ payDb'.extra \subseteq Checkouts
        BY <2>2, <2>6, <4>2, <1>0 DEF PayTables, Statuses
      <4>4. payDb' \in PayTables
        BY <4>1, <4>3, <1>0 DEF PayTables
      <4>5. /\ payDb'.status[s] = to
            /\ \A t \in Checkouts : t # s => payDb'.status[t] = payDb.status[t]
        BY <2>2, <4>2, <1>0 DEF PayTables
      <4>6. ~first /\ ~second
        BY <2>6, <3>3
      <4> QED
        BY <4>2, <4>4, <4>5, <4>6
    <3>4. CASE ~first /\ ~second /\ ~ends
      BY <2>5, <3>4, <1>0
    <3> QED
      BY <3>1, <3>2, <3>3, <3>4
  <2>8. ~first /\ ~second /\ ~ends => payDb' = payDb
    BY <2>5
  <2>9. PayTypeOK'
    BY <2>2, <2>3, <2>7, <1>0 DEF PayTypeOK
  <2>10. \A t \in Checkouts :
          /\ Completed(t) \in Events /\ Completed(t) \in Requests
          /\ Ending(t) \in Events /\ Ending(t) \in Requests /\ Completed(t) # Ending(t)
          /\ Completed(t) = e <=> e[1] = "completed" /\ s = t
          /\ Ending(t) = e <=> e[1] = "deleted" /\ s = t
    BY <2>2, PayRequests DEF Completed, Ending, EventTypes
  <2>11. /\ \A t \in Checkouts : /\ <<"cancel", t>> \in Requests /\ <<"cancel", t>> # e
                                 /\ <<"checkout", t>> \in Requests /\ <<"checkout", t>> # e
         /\ \A p \in Payouts : <<"payout", p>> \in Requests /\ <<"payout", p>> # e
    BY PayRequests, KindsApart DEF EventTypes
  <2> HIDE DEF s
  <2>12. \A t \in Checkouts : payDb.status[t] # "none" => payDb'.status[t] # "none"
    BY <2>6, <2>7, <2>8
  <2>13. RowsInv'
    <3>1. \A f \in Events : /\ payPc'[f] = "insert" => f[1] = "completed"
                            /\ payPc'[f] = "update" => f[1] # "completed"
      BY <2>3, <1>0, PayRequests DEF RowsInv
    <3>2. \A t \in Checkouts : payPc'[<<"cancel", t>>] = payPc[<<"cancel", t>>]
      BY <2>3, <2>11
    <3> QED
      BY <2>12, <3>1, <3>2, <1>0 DEF RowsInv
  <2>14. TurnInv'
    <3> SUFFICES ASSUME NEW t \in Checkouts, t \notin replayed
                 PROVE
                   /\ delivered[Completed(t)] \in {0, 1}
                   /\ t \notin payDb'.extra \cup payDisk.extra
                   /\ delivered[Completed(t)] = 0 => payPc'[Completed(t)] = "idle"
                   /\ payPc'[Completed(t)] \in {"idle", "insert"} =>
                        payDb'.status[t] = "none" /\ payDisk.status[t] = "none"
                   /\ payPc'[Completed(t)] \in {"commit", "ok"} => payDb'.status[t] # "none"
                   /\ payPc'[Completed(t)] = "ok" => payDisk.status[t] # "none"
                   /\ payPc'[Ending(t)] # "idle" => payPc'[Completed(t)] = "ok"
                   /\ payPc'[Ending(t)] \in {"commit", "ok"} => payDb'.status[t] # "active"
                   /\ payPc'[Ending(t)] = "ok" => payDisk.status[t] # "active"
      BY <2>2 DEF TurnInv
    <3>0. /\ delivered[Completed(t)] \in {0, 1}
          /\ t \notin payDb.extra \cup payDisk.extra
          /\ delivered[Completed(t)] = 0 => payPc[Completed(t)] = "idle"
          /\ payPc[Completed(t)] \in {"idle", "insert"} =>
               payDb.status[t] = "none" /\ payDisk.status[t] = "none"
          /\ payPc[Completed(t)] \in {"commit", "ok"} => payDb.status[t] # "none"
          /\ payPc[Completed(t)] = "ok" => payDisk.status[t] # "none"
          /\ payPc[Ending(t)] # "idle" => payPc[Completed(t)] = "ok"
          /\ payPc[Ending(t)] \in {"commit", "ok"} => payDb.status[t] # "active"
          /\ payPc[Ending(t)] = "ok" => payDisk.status[t] # "active"
      BY <1>0 DEF TurnInv
    <3>1. CASE t # s
      <4>1. /\ payPc'[Completed(t)] = payPc[Completed(t)] /\ payPc'[Ending(t)] = payPc[Ending(t)]
            /\ payDb'.status[t] = payDb.status[t]
        BY <2>3, <2>7, <2>10, <3>1
      <4>2. t \notin payDb'.extra
        BY <2>7, <2>8, <3>0, <3>1
      <4> QED
        BY <3>0, <4>1, <4>2
    <3>2. CASE t = s /\ e[1] = "completed"
      <4>1. /\ e = Completed(t) /\ payPc[e] = "insert" /\ payDb.status[t] = "none"
            /\ payPc'[Completed(t)] = "commit" /\ payPc'[Ending(t)] = payPc[Ending(t)]
        BY <2>3, <2>6, <2>10, <3>0, <3>2
      <4>2. first
        BY <2>6, <3>2, <4>1
      <4> QED
        BY <2>7, <3>0, <3>2, <4>1, <4>2
    <3>3. CASE t = s /\ e[1] # "completed"
      <4>1. /\ payPc'[Completed(t)] = payPc[Completed(t)]
            /\ payPc'[Ending(t)] \in {payPc[Ending(t)], "commit"}
            /\ payPc'[Ending(t)] # payPc[Ending(t)] => e = Ending(t)
        BY <2>3, <2>10, <3>3
      <4>2. e = Ending(t) => payPc[Ending(t)] # "idle"
        BY <2>1, <2>3
      <4>3. t \notin payDb'.extra /\ (payDb'.status[t] = payDb.status[t] \/ ends)
        BY <2>6, <2>7, <2>8, <3>0, <3>3
      <4>4. e = Ending(t) => ends
        BY <2>6, <3>0, <3>3, <4>2
      <4>5. ends => payDb'.status[t] \notin {"none", "active"} /\ payDb.status[t] # "none"
        BY <2>6, <2>7, <3>3
      <4> QED
        BY <3>0, <4>1, <4>2, <4>3, <4>4, <4>5
    <3> QED
      BY <3>1, <3>2, <3>3
  <2>15. CustomerInv'
    BY <2>2, <2>3, <2>7, <2>11, CustomerFrame
  <2>16. BillInv'
    <3>1. \A t \in Checkouts : payPc'[Ending(t)] # "idle" => stripe.subs[t] = "deleted"
      BY <2>1, <2>3, <2>10, <1>0 DEF BillInv
    <3>2. ASSUME NEW t \in Checkouts, payDb'.status[t] = "canceled", t \notin billedOn
          PROVE  stripe.subs[t] = "deleted"
      <4>1. CASE payDb'.status[t] = payDb.status[t]
        BY <3>2, <4>1, <1>0 DEF BillInv
      <4>2. CASE ends /\ t = s
        <5>1. e = Ending(t) /\ payPc[e] # "idle"
          BY <2>6, <2>7, <2>10, <3>2, <4>2
        <5> QED
          BY <5>1, <1>0 DEF BillInv
      <4>3. payDb'.status[t] = payDb.status[t] \/ (ends /\ t = s)
        BY <2>6, <2>7, <2>8, <3>2
      <4> QED
        BY <4>1, <4>2, <4>3
    <3> QED
      BY <2>2, <3>1, <3>2, <1>0 DEF BillInv
  <2>17. PayoutInv'
    BY <2>2, <2>3, <2>7, <2>11, PayoutFrame
  <2> QED
    BY <2>9, <2>13, <2>14, <2>15, <2>16, <2>17 DEF PayInv
<1>16. ASSUME NEW r \in Requests, PayCommit(r, "commit", "ok") PROVE PayInv'
  <2>1. /\ PayGo(r, "commit", "ok") /\ payDisk' = payDb
        /\ UNCHANGED <<payDb, stripe, billedOn, delivered, replayed>>
    BY <1>16 DEF PayCommit, Unseen
  <2>2. /\ payPc' \in [Requests -> PaySteps \cup {"idle", "ok", "no"}]
        /\ payPc[r] = "commit" /\ payPc'[r] = "ok"
        /\ \A q \in Requests : q # r => payPc'[q] = payPc[q]
        /\ payCrashes' = payCrashes /\ payAsked' = payAsked
    BY <2>1, PayGoes
  <2>3. \A q \in Requests : payPc'[q] = payPc[q] \/ (payPc[q] = "commit" /\ payPc'[q] = "ok")
    BY <2>2
  <2>4. PayTypeOK'
    BY <2>1, <2>2, <1>0 DEF PayTypeOK
  <2>5. RowsInv'
    <3>1. \A f \in Events : /\ payPc'[f] = "insert" => payPc[f] = "insert"
                            /\ payPc'[f] = "update" => payPc[f] = "update"
      BY <2>3, PayRequests
    <3>2. \A s \in Checkouts : payPc'[<<"cancel", s>>] = "stripe" =>
                                  payPc[<<"cancel", s>>] = "stripe"
      BY <2>3, PayRequests
    <3> QED
      BY <2>1, <3>1, <3>2, <1>0 DEF RowsInv
  <2>6. \A s \in Checkouts : Completed(s) \in Requests /\ Ending(s) \in Requests
    BY PayRequests DEF Completed, Ending
  <2>7. TurnInv'
    BY <2>1, <2>3, <2>6, <1>0 DEF TurnInv
  <2>8. CustomerInv'
    BY <2>1, <2>2, <2>3, PayRequests, CustomerFrame
  <2>9. BillInv'
    BY <2>1, <2>3, <2>6, <1>0 DEF BillInv
  <2>10. PayoutInv'
    BY <2>1, <2>3, <1>0, PayRequests DEF PayoutInv
  <2> QED
    BY <2>4, <2>5, <2>7, <2>8, <2>9, <2>10 DEF PayInv
<1>17. CASE PayCrash
  <2>1. /\ payCrashes < MaxPayCrashes /\ payCrashes' = payCrashes + 1
        /\ payDb' = payDisk
        /\ payPc' = [r \in Requests |-> IF payPc[r] \in PaySteps THEN "no" ELSE payPc[r]]
        /\ UNCHANGED <<payDisk, stripe, billedOn, payAsked, delivered, replayed>>
    BY <1>17 DEF PayCrash, Unseen
  <2>2. \A q \in Requests : /\ payPc[q] \in PaySteps => payPc'[q] = "no"
                            /\ payPc[q] \notin PaySteps => payPc'[q] = payPc[q]
    BY <2>1
  <2>3. payPc' \in [Requests -> PaySteps \cup {"idle", "ok", "no"}]
    BY <2>1, <1>0 DEF PayTypeOK
  <2>4. payCrashes' \in 0 .. MaxPayCrashes /\ payCrashes' # 0
    BY <2>1, <1>0, PaymentsAssumption DEF PayTypeOK
  <2>5. PayTypeOK'
    BY <2>1, <2>3, <2>4, <1>0 DEF PayTypeOK
  <2>6. RowsInv'
    BY <2>2, <1>0, PayRequests DEF RowsInv, PaySteps
  <2>7. \A s \in Checkouts : Completed(s) \in Requests /\ Ending(s) \in Requests
    BY PayRequests DEF Completed, Ending
  <2>8. TurnInv'
    BY <2>1, <2>2, <2>7, <1>0 DEF TurnInv, PaySteps
  <2>9. CustomerInv'
    BY <2>4 DEF CustomerInv
  <2>10. BillInv'
    BY <2>1, <2>2, <2>7, <1>0 DEF BillInv, PaySteps
  <2>11. PayoutInv'
    <3>1. \A p \in Payouts : payPc[<<"payout", p>>] \in PaySteps \cup {"idle", "ok", "no"}
      BY <1>0, PayRequests DEF PayTypeOK
    <3> QED
      BY <2>1, <2>2, <3>1, <1>0, PayRequests DEF PayoutInv, PaySteps
  <2> QED
    BY <2>5, <2>6, <2>8, <2>9, <2>10, <2>11 DEF PayInv
<1>18. CASE UNCHANGED payVars
  <2>1. UNCHANGED <<payAsked, payDb, payDisk, payPc, payCrashes, stripe, billedOn, delivered, replayed>>
    BY <1>18 DEF payVars
  <2> QED
    BY <2>1, TurnFrame, CustomerFrame, BillFrame, PayoutFrame, <1>0 DEF PayInv, PayTypeOK
<1> QED
  BY <1>1, <1>2, <1>3, <1>4, <1>5, <1>6, <1>7, <1>8, <1>9, <1>10, <1>11, <1>12, <1>13,
     <1>14, <1>15, <1>16, <1>17, <1>18 DEF PayNext

-----------------------------------------------------------------------------
(***************************************************************************)
(* Media.  Two requests of one file or one owner that are at work at once  *)
(* are both tangled, so of a file or an owner with no tangled request at   *)
(* most one request is at work, and its place says what the rows, the      *)
(* files and the quota are.                                                *)
(***************************************************************************)
Uploading == {"upload_quota", "upload_save", "upload_insert", "upload_count"}
Deleting  == {"delete_files", "delete_count", "delete_row"}
Counting  == {"upload_count", "delete_row"}     \* the row is written or the quota, not both
Writing   == Counting \cup {"commit"}

\* Nothing interfered with a request of this file, or of this owner.
FileClean(f)  == \A r \in MediaTraffic : r.file = f => r \notin tangled
OwnerClean(o) == \A r \in MediaTraffic : r.owner = o => r \notin tangled

\* Nothing is at work on f.
FileFree(f) == \A r \in MediaTraffic : r.file = f => ~Pending(r)

\* The files of o in these tables, and those of anybody.
FilesOf(t, o)  == {f \in Files : t.owner[f] = o}
Written(t)  == {f \in Files : t.owner[f] # Nobody}

\* Requests are where their kind goes, and those that overlap are both tangled.
OverlapInv ==
  /\ \A r \in MediaTraffic : /\ mediaPc[r] \in Uploading => r.op = "upload"
                             /\ mediaPc[r] \in Deleting => r.op = "delete"
  /\ \A q, r \in MediaTraffic :
       q # r /\ Pending(q) /\ Pending(r) /\ Alike(q, r) => q \in tangled /\ r \in tangled

\* What a request that nothing interfered with has found is still so.
FoundInv ==
  \A r \in MediaTraffic \ tangled :
    /\ mediaPc[r] \in Uploading \ Counting => mediaDb.owner[r.file] = Nobody
    /\ mediaPc[r] \in Deleting => mediaDb.owner[r.file] = r.owner

\* The row and the file of f, while nothing is at work on it and at each place of
\* the one request that is
FileAt(f) ==
  /\ FileFree(f) => /\ mediaDb.owner[f] = mediaDisk.owner[f]
                    /\ mediaDb.owner[f] # Nobody <=> f \in files
  /\ \A r \in MediaTraffic : r.file = f =>
       LET at == mediaPc[r]
       IN  /\ at \in {"upload_quota", "upload_save", "upload_insert"} =>
                mediaDb.owner[f] = Nobody /\ mediaDisk.owner[f] = Nobody
           /\ at = "delete_files" => mediaDb.owner[f] # Nobody /\ mediaDisk.owner[f] = mediaDb.owner[f]
           /\ at = "upload_count" \/ (at = "commit" /\ r.op = "upload") => mediaDb.owner[f] # Nobody
           /\ at = "commit" /\ r.op = "delete" => mediaDb.owner[f] = Nobody
           /\ at \in {"upload_insert", "upload_count", "delete_files"} => f \in files
           /\ at \in {"upload_quota", "upload_save", "delete_count", "delete_row"} => f \notin files
           /\ at = "commit" => (r.op = "upload" <=> f \in files)

\* Files and their rows
FileInv == \A f \in Files : FileClean(f) => FileAt(f)

\* The quota of o and its files: one apart while one of the two is written, on the
\* connection, and the same on the disk until a request of o writes.
QuotaOf(o) ==
  /\ \A q \in MediaTraffic :
       q.owner # o /\ mediaPc[q] \in Deleting => mediaDb.owner[q.file] # o
  /\ (\A r \in MediaTraffic : r.owner = o => mediaPc[r] \notin Counting) =>
       mediaDb.used[o] = Cardinality(FilesOf(mediaDb, o))
  /\ (\E r \in MediaTraffic : r.owner = o /\ mediaPc[r] \in Counting) =>
       mediaDb.used[o] = Cardinality(FilesOf(mediaDb, o)) - 1
  /\ (\A r \in MediaTraffic : r.owner = o => mediaPc[r] \notin Writing) =>
       /\ FilesOf(mediaDisk, o) = FilesOf(mediaDb, o)
       /\ mediaDisk.used[o] = mediaDb.used[o]

\* Quotas
OwnerInv == \A o \in Owners : OwnerClean(o) => QuotaOf(o)

\* Only so many files have been written.
FewFiles == IsFiniteSet(Written(mediaDb)) /\ IsFiniteSet(Written(mediaDisk))

\* What media keeps.
MediaInv == MediaTypeOK /\ OverlapInv /\ FoundInv /\ FileInv /\ OwnerInv /\ FewFiles

\* It says what is promised of files and quotas.
LEMMA MediaHolds == MediaInv => MediaIsConsistent
<1> SUFFICES ASSUME MediaInv PROVE RowsHaveFiles /\ QuotasCount
  BY DEF MediaIsConsistent
<1>1. RowsHaveFiles
  BY DEF MediaInv, FileInv, FileAt, FileClean, FileFree, RowsHaveFiles, Calm
<1>2. QuotasCount
  BY DEF MediaInv, OwnerInv, QuotaOf, OwnerClean, QuotasCount, Calm, FilesOf, Counting, Pending, MediaSteps
<1> QED
  BY <1>1, <1>2

\* It holds before anything is asked.
LEMMA MediaInitInv == MediaInit => MediaInv
<1> SUFFICES ASSUME MediaInit PROVE MediaInv
  OBVIOUS
<1> USE MediaAssumption DEF MediaInit
<1>1. /\ mediaDb \in MediaTables /\ mediaDisk = mediaDb
      /\ \A f \in Files : mediaDb.owner[f] = Nobody
      /\ \A o \in Owners : mediaDb.used[o] = 0
  BY DEF MediaTables
<1>2. MediaTypeOK
  BY <1>1 DEF MediaTypeOK
<1>3. OverlapInv /\ FoundInv /\ FileInv
  BY <1>1 DEF OverlapInv, FoundInv, FileInv, FileAt, Pending, MediaSteps, Uploading, Deleting, Counting
<1>4. OwnerInv
  <2>1. \A o \in Owners : FilesOf(mediaDb, o) = {}
    BY <1>1 DEF FilesOf
  <2>2. Cardinality({}) = 0
    BY FS_EmptySet
  <2> QED
    BY <1>1, <2>1, <2>2 DEF OwnerInv, QuotaOf, Deleting, Counting
<1>5. FewFiles
  <2>1. Written(mediaDb) = {}
    BY <1>1 DEF Written
  <2> QED
    BY <1>1, <2>1, FS_EmptySet DEF FewFiles
<1> QED
  BY <1>2, <1>3, <1>4, <1>5 DEF MediaInv

\* What an owner has can be counted.
LEMMA HeldFinite ==
  ASSUME MediaInv, NEW o \in Owners
  PROVE  IsFiniteSet(FilesOf(mediaDb, o)) /\ Cardinality(FilesOf(mediaDb, o)) \in Nat
<1>1. FilesOf(mediaDb, o) \subseteq Written(mediaDb)
  BY MediaAssumption DEF FilesOf, Written
<1> QED
  BY <1>1, FS_Subset, FS_CardinalityType DEF MediaInv, FewFiles

\* One request moves on.
LEMMA MediaGoes ==
  ASSUME MediaInv, NEW r \in MediaTraffic, NEW from, NEW to, MediaGo(r, from, to),
         to \in MediaSteps \cup {"idle", "ok", "exists", "no"}
  PROVE  /\ mediaPc' \in [MediaTraffic -> MediaSteps \cup {"idle", "ok", "exists", "no"}]
         /\ mediaPc[r] = from /\ mediaPc'[r] = to
         /\ \A q \in MediaTraffic : q # r => mediaPc'[q] = mediaPc[q]
         /\ mediaCrashes' = mediaCrashes /\ tangled' = tangled
BY DEF MediaInv, MediaTypeOK, MediaGo

\* OverlapInv depends on who is at work only.
LEMMA OverlapFrame ==
  ASSUME MediaInv, tangled \subseteq tangled',
         \A r \in MediaTraffic :
           /\ mediaPc'[r] \in MediaSteps => mediaPc[r] \in MediaSteps
           /\ mediaPc'[r] \in Uploading => r.op = "upload"
           /\ mediaPc'[r] \in Deleting => r.op = "delete"
  PROVE  OverlapInv'
BY DEF MediaInv, OverlapInv, Pending

\* Of a clean owner or file one request only is at work.
LEMMA Alone ==
  ASSUME MediaInv, NEW r \in MediaTraffic, Pending(r), NEW q \in MediaTraffic, q # r, Pending(q)
  PROVE  /\ r \notin tangled => q.file # r.file /\ q.owner # r.owner
         /\ FileClean(r.file) => q.file # r.file
         /\ OwnerClean(r.owner) => q.file # r.file /\ q.owner # r.owner
BY DEF MediaInv, OverlapInv, Alike, FileClean, OwnerClean

\* Steps that leave the tables alone
LEMMA OwnerFrame ==
  ASSUME MediaInv, mediaDb' = mediaDb, mediaDisk' = mediaDisk, tangled \subseteq tangled',
         \A r \in MediaTraffic :
           /\ mediaPc'[r] \in Deleting =>
                mediaPc[r] \in Deleting \/ mediaDb.owner[r.file] = r.owner
           /\ mediaPc'[r] \in Counting <=> mediaPc[r] \in Counting
           /\ mediaPc'[r] \in Writing <=> mediaPc[r] \in Writing
  PROVE  OwnerInv' /\ FewFiles'
<1>1. \A o : OwnerClean(o)' => OwnerClean(o)
  BY DEF OwnerClean
<1>2. ASSUME NEW o \in Owners, QuotaOf(o) PROVE QuotaOf(o)'
  <2>1. FilesOf(mediaDb, o)' = FilesOf(mediaDb, o) /\ FilesOf(mediaDisk, o)' = FilesOf(mediaDisk, o)
    BY DEF FilesOf
  <2>2. \A q \in MediaTraffic :
          q.owner # o /\ mediaPc'[q] \in Deleting => mediaDb.owner[q.file] # o
    BY <1>2 DEF QuotaOf
  <2> QED
    BY <1>2, <2>1, <2>2 DEF QuotaOf
<1>3. OwnerInv'
  BY <1>1, <1>2 DEF MediaInv, OwnerInv
<1> QED
  BY <1>3 DEF MediaInv, FewFiles, Written

\* Of another file than the request's nothing changes but what a commit brings.
LEMMA FileFrame ==
  ASSUME MediaInv, NEW r \in MediaTraffic, tangled' = tangled,
         \A q \in MediaTraffic : q # r => mediaPc'[q] = mediaPc[q],
         \A f \in Files : f # r.file =>
           /\ mediaDb'.owner[f] = mediaDb.owner[f]
           /\ mediaDisk'.owner[f] \in {mediaDisk.owner[f], mediaDb.owner[f]}
           /\ f \in files' <=> f \in files,
         FileClean(r.file) => FileAt(r.file)'
  PROVE  FileInv'
<1> SUFFICES ASSUME NEW f \in Files, FileClean(f)' PROVE FileAt(f)'
  BY DEF FileInv
<1>1. FileClean(f)
  BY DEF FileClean
<1>2. CASE f = r.file
  BY <1>1, <1>2
<1>3. CASE f # r.file
  <2>1. \A q \in MediaTraffic : q.file = f => mediaPc'[q] = mediaPc[q]
    BY <1>3
  <2>2. FileAt(f)
    BY <1>1 DEF MediaInv, FileInv
  <2>3. /\ mediaDb'.owner[f] = mediaDb.owner[f]
        /\ mediaDisk'.owner[f] \in {mediaDisk.owner[f], mediaDb.owner[f]}
        /\ f \in files' <=> f \in files
    BY <1>3
  <2> QED
    BY <2>1, <2>2, <2>3 DEF FileAt, FileFree, Pending
<1> QED
  BY <1>2, <1>3

\* ... and the request's own file is at its place.
LEMMA OwnFile ==
  ASSUME MediaInv, NEW r \in MediaTraffic, Pending(r), r.file \in Files, FileClean(r.file),
         \A q \in MediaTraffic : q # r => mediaPc'[q] = mediaPc[q]
  PROVE  /\ FileAt(r.file)
         /\ \A q \in MediaTraffic : q # r /\ q.file = r.file => mediaPc'[q] \notin MediaSteps
BY Alone DEF MediaInv, FileInv, Pending

\* The quota of another owner than the request's
LEMMA QuotaFrame ==
  ASSUME MediaInv, NEW r \in MediaTraffic, NEW o \in Owners, o # r.owner, QuotaOf(o),
         \A q \in MediaTraffic : q # r => mediaPc'[q] = mediaPc[q],
         mediaPc'[r] \in Deleting => mediaPc[r] \in Deleting,
         mediaDisk' = mediaDisk, mediaDb'.used[o] = mediaDb.used[o],
         \A f \in Files : mediaDb'.owner[f] # mediaDb.owner[f] =>
           mediaDb'.owner[f] # o /\ mediaDb.owner[f] # o,
         \A q \in MediaTraffic : q.file \in Files
  PROVE  QuotaOf(o)'
<1>1. FilesOf(mediaDb, o)' = FilesOf(mediaDb, o) /\ FilesOf(mediaDisk, o)' = FilesOf(mediaDisk, o)
  BY DEF FilesOf
<1>2. \A q \in MediaTraffic :
        q.owner # o /\ mediaPc'[q] \in Deleting => mediaDb'.owner[q.file] # o
  BY DEF QuotaOf
<1>3. \A q \in MediaTraffic : q.owner = o => mediaPc'[q] = mediaPc[q]
  OBVIOUS
<1>4. /\ (\A q \in MediaTraffic : q.owner = o => mediaPc'[q] \notin Counting) <=>
         (\A q \in MediaTraffic : q.owner = o => mediaPc[q] \notin Counting)
      /\ (\E q \in MediaTraffic : q.owner = o /\ mediaPc'[q] \in Counting) <=>
         (\E q \in MediaTraffic : q.owner = o /\ mediaPc[q] \in Counting)
      /\ (\A q \in MediaTraffic : q.owner = o => mediaPc'[q] \notin Writing) <=>
         (\A q \in MediaTraffic : q.owner = o => mediaPc[q] \notin Writing)
  BY <1>3
<1> QED
  BY <1>1, <1>2, <1>4 DEF QuotaOf

\* What the other untangled requests have found is not what r writes.
LEMMA FoundFrame ==
  ASSUME MediaInv, NEW r \in MediaTraffic, Pending(r), tangled' = tangled,
         \A q \in MediaTraffic : q # r => mediaPc'[q] = mediaPc[q],
         \A q \in MediaTraffic : q.file # r.file => mediaDb'.owner[q.file] = mediaDb.owner[q.file],
         r \notin tangled =>
           /\ mediaPc'[r] \in Uploading \ Counting => mediaDb'.owner[r.file] = Nobody
           /\ mediaPc'[r] \in Deleting => mediaDb'.owner[r.file] = r.owner
  PROVE  FoundInv'
<1> SUFFICES ASSUME NEW q \in MediaTraffic, q \notin tangled
             PROVE  /\ mediaPc'[q] \in Uploading \ Counting => mediaDb'.owner[q.file] = Nobody
                    /\ mediaPc'[q] \in Deleting => mediaDb'.owner[q.file] = q.owner
  BY DEF FoundInv
<1>1. CASE q = r
  BY <1>1
<1>2. CASE q # r
  <2>1. mediaPc'[q] = mediaPc[q]
    BY <1>2
  <2>2. CASE Pending(q)
    <3>1. q.file # r.file
      BY <1>2, <2>2, Alone
    <3> QED
      BY <2>1, <3>1 DEF MediaInv, FoundInv
  <2>3. CASE ~Pending(q)
    BY <2>1, <2>3 DEF Pending, MediaSteps, Uploading, Deleting, Counting
  <2> QED
    BY <2>2, <2>3
<1> QED
  BY <1>1, <1>2

\* Every statement, commit and crash of media keeps it.
LEMMA MediaStepInv == MediaInv /\ [MediaNext]_mediaVars => MediaInv'
<1> SUFFICES ASSUME MediaInv, [MediaNext]_mediaVars PROVE MediaInv'
  OBVIOUS
<1>0. /\ MediaTypeOK /\ OverlapInv /\ FoundInv /\ FileInv /\ OwnerInv /\ FewFiles
      /\ mediaDb \in MediaTables /\ mediaDisk \in MediaTables
      /\ \A r \in MediaTraffic : r.file \in Files /\ r.owner \in Owners /\ r.op \in {"upload", "delete"}
  BY MediaAssumption DEF MediaInv, MediaTypeOK, MediaRequest
<1>1. ASSUME NEW r \in MediaTraffic, UploadQuota(r) PROVE MediaInv'
  <2> DEFINE to == IF mediaDb.used[r.owner] < MaxBytes THEN "upload_save" ELSE "no"
  <2>1. to \in {"upload_save", "no"} /\ to \in MediaSteps \cup {"idle", "ok", "exists", "no"}
    BY DEF MediaSteps
  <2>2. /\ MediaGo(r, "upload_quota", to) /\ files' = files
        /\ mediaDb' = mediaDb /\ mediaDisk' = mediaDisk
    BY <1>1 DEF UploadQuota
  <2> HIDE DEF to
  <2>3. /\ mediaPc' \in [MediaTraffic -> MediaSteps \cup {"idle", "ok", "exists", "no"}]
        /\ mediaPc[r] = "upload_quota" /\ mediaPc'[r] = to
        /\ \A q \in MediaTraffic : q # r => mediaPc'[q] = mediaPc[q]
        /\ mediaCrashes' = mediaCrashes /\ tangled' = tangled
    BY <2>1, <2>2, MediaGoes
  <2>4. MediaTypeOK' /\ Pending(r)
    BY <2>2, <2>3, <1>0 DEF MediaTypeOK, Pending, MediaSteps
  <2>5. OverlapInv'
    <3>1. r.op = "upload"
      BY <2>3, <1>0 DEF OverlapInv, Uploading, Deleting
    <3>2. \A q \in MediaTraffic : q # r =>
            /\ mediaPc'[q] \in MediaSteps => mediaPc[q] \in MediaSteps
            /\ mediaPc'[q] \in Uploading => q.op = "upload"
            /\ mediaPc'[q] \in Deleting => q.op = "delete"
      BY <2>3, <1>0 DEF OverlapInv
    <3>3. /\ mediaPc'[r] \in Uploading => r.op = "upload"
          /\ mediaPc'[r] \in Deleting => r.op = "delete"
          /\ mediaPc[r] \in MediaSteps
      BY <2>1, <2>3, <3>1 DEF Uploading, Deleting, MediaSteps
    <3> QED
      BY <2>3, <3>2, <3>3, OverlapFrame
  <2>6. FoundInv'
    <3>1. r \notin tangled =>
            /\ mediaPc'[r] \in Uploading \ Counting => mediaDb.owner[r.file] = Nobody
            /\ mediaPc'[r] \in Deleting => mediaDb.owner[r.file] = r.owner
      BY <2>1, <2>3, <1>0 DEF FoundInv, Uploading, Deleting, Counting
    <3> QED
      BY <2>2, <2>3, <2>4, <3>1, FoundFrame
  <2>7. FileInv'
    <3>1. ASSUME FileClean(r.file) PROVE FileAt(r.file)'
      <4>1. /\ FileAt(r.file)
            /\ \A q \in MediaTraffic : q # r /\ q.file = r.file => mediaPc'[q] \notin MediaSteps
        BY <2>3, <2>4, <3>1, <1>0, OwnFile
      <4> QED
        BY <2>1, <2>2, <2>3, <4>1, <1>0 DEF FileAt, FileFree, Pending, MediaSteps
    <3>2. \A f \in Files : f # r.file => (f \in files' <=> f \in files)
      BY <2>2
    <3> QED
      BY <2>2, <2>3, <3>1, <3>2, FileFrame
  <2>8. OwnerInv' /\ FewFiles'
    <3>1. /\ mediaPc'[r] \in Deleting => mediaPc[r] \in Deleting
          /\ mediaPc[r] \notin Writing /\ mediaPc'[r] \notin Writing
          /\ mediaPc[r] \notin Counting /\ mediaPc'[r] \notin Counting
      BY <2>1, <2>3 DEF Deleting, Writing, Counting
    <3> QED
      BY <2>2, <2>3, <3>1, OwnerFrame
  <2> QED
    BY <2>4, <2>5, <2>6, <2>7, <2>8 DEF MediaInv
<1>2. ASSUME NEW r \in MediaTraffic, UploadSave(r) PROVE MediaInv'
  <2> DEFINE to == "upload_insert"
  <2>1. to \in {"upload_insert"} /\ to \in MediaSteps \cup {"idle", "ok", "exists", "no"}
    BY DEF MediaSteps
  <2>2. /\ MediaGo(r, "upload_save", to) /\ files' = files \cup {r.file}
        /\ mediaDb' = mediaDb /\ mediaDisk' = mediaDisk
    BY <1>2 DEF UploadSave
  <2> HIDE DEF to
  <2>3. /\ mediaPc' \in [MediaTraffic -> MediaSteps \cup {"idle", "ok", "exists", "no"}]
        /\ mediaPc[r] = "upload_save" /\ mediaPc'[r] = to
        /\ \A q \in MediaTraffic : q # r => mediaPc'[q] = mediaPc[q]
        /\ mediaCrashes' = mediaCrashes /\ tangled' = tangled
    BY <2>1, <2>2, MediaGoes
  <2>4. MediaTypeOK' /\ Pending(r)
    BY <2>2, <2>3, <1>0 DEF MediaTypeOK, Pending, MediaSteps
  <2>5. OverlapInv'
    <3>1. r.op = "upload"
      BY <2>3, <1>0 DEF OverlapInv, Uploading, Deleting
    <3>2. \A q \in MediaTraffic : q # r =>
            /\ mediaPc'[q] \in MediaSteps => mediaPc[q] \in MediaSteps
            /\ mediaPc'[q] \in Uploading => q.op = "upload"
            /\ mediaPc'[q] \in Deleting => q.op = "delete"
      BY <2>3, <1>0 DEF OverlapInv
    <3>3. /\ mediaPc'[r] \in Uploading => r.op = "upload"
          /\ mediaPc'[r] \in Deleting => r.op = "delete"
          /\ mediaPc[r] \in MediaSteps
      BY <2>1, <2>3, <3>1 DEF Uploading, Deleting, MediaSteps
    <3> QED
      BY <2>3, <3>2, <3>3, OverlapFrame
  <2>6. FoundInv'
    <3>1. r \notin tangled =>
            /\ mediaPc'[r] \in Uploading \ Counting => mediaDb.owner[r.file] = Nobody
            /\ mediaPc'[r] \in Deleting => mediaDb.owner[r.file] = r.owner
      BY <2>1, <2>3, <1>0 DEF FoundInv, Uploading, Deleting, Counting
    <3> QED
      BY <2>2, <2>3, <2>4, <3>1, FoundFrame
  <2>7. FileInv'
    <3>1. ASSUME FileClean(r.file) PROVE FileAt(r.file)'
      <4>1. /\ FileAt(r.file)
            /\ \A q \in MediaTraffic : q # r /\ q.file = r.file => mediaPc'[q] \notin MediaSteps
        BY <2>3, <2>4, <3>1, <1>0, OwnFile
      <4> QED
        BY <2>1, <2>2, <2>3, <4>1, <1>0 DEF FileAt, FileFree, Pending, MediaSteps
    <3>2. \A f \in Files : f # r.file => (f \in files' <=> f \in files)
      BY <2>2
    <3> QED
      BY <2>2, <2>3, <3>1, <3>2, FileFrame
  <2>8. OwnerInv' /\ FewFiles'
    <3>1. /\ mediaPc'[r] \in Deleting => mediaPc[r] \in Deleting
          /\ mediaPc[r] \notin Writing /\ mediaPc'[r] \notin Writing
          /\ mediaPc[r] \notin Counting /\ mediaPc'[r] \notin Counting
      BY <2>1, <2>3 DEF Deleting, Writing, Counting
    <3> QED
      BY <2>2, <2>3, <3>1, OwnerFrame
  <2> QED
    BY <2>4, <2>5, <2>6, <2>7, <2>8 DEF MediaInv
<1>3. ASSUME NEW r \in MediaTraffic, UploadInsert(r), mediaDb.owner[r.file] # Nobody PROVE MediaInv'
  <2> DEFINE to == "no"
  <2>1. to \in {"no"} /\ to \in MediaSteps \cup {"idle", "ok", "exists", "no"}
    BY DEF MediaSteps
  <2>2. /\ MediaGo(r, "upload_insert", to) /\ files' = files
        /\ mediaDb' = mediaDb /\ mediaDisk' = mediaDisk
    BY <1>3 DEF UploadInsert
  <2> HIDE DEF to
  <2>3. /\ mediaPc' \in [MediaTraffic -> MediaSteps \cup {"idle", "ok", "exists", "no"}]
        /\ mediaPc[r] = "upload_insert" /\ mediaPc'[r] = to
        /\ \A q \in MediaTraffic : q # r => mediaPc'[q] = mediaPc[q]
        /\ mediaCrashes' = mediaCrashes /\ tangled' = tangled
    BY <2>1, <2>2, MediaGoes
  <2>4. MediaTypeOK' /\ Pending(r)
    BY <2>2, <2>3, <1>0 DEF MediaTypeOK, Pending, MediaSteps
  <2>5. OverlapInv'
    <3>1. r.op = "upload"
      BY <2>3, <1>0 DEF OverlapInv, Uploading, Deleting
    <3>2. \A q \in MediaTraffic : q # r =>
            /\ mediaPc'[q] \in MediaSteps => mediaPc[q] \in MediaSteps
            /\ mediaPc'[q] \in Uploading => q.op = "upload"
            /\ mediaPc'[q] \in Deleting => q.op = "delete"
      BY <2>3, <1>0 DEF OverlapInv
    <3>3. /\ mediaPc'[r] \in Uploading => r.op = "upload"
          /\ mediaPc'[r] \in Deleting => r.op = "delete"
          /\ mediaPc[r] \in MediaSteps
      BY <2>1, <2>3, <3>1 DEF Uploading, Deleting, MediaSteps
    <3> QED
      BY <2>3, <3>2, <3>3, OverlapFrame
  <2>6. FoundInv'
    <3>1. r \notin tangled =>
            /\ mediaPc'[r] \in Uploading \ Counting => mediaDb.owner[r.file] = Nobody
            /\ mediaPc'[r] \in Deleting => mediaDb.owner[r.file] = r.owner
      BY <2>1, <2>3, <1>0 DEF FoundInv, Uploading, Deleting, Counting
    <3> QED
      BY <2>2, <2>3, <2>4, <3>1, FoundFrame
  <2>7. FileInv'
    <3>1. ASSUME FileClean(r.file) PROVE FileAt(r.file)'
      <4>1. /\ FileAt(r.file)
            /\ \A q \in MediaTraffic : q # r /\ q.file = r.file => mediaPc'[q] \notin MediaSteps
        BY <2>3, <2>4, <3>1, <1>0, OwnFile
      <4> QED
        BY <2>1, <2>2, <2>3, <4>1, <1>0, <1>3 DEF FileAt, FileFree, Pending, MediaSteps
    <3>2. \A f \in Files : f # r.file => (f \in files' <=> f \in files)
      BY <2>2
    <3> QED
      BY <2>2, <2>3, <3>1, <3>2, FileFrame
  <2>8. OwnerInv' /\ FewFiles'
    <3>1. /\ mediaPc'[r] \in Deleting => mediaPc[r] \in Deleting
          /\ mediaPc[r] \notin Writing /\ mediaPc'[r] \notin Writing
          /\ mediaPc[r] \notin Counting /\ mediaPc'[r] \notin Counting
      BY <2>1, <2>3 DEF Deleting, Writing, Counting
    <3> QED
      BY <2>2, <2>3, <3>1, OwnerFrame
  <2> QED
    BY <2>4, <2>5, <2>6, <2>7, <2>8 DEF MediaInv
<1>4. ASSUME NEW r \in MediaTraffic, DeleteFiles(r) PROVE MediaInv'
  <2> DEFINE to == "delete_count"
  <2>1. to \in {"delete_count"} /\ to \in MediaSteps \cup {"idle", "ok", "exists", "no"}
    BY DEF MediaSteps
  <2>2. /\ MediaGo(r, "delete_files", to) /\ files' = files \ {r.file}
        /\ mediaDb' = mediaDb /\ mediaDisk' = mediaDisk
    BY <1>4 DEF DeleteFiles
  <2> HIDE DEF to
  <2>3. /\ mediaPc' \in [MediaTraffic -> MediaSteps \cup {"idle", "ok", "exists", "no"}]
        /\ mediaPc[r] = "delete_files" /\ mediaPc'[r] = to
        /\ \A q \in MediaTraffic : q # r => mediaPc'[q] = mediaPc[q]
        /\ mediaCrashes' = mediaCrashes /\ tangled' = tangled
    BY <2>1, <2>2, MediaGoes
  <2>4. MediaTypeOK' /\ Pending(r)
    BY <2>2, <2>3, <1>0 DEF MediaTypeOK, Pending, MediaSteps
  <2>5. OverlapInv'
    <3>1. r.op = "delete"
      BY <2>3, <1>0 DEF OverlapInv, Uploading, Deleting
    <3>2. \A q \in MediaTraffic : q # r =>
            /\ mediaPc'[q] \in MediaSteps => mediaPc[q] \in MediaSteps
            /\ mediaPc'[q] \in Uploading => q.op = "upload"
            /\ mediaPc'[q] \in Deleting => q.op = "delete"
      BY <2>3, <1>0 DEF OverlapInv
    <3>3. /\ mediaPc'[r] \in Uploading => r.op = "upload"
          /\ mediaPc'[r] \in Deleting => r.op = "delete"
          /\ mediaPc[r] \in MediaSteps
      BY <2>1, <2>3, <3>1 DEF Uploading, Deleting, MediaSteps
    <3> QED
      BY <2>3, <3>2, <3>3, OverlapFrame
  <2>6. FoundInv'
    <3>1. r \notin tangled =>
            /\ mediaPc'[r] \in Uploading \ Counting => mediaDb.owner[r.file] = Nobody
            /\ mediaPc'[r] \in Deleting => mediaDb.owner[r.file] = r.owner
      BY <2>1, <2>3, <1>0 DEF FoundInv, Uploading, Deleting, Counting
    <3> QED
      BY <2>2, <2>3, <2>4, <3>1, FoundFrame
  <2>7. FileInv'
    <3>1. ASSUME FileClean(r.file) PROVE FileAt(r.file)'
      <4>1. /\ FileAt(r.file)
            /\ \A q \in MediaTraffic : q # r /\ q.file = r.file => mediaPc'[q] \notin MediaSteps
        BY <2>3, <2>4, <3>1, <1>0, OwnFile
      <4> QED
        BY <2>1, <2>2, <2>3, <4>1, <1>0 DEF FileAt, FileFree, Pending, MediaSteps
    <3>2. \A f \in Files : f # r.file => (f \in files' <=> f \in files)
      BY <2>2
    <3> QED
      BY <2>2, <2>3, <3>1, <3>2, FileFrame
  <2>8. OwnerInv' /\ FewFiles'
    <3>1. /\ mediaPc'[r] \in Deleting => mediaPc[r] \in Deleting
          /\ mediaPc[r] \notin Writing /\ mediaPc'[r] \notin Writing
          /\ mediaPc[r] \notin Counting /\ mediaPc'[r] \notin Counting
      BY <2>1, <2>3 DEF Deleting, Writing, Counting
    <3> QED
      BY <2>2, <2>3, <3>1, OwnerFrame
  <2> QED
    BY <2>4, <2>5, <2>6, <2>7, <2>8 DEF MediaInv
<1>5. ASSUME NEW r \in MediaTraffic, UploadCount(r) PROVE MediaInv'
  <2>1. /\ MediaGo(r, "upload_count", "commit")
        /\ mediaDb' = [mediaDb EXCEPT !.used[r.owner] = @ + 1]
        /\ mediaDisk' = mediaDisk /\ files' = files
    BY <1>5 DEF UploadCount
  <2>2. /\ mediaPc' \in [MediaTraffic -> MediaSteps \cup {"idle", "ok", "exists", "no"}]
        /\ mediaPc[r] = "upload_count" /\ mediaPc'[r] = "commit"
        /\ \A q \in MediaTraffic : q # r => mediaPc'[q] = mediaPc[q]
        /\ mediaCrashes' = mediaCrashes /\ tangled' = tangled
    BY <2>1, MediaGoes DEF MediaSteps
  <2>3. /\ mediaDb'.owner = mediaDb.owner
        /\ mediaDb'.used[r.owner] = mediaDb.used[r.owner] + 1
        /\ \A o \in Owners : o # r.owner => mediaDb'.used[o] = mediaDb.used[o]
        /\ mediaDb' \in MediaTables
    BY <2>1, <1>0 DEF MediaTables
  <2>4. MediaTypeOK' /\ Pending(r)
    BY <2>1, <2>2, <2>3, <1>0 DEF MediaTypeOK, Pending, MediaSteps
  <2>5. OverlapInv'
    <3>1. r.op = "upload"
      BY <2>2, <1>0 DEF OverlapInv, Uploading, Deleting
    <3>2. \A q \in MediaTraffic : q # r =>
            /\ mediaPc'[q] \in MediaSteps => mediaPc[q] \in MediaSteps
            /\ mediaPc'[q] \in Uploading => q.op = "upload"
            /\ mediaPc'[q] \in Deleting => q.op = "delete"
      BY <2>2, <1>0 DEF OverlapInv
    <3>3. /\ mediaPc'[r] \in Uploading => r.op = "upload"
          /\ mediaPc'[r] \in Deleting => r.op = "delete"
          /\ mediaPc[r] \in MediaSteps
      BY <2>2, <3>1 DEF Uploading, Deleting, MediaSteps
    <3> QED
      BY <2>2, <3>2, <3>3, OverlapFrame
  <2>6. r.op = "upload"
    BY <2>2, <1>0 DEF OverlapInv, Uploading, Deleting
  <2>7. FoundInv'
    <3>1. r \notin tangled =>
            /\ mediaPc'[r] \in Uploading \ Counting => mediaDb'.owner[r.file] = Nobody
            /\ mediaPc'[r] \in Deleting => mediaDb'.owner[r.file] = r.owner
      BY <2>2, <2>3, <1>0 DEF FoundInv, Uploading, Deleting, Counting
    <3>2. \A q \in MediaTraffic : q.file # r.file => mediaDb'.owner[q.file] = mediaDb.owner[q.file]
      BY <2>3, <1>0
    <3> QED
      BY <2>2, <2>4, <3>1, <3>2, FoundFrame
  <2>8. FileInv'
    <3>1. ASSUME FileClean(r.file) PROVE FileAt(r.file)'
      <4>1. /\ FileAt(r.file)
            /\ \A q \in MediaTraffic : q # r /\ q.file = r.file => mediaPc'[q] \notin MediaSteps
        BY <2>2, <2>4, <3>1, <1>0, OwnFile
      <4> QED
        BY <2>1, <2>2, <2>3, <2>6, <4>1, <1>0, MediaAssumption DEF FileAt, FileFree, Pending, MediaSteps
    <3> QED
      BY <2>1, <2>2, <2>3, <3>1, FileFrame
  <2>9. \A o \in Owners : OwnerClean(o)' <=> OwnerClean(o)
    BY <2>2 DEF OwnerClean
  \* Of an owner with a clean slate r is the only request at work.
  <2>10. ASSUME OwnerClean(r.owner)
         PROVE  /\ r \notin tangled /\ QuotaOf(r.owner)
                /\ \A q \in MediaTraffic : q # r /\ q.owner = r.owner => mediaPc'[q] \notin MediaSteps
                /\ \A q \in MediaTraffic : q # r /\ mediaPc[q] \in MediaSteps => q.file # r.file
    BY <2>2, <2>4, <2>10, <1>0, Alone DEF OwnerClean, OwnerInv, Pending
  <2>11. ASSUME OwnerClean(r.owner) PROVE QuotaOf(r.owner)'
    <3>1. FilesOf(mediaDb, r.owner)' = FilesOf(mediaDb, r.owner)
      BY <2>3 DEF FilesOf
    <3>2. mediaDb.used[r.owner] = Cardinality(FilesOf(mediaDb, r.owner)) - 1
      <4>1. \A q \in MediaTraffic : q # r /\ q.owner = r.owner => mediaPc[q] \notin Counting
        BY <2>2, <2>10, <2>11 DEF MediaSteps, Counting
      <4> QED
        BY <2>2, <2>10, <2>11, <4>1 DEF QuotaOf, Counting
    <3>3. Cardinality(FilesOf(mediaDb, r.owner)) \in Nat
      BY <1>0, HeldFinite
    <3>4. mediaDb'.used[r.owner] = Cardinality(FilesOf(mediaDb, r.owner))
      BY <2>3, <3>2, <3>3
    <3>5. \A q \in MediaTraffic : q.owner # r.owner /\ mediaPc'[q] \in Deleting =>
                                    mediaDb'.owner[q.file] # r.owner
      BY <2>2, <2>3, <2>10, <2>11 DEF QuotaOf
    <3>6. \A q \in MediaTraffic : q # r /\ q.owner = r.owner => mediaPc'[q] \notin Counting
      BY <2>10, <2>11 DEF MediaSteps, Counting
    <3> QED
      BY <2>2, <3>1, <3>4, <3>5, <3>6 DEF QuotaOf, Counting, Writing
  <2>12. ASSUME NEW o \in Owners, o # r.owner, OwnerClean(o) PROVE QuotaOf(o)'
    <3>1. QuotaOf(o)
      BY <2>12, <1>0 DEF OwnerInv
    <3>2. mediaPc'[r] \in Deleting => mediaPc[r] \in Deleting
      BY <2>2 DEF Deleting
    <3>3. mediaDb'.used[o] = mediaDb.used[o]
      BY <2>3, <2>12
    <3>4. \A f \in Files : mediaDb'.owner[f] # mediaDb.owner[f] =>
            mediaDb'.owner[f] # o /\ mediaDb.owner[f] # o
      BY <2>3, <2>12, <1>0, MediaAssumption
    <3> QED
      BY <2>1, <2>2, <2>12, <3>1, <3>2, <3>3, <3>4, <1>0, QuotaFrame
  <2>13. OwnerInv'
    BY <2>9, <2>11, <2>12, <1>0 DEF OwnerInv
  <2>14. FewFiles'
    BY <2>1, <2>3, <1>0 DEF FewFiles, Written
  <2> QED
    BY <2>4, <2>5, <2>7, <2>8, <2>13, <2>14 DEF MediaInv
<1>6. ASSUME NEW r \in MediaTraffic, DeleteCount(r) PROVE MediaInv'
  <2>1. /\ MediaGo(r, "delete_count", "delete_row")
        /\ mediaDb' = [mediaDb EXCEPT !.used[r.owner] = @ - 1]
        /\ mediaDisk' = mediaDisk /\ files' = files
    BY <1>6 DEF DeleteCount
  <2>2. /\ mediaPc' \in [MediaTraffic -> MediaSteps \cup {"idle", "ok", "exists", "no"}]
        /\ mediaPc[r] = "delete_count" /\ mediaPc'[r] = "delete_row"
        /\ \A q \in MediaTraffic : q # r => mediaPc'[q] = mediaPc[q]
        /\ mediaCrashes' = mediaCrashes /\ tangled' = tangled
    BY <2>1, MediaGoes DEF MediaSteps
  <2>3. /\ mediaDb'.owner = mediaDb.owner
        /\ mediaDb'.used[r.owner] = mediaDb.used[r.owner] - 1
        /\ \A o \in Owners : o # r.owner => mediaDb'.used[o] = mediaDb.used[o]
        /\ mediaDb' \in MediaTables
    BY <2>1, <1>0 DEF MediaTables
  <2>4. MediaTypeOK' /\ Pending(r)
    BY <2>1, <2>2, <2>3, <1>0 DEF MediaTypeOK, Pending, MediaSteps
  <2>5. OverlapInv'
    <3>1. r.op = "delete"
      BY <2>2, <1>0 DEF OverlapInv, Uploading, Deleting
    <3>2. \A q \in MediaTraffic : q # r =>
            /\ mediaPc'[q] \in MediaSteps => mediaPc[q] \in MediaSteps
            /\ mediaPc'[q] \in Uploading => q.op = "upload"
            /\ mediaPc'[q] \in Deleting => q.op = "delete"
      BY <2>2, <1>0 DEF OverlapInv
    <3>3. /\ mediaPc'[r] \in Uploading => r.op = "upload"
          /\ mediaPc'[r] \in Deleting => r.op = "delete"
          /\ mediaPc[r] \in MediaSteps
      BY <2>2, <3>1 DEF Uploading, Deleting, MediaSteps
    <3> QED
      BY <2>2, <3>2, <3>3, OverlapFrame
  <2>6. r.op = "delete"
    BY <2>2, <1>0 DEF OverlapInv, Uploading, Deleting
  <2>7. FoundInv'
    <3>1. r \notin tangled =>
            /\ mediaPc'[r] \in Uploading \ Counting => mediaDb'.owner[r.file] = Nobody
            /\ mediaPc'[r] \in Deleting => mediaDb'.owner[r.file] = r.owner
      BY <2>2, <2>3, <1>0 DEF FoundInv, Uploading, Deleting, Counting
    <3>2. \A q \in MediaTraffic : q.file # r.file => mediaDb'.owner[q.file] = mediaDb.owner[q.file]
      BY <2>3, <1>0
    <3> QED
      BY <2>2, <2>4, <3>1, <3>2, FoundFrame
  <2>8. FileInv'
    <3>1. ASSUME FileClean(r.file) PROVE FileAt(r.file)'
      <4>1. /\ FileAt(r.file)
            /\ \A q \in MediaTraffic : q # r /\ q.file = r.file => mediaPc'[q] \notin MediaSteps
        BY <2>2, <2>4, <3>1, <1>0, OwnFile
      <4> QED
        BY <2>1, <2>2, <2>3, <2>6, <4>1, <1>0, MediaAssumption DEF FileAt, FileFree, Pending, MediaSteps
    <3> QED
      BY <2>1, <2>2, <2>3, <3>1, FileFrame
  <2>9. \A o \in Owners : OwnerClean(o)' <=> OwnerClean(o)
    BY <2>2 DEF OwnerClean
  \* Of an owner with a clean slate r is the only request at work.
  <2>10. ASSUME OwnerClean(r.owner)
         PROVE  /\ r \notin tangled /\ QuotaOf(r.owner)
                /\ \A q \in MediaTraffic : q # r /\ q.owner = r.owner => mediaPc'[q] \notin MediaSteps
                /\ \A q \in MediaTraffic : q # r /\ mediaPc[q] \in MediaSteps => q.file # r.file
    BY <2>2, <2>4, <2>10, <1>0, Alone DEF OwnerClean, OwnerInv, Pending
  <2>11. ASSUME OwnerClean(r.owner) PROVE QuotaOf(r.owner)'
    <3>1. FilesOf(mediaDb, r.owner)' = FilesOf(mediaDb, r.owner)
      BY <2>3 DEF FilesOf
    <3>2. mediaDb.used[r.owner] = Cardinality(FilesOf(mediaDb, r.owner))
      <4>1. \A q \in MediaTraffic : q # r /\ q.owner = r.owner => mediaPc[q] \notin Counting
        BY <2>2, <2>10, <2>11 DEF MediaSteps, Counting
      <4> QED
        BY <2>2, <2>10, <2>11, <4>1 DEF QuotaOf, Counting
    <3>3. Cardinality(FilesOf(mediaDb, r.owner)) \in Nat
      BY <1>0, HeldFinite
    <3>4. mediaDb'.used[r.owner] = Cardinality(FilesOf(mediaDb, r.owner)) - 1
      BY <2>3, <3>2, <3>3
    <3>5. \A q \in MediaTraffic : q.owner # r.owner /\ mediaPc'[q] \in Deleting =>
                                    mediaDb'.owner[q.file] # r.owner
      BY <2>2, <2>3, <2>10, <2>11 DEF QuotaOf
    <3>6. \A q \in MediaTraffic : q # r /\ q.owner = r.owner => mediaPc'[q] \notin Counting
      BY <2>10, <2>11 DEF MediaSteps, Counting
    <3> QED
      BY <2>2, <3>1, <3>4, <3>5, <3>6 DEF QuotaOf, Counting, Writing
  <2>12. ASSUME NEW o \in Owners, o # r.owner, OwnerClean(o) PROVE QuotaOf(o)'
    <3>1. QuotaOf(o)
      BY <2>12, <1>0 DEF OwnerInv
    <3>2. mediaPc'[r] \in Deleting => mediaPc[r] \in Deleting
      BY <2>2 DEF Deleting
    <3>3. mediaDb'.used[o] = mediaDb.used[o]
      BY <2>3, <2>12
    <3>4. \A f \in Files : mediaDb'.owner[f] # mediaDb.owner[f] =>
            mediaDb'.owner[f] # o /\ mediaDb.owner[f] # o
      BY <2>3, <2>12, <1>0, MediaAssumption
    <3> QED
      BY <2>1, <2>2, <2>12, <3>1, <3>2, <3>3, <3>4, <1>0, QuotaFrame
  <2>13. OwnerInv'
    BY <2>9, <2>11, <2>12, <1>0 DEF OwnerInv
  <2>14. FewFiles'
    BY <2>1, <2>3, <1>0 DEF FewFiles, Written
  <2> QED
    BY <2>4, <2>5, <2>7, <2>8, <2>13, <2>14 DEF MediaInv
<1>7. ASSUME NEW r \in MediaTraffic, UploadInsert(r), mediaDb.owner[r.file] = Nobody PROVE MediaInv'
  <2>1. /\ MediaGo(r, "upload_insert", "upload_count")
        /\ mediaDb' = [mediaDb EXCEPT !.owner[r.file] = r.owner]
        /\ mediaDisk' = mediaDisk /\ files' = files
    BY <1>7 DEF UploadInsert
  <2>2. /\ mediaPc' \in [MediaTraffic -> MediaSteps \cup {"idle", "ok", "exists", "no"}]
        /\ mediaPc[r] = "upload_insert" /\ mediaPc'[r] = "upload_count"
        /\ \A q \in MediaTraffic : q # r => mediaPc'[q] = mediaPc[q]
        /\ mediaCrashes' = mediaCrashes /\ tangled' = tangled
    BY <2>1, MediaGoes DEF MediaSteps
  <2>3. /\ mediaDb'.used = mediaDb.used
        /\ mediaDb'.owner[r.file] = r.owner
        /\ \A f \in Files : f # r.file => mediaDb'.owner[f] = mediaDb.owner[f]
        /\ mediaDb' \in MediaTables
    BY <2>1, <1>0 DEF MediaTables
  <2>4. MediaTypeOK' /\ Pending(r)
    BY <2>1, <2>2, <2>3, <1>0 DEF MediaTypeOK, Pending, MediaSteps
  <2>5. OverlapInv'
    <3>1. r.op = "upload"
      BY <2>2, <1>0 DEF OverlapInv, Uploading, Deleting
    <3>2. \A q \in MediaTraffic : q # r =>
            /\ mediaPc'[q] \in MediaSteps => mediaPc[q] \in MediaSteps
            /\ mediaPc'[q] \in Uploading => q.op = "upload"
            /\ mediaPc'[q] \in Deleting => q.op = "delete"
      BY <2>2, <1>0 DEF OverlapInv
    <3>3. /\ mediaPc'[r] \in Uploading => r.op = "upload"
          /\ mediaPc'[r] \in Deleting => r.op = "delete"
          /\ mediaPc[r] \in MediaSteps
      BY <2>2, <3>1 DEF Uploading, Deleting, MediaSteps
    <3> QED
      BY <2>2, <3>2, <3>3, OverlapFrame
  <2>6. r.op = "upload"
    BY <2>2, <1>0 DEF OverlapInv, Uploading, Deleting
  <2>7. FoundInv'
    <3>1. r \notin tangled =>
            /\ mediaPc'[r] \in Uploading \ Counting => mediaDb'.owner[r.file] = Nobody
            /\ mediaPc'[r] \in Deleting => mediaDb'.owner[r.file] = r.owner
      BY <2>2, <2>3, <1>0 DEF FoundInv, Uploading, Deleting, Counting
    <3>2. \A q \in MediaTraffic : q.file # r.file => mediaDb'.owner[q.file] = mediaDb.owner[q.file]
      BY <2>3, <1>0
    <3> QED
      BY <2>2, <2>4, <3>1, <3>2, FoundFrame
  <2>8. FileInv'
    <3>1. ASSUME FileClean(r.file) PROVE FileAt(r.file)'
      <4>1. /\ FileAt(r.file)
            /\ \A q \in MediaTraffic : q # r /\ q.file = r.file => mediaPc'[q] \notin MediaSteps
        BY <2>2, <2>4, <3>1, <1>0, OwnFile
      <4> QED
        BY <2>1, <2>2, <2>3, <2>6, <4>1, <1>0, MediaAssumption DEF FileAt, FileFree, Pending, MediaSteps
    <3> QED
      BY <2>1, <2>2, <2>3, <3>1, FileFrame
  <2>9. \A o \in Owners : OwnerClean(o)' <=> OwnerClean(o)
    BY <2>2 DEF OwnerClean
  \* Of an owner with a clean slate r is the only request at work.
  <2>10. ASSUME OwnerClean(r.owner)
         PROVE  /\ r \notin tangled /\ QuotaOf(r.owner)
                /\ \A q \in MediaTraffic : q # r /\ q.owner = r.owner => mediaPc'[q] \notin MediaSteps
                /\ \A q \in MediaTraffic : q # r /\ mediaPc[q] \in MediaSteps => q.file # r.file
    BY <2>2, <2>4, <2>10, <1>0, Alone DEF OwnerClean, OwnerInv, Pending
  <2>11. ASSUME OwnerClean(r.owner) PROVE QuotaOf(r.owner)'
    <3>1. FilesOf(mediaDb, r.owner)' = FilesOf(mediaDb, r.owner) \cup {r.file}
      BY <2>3, <2>10, <2>11, <1>0, MediaAssumption DEF FilesOf, FoundInv, Deleting
    <3>2. mediaDb.used[r.owner] = Cardinality(FilesOf(mediaDb, r.owner))
      <4>1. \A q \in MediaTraffic : q # r /\ q.owner = r.owner => mediaPc[q] \notin Counting
        BY <2>2, <2>10, <2>11 DEF MediaSteps, Counting
      <4> QED
        BY <2>2, <2>10, <2>11, <4>1 DEF QuotaOf, Counting
    <3>3. /\ IsFiniteSet(FilesOf(mediaDb, r.owner)) /\ Cardinality(FilesOf(mediaDb, r.owner)) \in Nat
          /\ Cardinality(FilesOf(mediaDb, r.owner)') = Cardinality(FilesOf(mediaDb, r.owner)) + 1
      <4>1. r.file \notin FilesOf(mediaDb, r.owner)
        BY <1>7, <1>0, MediaAssumption DEF FilesOf
      <4> QED
        BY <3>1, <4>1, <1>0, HeldFinite, FS_AddElement
    <3>4. mediaDb'.used[r.owner] = Cardinality(FilesOf(mediaDb, r.owner)') - 1
      BY <2>3, <3>2, <3>3
    <3>5. \A q \in MediaTraffic : q.owner # r.owner /\ mediaPc'[q] \in Deleting =>
                                    mediaDb'.owner[q.file] # r.owner
      <4>1. \A q \in MediaTraffic : q.owner # r.owner /\ mediaPc'[q] \in Deleting =>
              /\ q.file # r.file /\ mediaDb.owner[q.file] # r.owner
        BY <2>2, <2>10, <2>11 DEF QuotaOf, Deleting, MediaSteps
      <4> QED
        BY <2>3, <4>1, <1>0
    <3>6. \A q \in MediaTraffic : q # r /\ q.owner = r.owner => mediaPc'[q] \notin Counting
      BY <2>10, <2>11 DEF MediaSteps, Counting
    <3> QED
      BY <2>2, <3>4, <3>5, <3>6 DEF QuotaOf, Counting, Writing
  <2>12. ASSUME NEW o \in Owners, o # r.owner, OwnerClean(o) PROVE QuotaOf(o)'
    <3>1. QuotaOf(o)
      BY <2>12, <1>0 DEF OwnerInv
    <3>2. mediaPc'[r] \in Deleting => mediaPc[r] \in Deleting
      BY <2>2 DEF Deleting
    <3>3. mediaDb'.used[o] = mediaDb.used[o]
      BY <2>3, <2>12
    <3>4. \A f \in Files : mediaDb'.owner[f] # mediaDb.owner[f] =>
            mediaDb'.owner[f] # o /\ mediaDb.owner[f] # o
      BY <2>3, <2>12, <1>0, <1>7, MediaAssumption
    <3> QED
      BY <2>1, <2>2, <2>12, <3>1, <3>2, <3>3, <3>4, <1>0, QuotaFrame
  <2>13. OwnerInv'
    BY <2>9, <2>11, <2>12, <1>0 DEF OwnerInv
  <2>14. FewFiles'
    <3>1. Written(mediaDb)' \subseteq Written(mediaDb) \cup {r.file}
      BY <2>3 DEF Written
    <3>2. IsFiniteSet(Written(mediaDb) \cup {r.file})
      BY <1>0, FS_AddElement DEF FewFiles
    <3> QED
      BY <2>1, <3>1, <3>2, <1>0, FS_Subset DEF FewFiles, Written
  <2> QED
    BY <2>4, <2>5, <2>7, <2>8, <2>13, <2>14 DEF MediaInv
<1>8. ASSUME NEW r \in MediaTraffic, DeleteRow(r) PROVE MediaInv'
  <2>1. /\ MediaGo(r, "delete_row", "commit")
        /\ mediaDb' = [mediaDb EXCEPT !.owner[r.file] = Nobody]
        /\ mediaDisk' = mediaDisk /\ files' = files
    BY <1>8 DEF DeleteRow
  <2>2. /\ mediaPc' \in [MediaTraffic -> MediaSteps \cup {"idle", "ok", "exists", "no"}]
        /\ mediaPc[r] = "delete_row" /\ mediaPc'[r] = "commit"
        /\ \A q \in MediaTraffic : q # r => mediaPc'[q] = mediaPc[q]
        /\ mediaCrashes' = mediaCrashes /\ tangled' = tangled
    BY <2>1, MediaGoes DEF MediaSteps
  <2>3. /\ mediaDb'.used = mediaDb.used
        /\ mediaDb'.owner[r.file] = Nobody
        /\ \A f \in Files : f # r.file => mediaDb'.owner[f] = mediaDb.owner[f]
        /\ mediaDb' \in MediaTables
    BY <2>1, <1>0 DEF MediaTables
  <2>4. MediaTypeOK' /\ Pending(r)
    BY <2>1, <2>2, <2>3, <1>0 DEF MediaTypeOK, Pending, MediaSteps
  <2>5. OverlapInv'
    <3>1. r.op = "delete"
      BY <2>2, <1>0 DEF OverlapInv, Uploading, Deleting
    <3>2. \A q \in MediaTraffic : q # r =>
            /\ mediaPc'[q] \in MediaSteps => mediaPc[q] \in MediaSteps
            /\ mediaPc'[q] \in Uploading => q.op = "upload"
            /\ mediaPc'[q] \in Deleting => q.op = "delete"
      BY <2>2, <1>0 DEF OverlapInv
    <3>3. /\ mediaPc'[r] \in Uploading => r.op = "upload"
          /\ mediaPc'[r] \in Deleting => r.op = "delete"
          /\ mediaPc[r] \in MediaSteps
      BY <2>2, <3>1 DEF Uploading, Deleting, MediaSteps
    <3> QED
      BY <2>2, <3>2, <3>3, OverlapFrame
  <2>6. r.op = "delete"
    BY <2>2, <1>0 DEF OverlapInv, Uploading, Deleting
  <2>7. FoundInv'
    <3>1. r \notin tangled =>
            /\ mediaPc'[r] \in Uploading \ Counting => mediaDb'.owner[r.file] = Nobody
            /\ mediaPc'[r] \in Deleting => mediaDb'.owner[r.file] = r.owner
      BY <2>2, <2>3, <1>0 DEF FoundInv, Uploading, Deleting, Counting
    <3>2. \A q \in MediaTraffic : q.file # r.file => mediaDb'.owner[q.file] = mediaDb.owner[q.file]
      BY <2>3, <1>0
    <3> QED
      BY <2>2, <2>4, <3>1, <3>2, FoundFrame
  <2>8. FileInv'
    <3>1. ASSUME FileClean(r.file) PROVE FileAt(r.file)'
      <4>1. /\ FileAt(r.file)
            /\ \A q \in MediaTraffic : q # r /\ q.file = r.file => mediaPc'[q] \notin MediaSteps
        BY <2>2, <2>4, <3>1, <1>0, OwnFile
      <4> QED
        BY <2>1, <2>2, <2>3, <2>6, <4>1, <1>0, MediaAssumption DEF FileAt, FileFree, Pending, MediaSteps
    <3> QED
      BY <2>1, <2>2, <2>3, <3>1, FileFrame
  <2>9. \A o \in Owners : OwnerClean(o)' <=> OwnerClean(o)
    BY <2>2 DEF OwnerClean
  \* Of an owner with a clean slate r is the only request at work.
  <2>10. ASSUME OwnerClean(r.owner)
         PROVE  /\ r \notin tangled /\ QuotaOf(r.owner)
                /\ \A q \in MediaTraffic : q # r /\ q.owner = r.owner => mediaPc'[q] \notin MediaSteps
                /\ \A q \in MediaTraffic : q # r /\ mediaPc[q] \in MediaSteps => q.file # r.file
    BY <2>2, <2>4, <2>10, <1>0, Alone DEF OwnerClean, OwnerInv, Pending
  <2>11. ASSUME OwnerClean(r.owner) PROVE QuotaOf(r.owner)'
    <3>1. FilesOf(mediaDb, r.owner)' = FilesOf(mediaDb, r.owner) \ {r.file}
      BY <2>3, <2>10, <2>11, <1>0, MediaAssumption DEF FilesOf, FoundInv, Deleting
    <3>2. mediaDb.used[r.owner] = Cardinality(FilesOf(mediaDb, r.owner)) - 1
      <4>1. \A q \in MediaTraffic : q # r /\ q.owner = r.owner => mediaPc[q] \notin Counting
        BY <2>2, <2>10, <2>11 DEF MediaSteps, Counting
      <4> QED
        BY <2>2, <2>10, <2>11, <4>1 DEF QuotaOf, Counting
    <3>3. /\ IsFiniteSet(FilesOf(mediaDb, r.owner)) /\ Cardinality(FilesOf(mediaDb, r.owner)) \in Nat
          /\ Cardinality(FilesOf(mediaDb, r.owner)') = Cardinality(FilesOf(mediaDb, r.owner)) - 1
      <4>1. r.file \in FilesOf(mediaDb, r.owner)
        BY <2>2, <2>10, <2>11, <1>0 DEF FilesOf, FoundInv, Deleting
      <4> QED
        BY <3>1, <4>1, <1>0, HeldFinite, FS_RemoveElement
    <3>4. mediaDb'.used[r.owner] = Cardinality(FilesOf(mediaDb, r.owner)')
      BY <2>3, <3>2, <3>3
    <3>5. \A q \in MediaTraffic : q.owner # r.owner /\ mediaPc'[q] \in Deleting =>
                                    mediaDb'.owner[q.file] # r.owner
      <4>1. \A q \in MediaTraffic : q.owner # r.owner /\ mediaPc'[q] \in Deleting =>
              /\ q.file # r.file /\ mediaDb.owner[q.file] # r.owner
        BY <2>2, <2>10, <2>11 DEF QuotaOf, Deleting, MediaSteps
      <4> QED
        BY <2>3, <4>1, <1>0
    <3>6. \A q \in MediaTraffic : q # r /\ q.owner = r.owner => mediaPc'[q] \notin Counting
      BY <2>10, <2>11 DEF MediaSteps, Counting
    <3> QED
      BY <2>2, <3>4, <3>5, <3>6 DEF QuotaOf, Counting, Writing
  <2>12. ASSUME NEW o \in Owners, o # r.owner, OwnerClean(o) PROVE QuotaOf(o)'
    <3>1. QuotaOf(o)
      BY <2>12, <1>0 DEF OwnerInv
    <3>2. mediaPc'[r] \in Deleting => mediaPc[r] \in Deleting
      BY <2>2 DEF Deleting
    <3>3. mediaDb'.used[o] = mediaDb.used[o]
      BY <2>3, <2>12
    <3>4. \A f \in Files : mediaDb'.owner[f] # mediaDb.owner[f] =>
            mediaDb'.owner[f] # o /\ mediaDb.owner[f] # o
      <4>1. mediaDb.owner[r.file] # o
        BY <2>2, <2>12, <3>1 DEF QuotaOf, Deleting
      <4> QED
        BY <2>3, <2>12, <4>1, <1>0, MediaAssumption
    <3> QED
      BY <2>1, <2>2, <2>12, <3>1, <3>2, <3>3, <3>4, <1>0, QuotaFrame
  <2>13. OwnerInv'
    BY <2>9, <2>11, <2>12, <1>0 DEF OwnerInv
  <2>14. FewFiles'
    <3>1. Written(mediaDb)' \subseteq Written(mediaDb) \cup {r.file}
      BY <2>3 DEF Written
    <3>2. IsFiniteSet(Written(mediaDb) \cup {r.file})
      BY <1>0, FS_AddElement DEF FewFiles
    <3> QED
      BY <2>1, <3>1, <3>2, <1>0, FS_Subset DEF FewFiles, Written
  <2> QED
    BY <2>4, <2>5, <2>7, <2>8, <2>13, <2>14 DEF MediaInv
<1>9. ASSUME NEW r \in MediaTraffic, MediaCommit(r) PROVE MediaInv'
  <2>1. /\ MediaGo(r, "commit", "ok") /\ mediaDisk' = mediaDb
        /\ mediaDb' = mediaDb /\ files' = files
    BY <1>9 DEF MediaCommit
  <2>2. /\ mediaPc' \in [MediaTraffic -> MediaSteps \cup {"idle", "ok", "exists", "no"}]
        /\ mediaPc[r] = "commit" /\ mediaPc'[r] = "ok"
        /\ \A q \in MediaTraffic : q # r => mediaPc'[q] = mediaPc[q]
        /\ mediaCrashes' = mediaCrashes /\ tangled' = tangled
    BY <2>1, MediaGoes DEF MediaSteps
  <2>3. MediaTypeOK' /\ Pending(r)
    BY <2>1, <2>2, <1>0 DEF MediaTypeOK, Pending, MediaSteps
  <2>4. OverlapInv'
    <3>1. mediaPc'[r] \notin Uploading \cup Deleting /\ mediaPc[r] \in MediaSteps
      BY <2>2 DEF Uploading, Deleting, MediaSteps
    <3>2. \A q \in MediaTraffic : q # r =>
            /\ mediaPc'[q] \in Uploading => q.op = "upload"
            /\ mediaPc'[q] \in Deleting => q.op = "delete"
      BY <2>2, <1>0 DEF OverlapInv
    <3> QED
      BY <2>2, <3>1, <3>2, OverlapFrame
  <2>5. FoundInv'
    <3>1. mediaPc'[r] \notin Uploading \cup Deleting
      BY <2>2 DEF Uploading, Deleting
    <3> QED
      BY <2>1, <2>2, <2>3, <3>1, FoundFrame
  <2>6. FileInv'
    <3>1. ASSUME FileClean(r.file) PROVE FileAt(r.file)'
      <4>1. /\ FileAt(r.file)
            /\ \A q \in MediaTraffic : q # r /\ q.file = r.file => mediaPc'[q] \notin MediaSteps
        BY <2>2, <2>3, <3>1, <1>0, OwnFile
      <4> QED
        BY <2>1, <2>2, <4>1, <1>0 DEF FileAt, FileFree, Pending, MediaSteps
    <3> QED
      BY <2>1, <2>2, <3>1, FileFrame
  <2>7. OwnerInv'
    <3> SUFFICES ASSUME NEW o \in Owners, OwnerClean(o)' PROVE QuotaOf(o)'
      BY DEF OwnerInv
    <3>1. QuotaOf(o)
      BY <2>2, <1>0 DEF OwnerInv, OwnerClean
    <3>2. /\ \A q \in MediaTraffic : mediaPc'[q] \in Deleting => mediaPc[q] \in Deleting
          /\ \A q \in MediaTraffic : mediaPc'[q] \in Counting <=> mediaPc[q] \in Counting
      BY <2>2 DEF Deleting, Counting
    <3>3. FilesOf(mediaDb, o)' = FilesOf(mediaDb, o) /\ FilesOf(mediaDisk, o)' = FilesOf(mediaDb, o)
      BY <2>1 DEF FilesOf
    <3> QED
      BY <2>1, <3>1, <3>2, <3>3 DEF QuotaOf
  <2>8. FewFiles'
    BY <2>1, <1>0 DEF FewFiles, Written
  <2> QED
    BY <2>3, <2>4, <2>5, <2>6, <2>7, <2>8 DEF MediaInv
<1>10. ASSUME NEW r \in MediaTraffic, UploadFind(r) \/ DeleteFind(r) PROVE MediaInv'
  <2> DEFINE others == {q \in MediaTraffic : Pending(q) /\ Alike(q, r)}
  <2>1. PICK to \in {"upload_quota", "exists", "delete_files", "no"} :
          /\ mediaPc[r] = "idle" /\ mediaPc' = [mediaPc EXCEPT ![r] = to]
          /\ tangled' = IF others = {} THEN tangled ELSE tangled \cup others \cup {r}
          /\ UNCHANGED <<mediaDb, mediaDisk, files, mediaCrashes>>
          /\ to = "upload_quota" => r.op = "upload" /\ mediaDb.owner[r.file] = Nobody
          /\ to = "delete_files" => r.op = "delete" /\ mediaDb.owner[r.file] = r.owner
    BY <1>10 DEF UploadFind, DeleteFind, MediaStart
  <2>2. /\ mediaPc' \in [MediaTraffic -> MediaSteps \cup {"idle", "ok", "exists", "no"}]
        /\ mediaPc'[r] = to
        /\ \A q \in MediaTraffic : q # r => mediaPc'[q] = mediaPc[q]
    BY <2>1, <1>0 DEF MediaTypeOK, MediaSteps
  <2>3. /\ tangled \subseteq tangled' /\ tangled' \subseteq MediaTraffic
        /\ others # {} => r \in tangled' /\ others \subseteq tangled'
    BY <2>1, <1>0 DEF MediaTypeOK
  <2>4. MediaTypeOK'
    BY <2>1, <2>2, <2>3, <1>0 DEF MediaTypeOK
  <2>5. OverlapInv'
    <3>1. \A q \in MediaTraffic : /\ mediaPc'[q] \in Uploading => q.op = "upload"
                                  /\ mediaPc'[q] \in Deleting => q.op = "delete"
      BY <2>1, <2>2, <1>0 DEF OverlapInv, Uploading, Deleting
    <3>2. ASSUME NEW p \in MediaTraffic, NEW q \in MediaTraffic, p # q,
                 Pending(p)', Pending(q)', Alike(p, q)
          PROVE  p \in tangled' /\ q \in tangled'
      <4>1. CASE p # r /\ q # r
        BY <2>2, <2>3, <3>2, <4>1, <1>0 DEF OverlapInv, Pending
      <4>2. CASE p = r
        <5>1. q \in others
          BY <2>2, <3>2, <4>2 DEF Pending, Alike
        <5> QED
          BY <2>3, <4>2, <5>1
      <4>3. CASE q = r
        <5>1. p \in others
          BY <2>2, <3>2, <4>3 DEF Pending, Alike
        <5> QED
          BY <2>3, <4>3, <5>1
      <4> QED
        BY <4>1, <4>2, <4>3
    <3> QED
      BY <3>1, <3>2 DEF OverlapInv, Alike
  <2>6. FoundInv'
    BY <2>1, <2>2, <2>3, <1>0 DEF FoundInv, Uploading, Deleting, Counting
  <2>7. FileInv'
    <3> SUFFICES ASSUME NEW f \in Files, FileClean(f)' PROVE FileAt(f)'
      BY DEF FileInv
    <3>1. FileAt(f)
      BY <2>3, <1>0 DEF FileInv, FileClean
    <3>2. CASE f # r.file
      <4>1. \A q \in MediaTraffic : q.file = f => mediaPc'[q] = mediaPc[q]
        BY <2>2, <3>2
      <4> QED
        BY <2>1, <3>1, <4>1 DEF FileAt, FileFree, Pending
    <3>3. CASE f = r.file
      <4>1. FileFree(f)
        <5>1. others = {}
          BY <2>3, <3>3 DEF FileClean
        <5> QED
          BY <3>3, <5>1 DEF FileFree, Alike
      <4>2. \A q \in MediaTraffic : q # r /\ q.file = f => mediaPc'[q] \notin MediaSteps
        BY <2>2, <4>1 DEF FileFree, Pending
      <4> QED
        BY <2>1, <2>2, <3>1, <3>3, <4>1, <4>2, <1>0, MediaAssumption DEF FileAt, MediaSteps
    <3> QED
      BY <3>2, <3>3
  <2>8. OwnerInv' /\ FewFiles'
    <3>1. \A q \in MediaTraffic :
           /\ mediaPc'[q] \in Deleting => mediaPc[q] \in Deleting \/ mediaDb.owner[q.file] = q.owner
           /\ mediaPc'[q] \in Counting <=> mediaPc[q] \in Counting
           /\ mediaPc'[q] \in Writing <=> mediaPc[q] \in Writing
      BY <2>1, <2>2 DEF Deleting, Counting, Writing
    <3> QED
      BY <2>1, <2>3, <3>1, OwnerFrame
  <2> QED
    BY <2>4, <2>5, <2>6, <2>7, <2>8 DEF MediaInv
<1>11. CASE MediaCrash
  <2>1. /\ mediaCrashes < MaxMediaCrashes /\ mediaCrashes' = mediaCrashes + 1
        /\ mediaDb' = mediaDisk /\ mediaDisk' = mediaDisk /\ files' = files
        /\ mediaPc' = [r \in MediaTraffic |-> IF Pending(r) THEN "no" ELSE mediaPc[r]]
        /\ tangled' = tangled \cup {r \in MediaTraffic : Pending(r)}
    BY <1>11 DEF MediaCrash
  <2>2. \A r \in MediaTraffic : /\ mediaPc'[r] \notin MediaSteps
                                /\ Pending(r) => r \in tangled'
                                /\ mediaPc'[r] \in {"no", mediaPc[r]}
    BY <2>1 DEF Pending, MediaSteps
  <2>3. MediaTypeOK'
    BY <2>1, <1>0, MediaAssumption DEF MediaTypeOK
  <2>4. OverlapInv' /\ FoundInv'
    BY <2>2 DEF OverlapInv, FoundInv, Pending, Uploading, Deleting, MediaSteps
  <2>5. FileInv'
    <3> SUFFICES ASSUME NEW f \in Files, FileClean(f)' PROVE FileAt(f)'
      BY DEF FileInv
    <3>1. FileFree(f) /\ FileAt(f)
      BY <2>1, <2>2, <1>0 DEF FileInv, FileClean, FileFree
    <3> QED
      BY <2>1, <2>2, <3>1 DEF FileAt, MediaSteps
  <2>6. OwnerInv'
    <3> SUFFICES ASSUME NEW o \in Owners, OwnerClean(o)' PROVE QuotaOf(o)'
      BY DEF OwnerInv
    <3>1. QuotaOf(o) /\ \A r \in MediaTraffic : r.owner = o => mediaPc[r] \notin MediaSteps
      BY <2>1, <2>2, <1>0 DEF OwnerInv, OwnerClean, Pending
    <3>2. /\ FilesOf(mediaDisk, o) = FilesOf(mediaDb, o) /\ mediaDisk.used[o] = mediaDb.used[o]
          /\ mediaDb.used[o] = Cardinality(FilesOf(mediaDb, o))
      BY <3>1 DEF QuotaOf, Counting, Writing, MediaSteps
    <3>3. FilesOf(mediaDb, o)' = FilesOf(mediaDisk, o) /\ FilesOf(mediaDisk, o)' = FilesOf(mediaDisk, o)
      BY <2>1 DEF FilesOf
    <3>4. \A r \in MediaTraffic : mediaPc'[r] \notin Counting \cup Writing \cup Deleting
      BY <2>2 DEF Counting, Writing, Deleting, MediaSteps
    <3> QED
      BY <2>1, <3>2, <3>3, <3>4 DEF QuotaOf
  <2>7. FewFiles'
    BY <2>1, <1>0 DEF FewFiles, Written
  <2> QED
    BY <2>3, <2>4, <2>5, <2>6, <2>7 DEF MediaInv
<1>12. CASE UNCHANGED mediaVars
  <2>1. /\ mediaDb' = mediaDb /\ mediaDisk' = mediaDisk /\ files' = files
        /\ mediaPc' = mediaPc /\ mediaCrashes' = mediaCrashes /\ tangled' = tangled
    BY <1>12 DEF mediaVars
  <2>2. MediaTypeOK' /\ OverlapInv' /\ FoundInv'
    BY <2>1, <1>0 DEF MediaTypeOK, OverlapInv, FoundInv, Pending
  <2>3. FileInv'
    BY <2>1, <1>0 DEF FileInv, FileAt, FileClean, FileFree, Pending
  <2>4. OwnerInv' /\ FewFiles'
    BY <2>1, OwnerFrame
  <2> QED
    BY <2>2, <2>3, <2>4 DEF MediaInv
<1> QED
  <2>1. \A r \in MediaTraffic : UploadInsert(r) => MediaInv'
    BY <1>3, <1>7
  <2> QED
    BY <1>1, <1>2, <1>4, <1>5, <1>6, <1>8, <1>9, <1>10, <1>11, <1>12, <2>1 DEF MediaNext
-----------------------------------------------------------------------------
(***************************************************************************)
(* Logins at the second server.                                            *)
(***************************************************************************)

\* Where a request may be.
VisitAt == {"idle", "asked", "entity", "session", "found", "keys", "write", "commit"} \cup Answers

\* What is known of a visit.
VisitState == [at : VisitAt, keys : SUBSET Devices, cut : BOOLEAN,
               met : SUBSET visits, past : SUBSET visits]

\* The types, and which request may be where.
VisitInv ==
  /\ visits \in DagTraffic
  /\ visit \in [visits -> VisitState]
  /\ userDb \in [DagUsersOf -> SUBSET Devices]
  /\ userDisk \in [DagUsersOf -> SUBSET Devices]
  /\ dagChallenge \in [DagUsersOf -> {0} \cup {v.ticket : v \in visits}]
  /\ dagCrashes \in 0 .. MaxDagCrashes
  /\ \A v \in visits :
       /\ visit[v].at = "asked" => v.op = "login"
       /\ visit[v].at \in {"entity", "session"} => v.op # "device"
       /\ visit[v].at \in {"found", "keys", "write", "commit"} => v.op = "device"

\* Requests under way at once have met; those of its past are done.
MetInv ==
  /\ \A v \in visits : visit[v].at = "idle" => visit[v].met = {}
  /\ \A v, w \in visits : v # w /\ UnderWay(v) /\ UnderWay(w) => w \in visit[v].met
  /\ \A v \in visits : v \notin visit[v].met \cup visit[v].past
  /\ \A v \in visits : \A w \in visit[v].past : visit[w].at = "ok"

\* A challenge of this ticket has been given to u.
GivenTo(u, t) ==
  \E w \in visits : w.op = "login" /\ w.user = u /\ w.ticket = t /\ visit[w].at # "idle"

\* v and w were under way at the same time.
Crossed(v, w) == v \in visit[w].met \/ w \in visit[v].met

\* Past the check of the challenge, not yet answered
Checked(v) == visit[v].at \in {"entity", "session"}

\* A challenge stands for one ticket that was given, and not for one a session has been
\* opened with; who has passed the check for such a ticket was there with the opener.
ChallengeInv ==
  /\ \A u \in DagUsersOf : dagChallenge[u] # 0 => GivenTo(u, dagChallenge[u])
  /\ \A v \in visits : Checked(v) => GivenTo(v.user, v.ticket)
  /\ \A s \in dagSessions :
       /\ s.visit \in visits /\ s = [user |-> s.visit.user, visit |-> s.visit]
       /\ s.visit.op # "device" /\ visit[s.visit].at \in {"ok", "raised"}
       /\ GivenTo(s.user, s.visit.ticket)
       /\ dagChallenge[s.user] # s.visit.ticket
       /\ \A v \in visits : Checked(v) /\ v.user = s.user /\ v.ticket = s.visit.ticket =>
                              Crossed(v, s.visit)
  /\ OneSessionAChallenge

\* The key of a device added alone is in the row, and in what was read of the row since.
KeysInv ==
  \A v \in visits : v.op = "device" /\ AddedAlone(v) =>
    /\ visit[v].at \in {"commit", "ok"} => v.key \in userDb[v.user]
    /\ visit[v].at = "ok" =>
         /\ v.key \in userDisk[v.user]
         /\ \A w \in visits : w # v /\ visit[w].at = "write" /\ w.user = v.user =>
                                v.key \in visit[w].keys
         /\ \A w \in visits : visit[w].at = "session" /\ v \in visit[w].past /\ w.user = v.user =>
                                v.key \in visit[w].keys

\* Another login, or an answer sent again, met v.
Disturbed(v) == \E w \in visit[v].met : w.op # "device" /\ w.user = v.user

\* A login that nobody disturbed and no crash cut has its challenge.
LoginInv ==
  /\ \A v \in visits :
       v.op = "login" /\ visit[v].at \in {"asked", "entity", "session"} /\ ~visit[v].cut =>
         Disturbed(v) \/ dagChallenge[v.user] = v.ticket
  /\ RightKeysLogIn

\* What the second server keeps of its logins.
DagUsersInv == VisitInv /\ MetInv /\ ChallengeInv /\ KeysInv /\ LoginInv

\* v alone has gone on; all others are where they were, and nobody forgets whom they met.
Only(v) ==
  /\ visits' = visits
  /\ \A w \in visits : visit[w].met \subseteq visit'[w].met /\ visit'[w].cut = visit[w].cut
  /\ \A w \in visits : w # v =>
       /\ visit'[w].at = visit[w].at /\ visit'[w].keys = visit[w].keys
       /\ visit'[w].past = visit[w].past
  /\ visit[v].at \notin Answers /\ visit'[v].at # "idle"

\* v's clause of RightKeysLogIn
LetIn(v) ==
  /\ v.op = "login" /\ visit[v].at \in {"refused", "raised"}
  /\ \/ v.key = "root"
     \/ \E w \in visit[v].past : w.op = "device" /\ w.user = v.user /\ w.key = v.key
                                  /\ AddedAlone(w)
  => visit[v].cut \/ Disturbed(v)

\* That of all of them
AllLetIn == \A v \in visits : LetIn(v)

\* RightKeysLogIn, visit by visit.
LEMMA LetInAll == RightKeysLogIn <=> AllLetIn
  BY DEF RightKeysLogIn, AllLetIn, LetIn, Disturbed

\* The first step of a visit: whom it meets, and who meets it.
LEMMA VisitEnters ==
  ASSUME VisitInv, MetInv, NEW v \in visits, NEW to \in VisitAt, Enters(v, to), to # "idle"
  PROVE  /\ Only(v) /\ dagCrashes' = dagCrashes
         /\ visit' \in [visits -> VisitState]
         /\ visit[v].at = "idle" /\ visit'[v].at = to /\ visit'[v].keys = visit[v].keys
         /\ visit'[v].met = {x \in visits : UnderWay(x)}
         /\ visit'[v].past = {x \in visits : visit[x].at = "ok"}
         /\ \A w \in visits : w # v =>
              /\ visit'[w].met \subseteq visit[w].met \cup {v}
              /\ UnderWay(w) /\ to \notin Answers => v \in visit'[w].met
              /\ ~UnderWay(w) => visit'[w].met = visit[w].met
<1> DEFINE met  == {x \in visits : UnderWay(x)}
           past == {x \in visits : visit[x].at = "ok"}
<1>1. /\ visits' = visits /\ dagCrashes' = dagCrashes /\ visit[v].at = "idle"
      /\ visit' = [w \in visits |->
           IF w = v THEN [visit[v] EXCEPT !.at = to, !.met = met, !.past = past]
           ELSE IF UnderWay(w) /\ to \notin Answers THEN [visit[w] EXCEPT !.met = @ \cup {v}]
           ELSE visit[w]]
  BY DEF Enters
<1>2. met \subseteq visits /\ past \subseteq visits
  OBVIOUS
<1> HIDE DEF met, past
<1>3. \A w \in visits : visit[w] \in VisitState
  BY DEF VisitInv
<1>4. visit'[v] = [visit[v] EXCEPT !.at = to, !.met = met, !.past = past]
  BY <1>1
<1>5. /\ visit'[v] \in VisitState
      /\ visit'[v].at = to /\ visit'[v].keys = visit[v].keys /\ visit'[v].cut = visit[v].cut
      /\ visit'[v].met = met /\ visit'[v].past = past
  BY <1>2, <1>3, <1>4 DEF VisitState
<1>6. ASSUME NEW w \in visits, w # v
      PROVE  /\ visit'[w] \in VisitState
             /\ visit'[w].at = visit[w].at /\ visit'[w].keys = visit[w].keys
             /\ visit'[w].cut = visit[w].cut /\ visit'[w].past = visit[w].past
             /\ visit[w].met \subseteq visit'[w].met
             /\ visit'[w].met \subseteq visit[w].met \cup {v}
             /\ UnderWay(w) /\ to \notin Answers => v \in visit'[w].met
             /\ ~UnderWay(w) => visit'[w].met = visit[w].met
  <2>1. CASE UnderWay(w) /\ to \notin Answers
    <3>1. visit'[w] = [visit[w] EXCEPT !.met = @ \cup {v}]
      BY <1>1, <1>6, <2>1
    <3> QED
      BY <1>3, <1>6, <2>1, <3>1 DEF VisitState
  <2>2. CASE ~(UnderWay(w) /\ to \notin Answers)
    <3>1. visit'[w] = visit[w]
      BY <1>1, <1>6, <2>2
    <3> QED
      BY <1>3, <1>6, <2>2, <3>1
  <2> QED
    BY <2>1, <2>2
<1>7. visit[v].met = {}
  BY <1>1 DEF MetInv
<1>8. visit' \in [visits -> VisitState]
  BY <1>1, <1>5, <1>6
<1> QED
  BY <1>1, <1>5, <1>6, <1>7, <1>8 DEF Only, Answers, met, past

\* A further step of a visit; what it knows of others stays.
GoesOn(v, from, to) ==
  /\ Only(v) /\ dagCrashes' = dagCrashes
  /\ visit' \in [visits -> VisitState]
  /\ visit[v].at = from /\ visit'[v].at = to
  /\ visit'[v].past = visit[v].past
  /\ \A w \in visits : visit'[w].met = visit[w].met

\* A step that reads the row brings its keys along.
LEMMA VisitReads ==
  ASSUME VisitInv, NEW v \in visits, NEW from \in VisitAt \ Answers,
         NEW to \in VisitAt \ {"idle"}, ReadEntity(v, from, to)
  PROVE  GoesOn(v, from, to) /\ visit'[v].keys = userDb[v.user]
<1>1. \A w \in visits : visit[w] \in VisitState
  BY DEF VisitInv
<1>2. userDb[v.user] \in SUBSET Devices
  BY DEF VisitInv, DagUsersOf
<1>3. /\ visit[v].at = from /\ visits' = visits /\ dagCrashes' = dagCrashes
      /\ visit' = [visit EXCEPT ![v] = [visit[v] EXCEPT !.at = to, !.keys = userDb[v.user]]]
  BY <1>1 DEF VisitInv, ReadEntity
<1>4. visit'[v] = [visit[v] EXCEPT !.at = to, !.keys = userDb[v.user]]
  BY <1>3 DEF VisitInv
<1>5. /\ visit'[v].at = to /\ visit'[v].keys = userDb[v.user] /\ visit'[v].cut = visit[v].cut
      /\ visit'[v].met = visit[v].met /\ visit'[v].past = visit[v].past
  BY <1>1, <1>4 DEF VisitState
<1>6. visit'[v] \in VisitState
  BY <1>1, <1>2, <1>4 DEF VisitState
<1>7. \A w \in visits : w # v => visit'[w] = visit[w]
  BY <1>3 DEF VisitInv
<1>8. visit' \in [visits -> VisitState]
  BY <1>1, <1>3, <1>6, <1>7 DEF VisitInv
<1> QED
  BY <1>3, <1>5, <1>7, <1>8 DEF GoesOn, Only

\* Any other step leaves the keys it has read.
LEMMA VisitMoves ==
  ASSUME VisitInv, NEW v \in visits, NEW from \in VisitAt \ Answers,
         NEW to \in VisitAt \ {"idle"}, Moves(v, from, to)
  PROVE  GoesOn(v, from, to) /\ visit'[v].keys = visit[v].keys
<1>1. \A w \in visits : visit[w] \in VisitState
  BY DEF VisitInv
<1>2. /\ visit[v].at = from /\ visits' = visits /\ dagCrashes' = dagCrashes
      /\ visit' = [visit EXCEPT ![v] = [visit[v] EXCEPT !.at = to]]
  BY <1>1 DEF VisitInv, Moves
<1>3. visit'[v] = [visit[v] EXCEPT !.at = to]
  BY <1>2 DEF VisitInv
<1>4. /\ visit'[v] \in VisitState
      /\ visit'[v].at = to /\ visit'[v].keys = visit[v].keys /\ visit'[v].cut = visit[v].cut
      /\ visit'[v].met = visit[v].met /\ visit'[v].past = visit[v].past
  BY <1>1, <1>3 DEF VisitState
<1>5. \A w \in visits : w # v => visit'[w] = visit[w]
  BY <1>2 DEF VisitInv
<1>6. visit' \in [visits -> VisitState]
  BY <1>1, <1>2, <1>4, <1>5 DEF VisitInv
<1> QED
  BY <1>2, <1>4, <1>5, <1>6 DEF GoesOn, Only

-----------------------------------------------------------------------------
\* Who was added alone, seen from a later state, was so before.
LEMMA AloneBefore ==
  ASSUME visits' = visits, \A w \in visits : visit[w].met \subseteq visit'[w].met,
         NEW v \in visits, AddedAlone(v)'
  PROVE  AddedAlone(v)
  BY DEF AddedAlone

\* Meetings, when v begins.
LEMMA MetEnters ==
  ASSUME VisitInv, MetInv, NEW v \in visits, NEW to \in VisitAt, Enters(v, to), to # "idle"
  PROVE  MetInv'
<1>1. /\ Only(v) /\ visit[v].at = "idle" /\ visit'[v].at = to
      /\ visit'[v].met = {x \in visits : UnderWay(x)}
      /\ visit'[v].past = {x \in visits : visit[x].at = "ok"}
      /\ \A w \in visits : w # v =>
              /\ visit'[w].met \subseteq visit[w].met \cup {v}
              /\ UnderWay(w) /\ to \notin Answers => v \in visit'[w].met
              /\ ~UnderWay(w) => visit'[w].met = visit[w].met
  BY VisitEnters
<1>2. \A w \in visits : visit'[w].at = "idle" => visit'[w].met = {}
  BY <1>1 DEF MetInv, Only, UnderWay
<1>3. ASSUME NEW x \in visits, NEW y \in visits, x # y, UnderWay(x)', UnderWay(y)'
      PROVE  y \in visit'[x].met
  BY <1>1, <1>3 DEF MetInv, Only, UnderWay
<1>4. \A w \in visits : w \notin visit'[w].met \cup visit'[w].past
  BY <1>1 DEF MetInv, Only, UnderWay
<1>5. \A w \in visits : \A x \in visit'[w].past : visit'[x].at = "ok"
  <2>1. ASSUME NEW w \in visits, NEW x \in visit'[w].past PROVE visit'[x].at = "ok"
    <3>1. x \in visits /\ visit[x].at = "ok"
      BY <1>1, <2>1 DEF VisitInv, VisitState, MetInv, Only
    <3> QED
      BY <1>1, <3>1 DEF Only
  <2> QED
    BY <2>1
<1> QED
  BY <1>1, <1>2, <1>3, <1>4, <1>5 DEF MetInv, Only

\* Meetings, when v goes on.
LEMMA MetGoes ==
  ASSUME VisitInv, MetInv, NEW v \in visits, NEW from \in VisitAt \ (Answers \cup {"idle"}),
         NEW to \in VisitAt \ {"idle"}, GoesOn(v, from, to)
  PROVE  MetInv'
<1>1. \A w \in visits : /\ UnderWay(w)' => UnderWay(w)
                        /\ visit'[w].at = "idle" => visit[w].at = "idle"
                        /\ visit[w].at = "ok" => visit'[w].at = "ok"
                        /\ visit'[w].met = visit[w].met /\ visit'[w].past = visit[w].past
                        /\ visit[w].past \subseteq visits
  BY DEF GoesOn, Only, UnderWay, Answers, VisitInv, VisitState
<1> QED
  BY <1>1 DEF MetInv, GoesOn, Only

\* A step that neither checks a challenge nor touches one, nor a session.
LEMMA ChallengeFrame ==
  ASSUME ChallengeInv, NEW v \in visits, Only(v), Checked(v)' => Checked(v),
         dagChallenge' = dagChallenge, dagSessions' = dagSessions
  PROVE  ChallengeInv'
<1>1. \A u, t : GivenTo(u, t) => GivenTo(u, t)'
  BY DEF GivenTo, Only
<1>2. \A w \in visits : Checked(w)' => Checked(w)
  BY DEF Only, Checked
<1>3. \A w, x \in visits : Crossed(w, x) => Crossed(w, x)'
  BY DEF Crossed, Only
<1>4. \A w \in visits : visit[w].at \in {"ok", "raised"} => visit'[w].at = visit[w].at
  BY DEF Only, Answers
<1>5. OneSessionAChallenge'
  BY DEF ChallengeInv, OneSessionAChallenge, Only
<1> QED
  BY <1>1, <1>2, <1>3, <1>4, <1>5 DEF ChallengeInv, Only

\* A step that neither writes the row nor reads it for good.
LEMMA KeysFrame ==
  ASSUME KeysInv, NEW v \in visits, Only(v), userDb' = userDb, userDisk' = userDisk,
         v.op = "device" => visit'[v].at \notin {"commit", "ok"},
         visit'[v].at \notin {"write", "session"}
  PROVE  KeysInv'
<1> SUFFICES ASSUME NEW x \in visits, x.op = "device", AddedAlone(x)'
             PROVE  /\ visit'[x].at \in {"commit", "ok"} => x.key \in userDb[x.user]
                    /\ visit'[x].at = "ok" =>
                         /\ x.key \in userDisk[x.user]
                         /\ \A w \in visits : w # x /\ visit'[w].at = "write" /\ w.user = x.user =>
                                                x.key \in visit'[w].keys
                         /\ \A w \in visits : visit'[w].at = "session" /\ x \in visit'[w].past
                                                /\ w.user = x.user => x.key \in visit'[w].keys
  BY DEF KeysInv, Only
<1>1. AddedAlone(x)
  BY AloneBefore DEF Only
<1> QED
  BY <1>1 DEF KeysInv, Only

\* A step after which every login at work still has its challenge, or met another.
LEMMA LoginFrame ==
  ASSUME VisitInv, LoginInv, NEW v \in visits, Only(v), LetIn(v)',
         v.op = "login" /\ visit'[v].at \in {"asked", "entity", "session"} /\ ~visit'[v].cut =>
           Disturbed(v)' \/ dagChallenge'[v.user] = v.ticket,
         \A w \in visits : w # v /\ w.op = "login" /\ visit[w].at \in {"asked", "entity", "session"} =>
           Disturbed(w)' \/ dagChallenge'[w.user] = dagChallenge[w.user]
  PROVE  LoginInv'
<1>1. \A w \in visits : Disturbed(w) => Disturbed(w)'
  BY DEF Disturbed, Only
<1>2. ASSUME NEW w \in visits, w # v PROVE LetIn(w)'
  <2>1. LetIn(w)
    BY LetInAll DEF LoginInv, AllLetIn
  <2>2. \A x \in visits : AddedAlone(x)' => AddedAlone(x)
    BY AloneBefore DEF Only
  <2>3. visit'[w].past = visit[w].past /\ visit'[w].at = visit[w].at /\ visit'[w].cut = visit[w].cut
    BY <1>2 DEF Only
  <2>4. visit[w].past \subseteq visits
    BY DEF VisitInv, VisitState
  <2> QED
    BY <1>1, <2>1, <2>2, <2>3, <2>4 DEF LetIn
<1>3. RightKeysLogIn'
  <2>1. AllLetIn'
    BY <1>2 DEF Only, AllLetIn
  <2> QED
    BY <2>1, LetInAll, PTL
<1>4. \A w \in visits : w # v /\ w.op = "login" /\ visit'[w].at \in {"asked", "entity", "session"}
                          /\ ~visit'[w].cut => Disturbed(w)' \/ dagChallenge'[w.user] = w.ticket
  BY <1>1 DEF LoginInv, Only
<1> QED
  BY <1>3, <1>4 DEF LoginInv, Only
\* The types, when only v has gone on.
LEMMA VisitFrame ==
  ASSUME VisitInv, NEW v \in visits, Only(v), dagCrashes' = dagCrashes,
         visit' \in [visits -> VisitState],
         userDb' \in [DagUsersOf -> SUBSET Devices], userDisk' \in [DagUsersOf -> SUBSET Devices],
         dagChallenge' \in [DagUsersOf -> {0} \cup {w.ticket : w \in visits}],
         visit'[v].at = "asked" => v.op = "login",
         visit'[v].at \in {"entity", "session"} => v.op # "device",
         visit'[v].at \in {"found", "keys", "write", "commit"} => v.op = "device"
  PROVE  VisitInv'
<1>1. visits' = visits /\ VisitState' = VisitState
  BY DEF Only, VisitState
<1>2. \A w \in visits : /\ visit'[w].at = "asked" => w.op = "login"
                        /\ visit'[w].at \in {"entity", "session"} => w.op # "device"
                        /\ visit'[w].at \in {"found", "keys", "write", "commit"} => w.op = "device"
  BY DEF VisitInv, Only
<1> QED
  BY <1>1, <1>2 DEF VisitInv

\* What a visit's user and ticket are.
LEMMA VisitParts ==
  ASSUME VisitInv, NEW v \in visits
  PROVE  /\ v.user \in DagUsersOf /\ v.ticket \in {0} \cup {w.ticket : w \in visits}
         /\ v.op \in {"login", "verify", "device"} /\ (v.op = "login" => v.ticket # 0)
         /\ v.op = "device" => v.key # "root" /\ v.key \in Devices
         /\ \A w \in visits : v.op = "login" /\ w.op = "login" /\ v.user = w.user
                                /\ v.ticket = w.ticket => v = w
<1>1. visits \in DagTraffic /\ v \in UNION DagTraffic
  BY DEF VisitInv
<1> QED
  BY <1>1, DagUsersAssumption DEF DagUsersOf, Devices

\* Every step of every visit, and a crash, keep what is known of logins.
LEMMA DagUsersStepInv ==
  DagUsersInv /\ [DagUsersNext]_dagUserVars => DagUsersInv'
<1> SUFFICES ASSUME DagUsersInv, [DagUsersNext]_dagUserVars PROVE DagUsersInv'
  OBVIOUS
<1>0. /\ VisitInv /\ MetInv /\ ChallengeInv /\ KeysInv /\ LoginInv
      /\ userDb \in [DagUsersOf -> SUBSET Devices] /\ userDisk \in [DagUsersOf -> SUBSET Devices]
      /\ dagChallenge \in [DagUsersOf -> {0} \cup {w.ticket : w \in visits}]
  BY DEF DagUsersInv, VisitInv
<1>1. ASSUME NEW v \in visits, GiveChallenge(v) PROVE DagUsersInv'
  <2>1. /\ v.op = "login" /\ Enters(v, "asked")
        /\ dagChallenge' = [dagChallenge EXCEPT ![v.user] = v.ticket]
        /\ dagSessions' = dagSessions /\ userDb' = userDb /\ userDisk' = userDisk
    BY <1>1 DEF GiveChallenge, NoRowChange
  <2>2. /\ Only(v) /\ dagCrashes' = dagCrashes /\ visit' \in [visits -> VisitState]
        /\ visit[v].at = "idle" /\ visit'[v].at = "asked"
        /\ \A w \in visits : w # v =>
              /\ UnderWay(w) => v \in visit'[w].met
              /\ ~UnderWay(w) => visit'[w].met = visit[w].met
    BY <1>0, <2>1, VisitEnters DEF VisitAt, Answers
  <2>3. MetInv'
    BY <1>0, <2>1, MetEnters DEF VisitAt
  <2>4. VisitInv'
    BY <1>0, <2>1, <2>2, VisitFrame, VisitParts
  <2>5. KeysInv'
    BY <1>0, <2>1, <2>2, KeysFrame
  <2>6. LoginInv'
    <3>1. LetIn(v)'
      BY <2>2 DEF LetIn
    <3>2. dagChallenge'[v.user] = v.ticket
      BY <1>0, <2>1, VisitParts
    <3>3. ASSUME NEW w \in visits, w # v, visit[w].at \in {"asked", "entity", "session"}
          PROVE  Disturbed(w)' \/ dagChallenge'[w.user] = dagChallenge[w.user]
      <4>1. v \in visit'[w].met
        BY <2>2, <3>3 DEF UnderWay, Answers
      <4>2. CASE w.user = v.user
        BY <2>1, <4>1, <4>2 DEF Disturbed
      <4>3. CASE w.user # v.user
        BY <1>0, <2>1, <4>3
      <4> QED
        BY <4>2, <4>3
    <3> QED
      BY <1>0, <2>2, <3>1, <3>2, <3>3, LoginFrame
  <2>7. ChallengeInv'
    <3>1. \A u, t : GivenTo(u, t) => GivenTo(u, t)'
      BY <2>2 DEF GivenTo, Only
    <3>2. GivenTo(v.user, v.ticket)'
      BY <2>1, <2>2 DEF GivenTo, Only
    <3>3. ~GivenTo(v.user, v.ticket)
      BY <1>0, <2>1, <2>2, VisitParts DEF GivenTo
    <3>4. \A u \in DagUsersOf : dagChallenge'[u] # 0 => GivenTo(u, dagChallenge[u])'
      BY <1>0, <2>1, <3>1, <3>2 DEF ChallengeInv
    <3>5. /\ \A w \in visits : Checked(w)' => Checked(w)
          /\ \A w, x \in visits : Crossed(w, x) => Crossed(w, x)'
          /\ \A w \in visits : visit[w].at \in {"ok", "raised"} => visit'[w].at = visit[w].at
      BY <2>2 DEF Checked, Crossed, Only
    <3>6. ASSUME NEW s \in dagSessions PROVE dagChallenge'[s.user] # s.visit.ticket
      <4>1. s.user # v.user \/ s.visit.ticket # v.ticket
        BY <1>0, <3>3 DEF ChallengeInv
      <4>2. dagChallenge'[s.user] = IF s.user = v.user THEN v.ticket ELSE dagChallenge[s.user]
        BY <1>0, <2>1, VisitParts DEF ChallengeInv
      <4> QED
        BY <1>0, <4>1, <4>2 DEF ChallengeInv
    <3>7. OneSessionAChallenge'
      BY <1>0, <2>1, <2>2 DEF ChallengeInv, OneSessionAChallenge, Only
    <3> QED
      BY <1>0, <2>1, <2>2, <3>1, <3>4, <3>5, <3>6, <3>7 DEF ChallengeInv, Only
  <2> QED
    BY <2>3, <2>4, <2>5, <2>6, <2>7 DEF DagUsersInv
<1>2. ASSUME NEW v \in visits, ShowChallenge(v) PROVE DagUsersInv'
  <2> DEFINE to == IF dagChallenge[v.user] = v.ticket THEN "entity" ELSE "refused"
  <2>1. /\ dagChallenge' = dagChallenge /\ dagSessions' = dagSessions
        /\ userDb' = userDb /\ userDisk' = userDisk
        /\ \/ v.op = "login" /\ Moves(v, "asked", to)
           \/ /\ v.op = "verify" /\ Enters(v, to)
              /\ \E w \in visits : w.op = "login" /\ w.ticket = v.ticket /\ visit[w].at # "idle"
    BY <1>2 DEF ShowChallenge, NoRowChange
  <2>2. to \in {"entity", "refused"} /\ (to = "entity" <=> dagChallenge[v.user] = v.ticket)
    OBVIOUS
  <2> HIDE DEF to
  <2>3. /\ Only(v) /\ dagCrashes' = dagCrashes /\ visit' \in [visits -> VisitState]
        /\ visit'[v].at = to /\ MetInv'
        /\ v.op = "login" => visit[v].at = "asked"
        /\ v.op \in {"login", "verify"} /\ v.ticket # 0
    <3>1. CASE v.op = "login" /\ Moves(v, "asked", to)
      <4>1. GoesOn(v, "asked", to)
        BY <1>0, <2>2, <3>1, VisitMoves DEF VisitAt, Answers
      <4>2. MetInv'
        BY <1>0, <2>2, <4>1, MetGoes DEF VisitAt, Answers
      <4> QED
        BY <1>0, <3>1, <4>1, <4>2, VisitParts DEF GoesOn
    <3>2. CASE v.op = "verify" /\ Enters(v, to)
      <4>1. v.ticket # 0
        BY <1>0, <2>1, <3>2, VisitParts
      <4> QED
        BY <1>0, <2>2, <3>2, <4>1, VisitEnters, MetEnters DEF VisitAt, Answers
    <3> QED
      BY <2>1, <3>1, <3>2
  <2>4. VisitInv'
    BY <1>0, <2>1, <2>2, <2>3, VisitFrame
  <2>5. KeysInv'
    BY <1>0, <2>1, <2>2, <2>3, KeysFrame
  <2>6. \A w \in visits : Disturbed(w) => Disturbed(w)'
    BY <2>3 DEF Disturbed, Only
  <2>7. LoginInv'
    <3>1. v.op = "login" /\ ~visit'[v].cut => Disturbed(v)' \/ dagChallenge[v.user] = v.ticket
      BY <1>0, <2>3, <2>6 DEF LoginInv, Only
    <3>2. LetIn(v)'
      BY <2>2, <2>3, <3>1 DEF LetIn
    <3> QED
      BY <1>0, <2>1, <2>3, <3>1, <3>2, LoginFrame
  <2>8. ChallengeInv'
    <3>1. CASE to = "refused"
      BY <1>0, <2>1, <2>3, <3>1, ChallengeFrame DEF Checked
    <3>2. CASE to = "entity"
      <4>1. \A u, t : GivenTo(u, t) => GivenTo(u, t)'
        BY <2>3 DEF GivenTo, Only
      <4>2. /\ \A w \in visits : w # v /\ Checked(w)' => Checked(w)
            /\ \A w, x \in visits : Crossed(w, x) => Crossed(w, x)'
            /\ \A w \in visits : visit[w].at \in {"ok", "raised"} => visit'[w].at = visit[w].at
        BY <2>3 DEF Checked, Crossed, Only, Answers
      <4>3. dagChallenge[v.user] = v.ticket /\ GivenTo(v.user, v.ticket)
        BY <1>0, <2>2, <2>3, <3>2, VisitParts DEF ChallengeInv
      <4>4. \A s \in dagSessions : s.user # v.user \/ s.visit.ticket # v.ticket
        BY <1>0, <4>3 DEF ChallengeInv
      <4>5. OneSessionAChallenge'
        BY <1>0, <2>1, <2>3 DEF ChallengeInv, OneSessionAChallenge, Only
      <4> QED
        BY <1>0, <2>1, <2>3, <4>1, <4>2, <4>3, <4>4, <4>5 DEF ChallengeInv, Only
    <3> QED
      BY <2>2, <3>1, <3>2
  <2> QED
    BY <2>3, <2>4, <2>5, <2>7, <2>8 DEF DagUsersInv
<1>3. ASSUME NEW v \in visits, ReadEntity(v, "entity", "session") PROVE DagUsersInv'
  <2>1. /\ dagChallenge' = dagChallenge /\ dagSessions' = dagSessions
        /\ userDb' = userDb /\ userDisk' = userDisk
    BY <1>3 DEF ReadEntity, NoRowChange
  <2>2. GoesOn(v, "entity", "session") /\ visit'[v].keys = userDb[v.user]
    BY <1>0, <1>3, VisitReads DEF VisitAt, Answers
  <2>3. MetInv'
    BY <1>0, <2>2, MetGoes DEF VisitAt, Answers
  <2>4. VisitInv'
    BY <1>0, <2>1, <2>2, VisitFrame DEF GoesOn, VisitInv
  <2>5. KeysInv'
    <3> SUFFICES ASSUME NEW x \in visits, x.op = "device", AddedAlone(x)'
                 PROVE  /\ visit'[x].at \in {"commit", "ok"} => x.key \in userDb[x.user]
                        /\ visit'[x].at = "ok" =>
                             /\ x.key \in userDisk[x.user]
                             /\ \A w \in visits : w # x /\ visit'[w].at = "write" /\ w.user = x.user =>
                                                    x.key \in visit'[w].keys
                             /\ \A w \in visits : visit'[w].at = "session" /\ x \in visit'[w].past
                                                    /\ w.user = x.user => x.key \in visit'[w].keys
      BY <2>1, <2>2 DEF KeysInv, GoesOn, Only
    <3>1. AddedAlone(x)
      BY <2>2, AloneBefore DEF GoesOn, Only
    <3>2. x # v
      BY <1>0, <2>2 DEF GoesOn, VisitInv
    <3> QED
      BY <1>0, <2>2, <3>1, <3>2 DEF KeysInv, GoesOn, Only
  <2>6. LoginInv'
    <3>1. LetIn(v)'
      BY <2>2 DEF LetIn, GoesOn
    <3>2. \A w \in visits : Disturbed(w) => Disturbed(w)'
      BY <2>2 DEF Disturbed, GoesOn, Only
    <3>3. v.op = "login" /\ ~visit'[v].cut => Disturbed(v)' \/ dagChallenge[v.user] = v.ticket
      BY <1>0, <2>2, <3>2 DEF LoginInv, GoesOn, Only
    <3> QED
      BY <1>0, <2>1, <2>2, <3>1, <3>3, LoginFrame DEF GoesOn
  <2>7. ChallengeInv'
    BY <1>0, <2>1, <2>2, ChallengeFrame DEF Checked, GoesOn
  <2> QED
    BY <2>3, <2>4, <2>5, <2>6, <2>7 DEF DagUsersInv
<1>4. ASSUME NEW v \in visits, OpenDagSession(v) PROVE DagUsersInv'
  <2>1. /\ userDb' = userDb /\ userDisk' = userDisk
        /\ \/ /\ Recognised(v)
              /\ Moves(v, "session", IF dagChallenge[v.user] = 0 THEN "raised" ELSE "ok")
              /\ dagSessions' = dagSessions \cup {[user |-> v.user, visit |-> v]}
              /\ dagChallenge' = [dagChallenge EXCEPT ![v.user] = 0]
           \/ /\ ~Recognised(v) /\ Moves(v, "session", "refused")
              /\ dagSessions' = dagSessions /\ dagChallenge' = dagChallenge
    BY <1>4 DEF OpenDagSession, NoRowChange
  <2>2. PICK to \in {"ok", "raised", "refused"} :
          /\ Moves(v, "session", to)
          /\ to = "ok" => dagChallenge[v.user] # 0
          /\ to = "raised" => dagChallenge[v.user] = 0
          /\ to = "refused" <=> ~Recognised(v)
    BY <2>1
  <2>3. GoesOn(v, "session", to)
    BY <1>0, <2>2, VisitMoves DEF VisitAt, Answers
  <2>4. MetInv'
    BY <1>0, <2>3, MetGoes DEF VisitAt, Answers
  <2>5. v.op # "device" /\ Checked(v) /\ GivenTo(v.user, v.ticket) /\ v.ticket # 0
    BY <1>0, <2>3, VisitParts DEF GoesOn, VisitInv, Checked, ChallengeInv, GivenTo
  <2>6. VisitInv'
    BY <1>0, <2>1, <2>3, VisitFrame DEF GoesOn
  <2>7. KeysInv'
    BY <1>0, <2>1, <2>3, <2>5, KeysFrame DEF GoesOn
  <2>8. LoginInv'
    <3>1. \A w \in visits : Disturbed(w) <=> Disturbed(w)'
      BY <2>3 DEF Disturbed, GoesOn
    <3>2. LetIn(v)'
      <4> SUFFICES ASSUME v.op = "login", to \in {"refused", "raised"}, ~visit[v].cut, ~Disturbed(v),
                          \/ v.key = "root"
                          \/ \E w \in visit[v].past : w.op = "device" /\ w.user = v.user
                                                       /\ w.key = v.key /\ AddedAlone(w)'
                   PROVE  FALSE
        BY <2>3, <3>1 DEF LetIn, GoesOn, Only
      <4>1. dagChallenge[v.user] = v.ticket
        BY <1>0, <2>3 DEF LoginInv, GoesOn
      <4>2. to = "refused"
        BY <2>2, <2>5, <4>1
      <4>3. \A w \in visit[v].past : w \in visits /\ (AddedAlone(w)' => AddedAlone(w))
        <5>1. visit[v].past \subseteq visits
          BY <1>0 DEF VisitInv, VisitState
        <5>2. \A w \in visits : AddedAlone(w)' => AddedAlone(w)
          BY <2>3, AloneBefore DEF GoesOn, Only
        <5> QED
          BY <5>1, <5>2
      <4>4. Recognised(v)
        <5>1. CASE v.key = "root"
          BY <5>1 DEF Recognised
        <5>2. ASSUME NEW w \in visit[v].past, w.op = "device", w.user = v.user, w.key = v.key,
                     AddedAlone(w)
              PROVE  v.key \in visit[v].keys
          <6>1. visit[w].at = "ok" /\ visit[v].at = "session"
            BY <1>0, <2>3 DEF MetInv, GoesOn
          <6> QED
            BY <1>0, <4>3, <5>2, <6>1 DEF KeysInv
        <5> QED
          BY <4>3, <5>1, <5>2 DEF Recognised
      <4> QED
        BY <2>2, <4>2, <4>4
    <3>3. ASSUME NEW w \in visits, w # v, visit[w].at \in {"asked", "entity", "session"}
          PROVE  Disturbed(w)' \/ dagChallenge'[w.user] = dagChallenge[w.user]
      <4>1. v \in visit'[w].met
        BY <1>0, <2>3, <3>3 DEF MetInv, UnderWay, Answers, GoesOn
      <4>2. CASE w.user = v.user
        BY <2>5, <4>1, <4>2 DEF Disturbed
      <4>3. CASE w.user # v.user
        <5>1. w.user \in DagUsersOf
          BY <1>0, VisitParts
        <5>2. dagChallenge' = dagChallenge \/ dagChallenge' = [dagChallenge EXCEPT ![v.user] = 0]
          BY <2>1
        <5> QED
          BY <1>0, <4>3, <5>1, <5>2
      <4> QED
        BY <4>2, <4>3
    <3>4. visit'[v].at \notin {"asked", "entity", "session"}
      BY <2>3 DEF GoesOn
    <3> QED
      BY <1>0, <2>3, <3>2, <3>3, <3>4, LoginFrame DEF GoesOn
  <2>9. ChallengeInv'
    <3>1. CASE ~Recognised(v)
      BY <1>0, <2>1, <2>3, <3>1, ChallengeFrame DEF Checked, GoesOn
    <3>2. CASE Recognised(v)
      <4> DEFINE new == [user |-> v.user, visit |-> v]
      <4>1. /\ dagSessions' = dagSessions \cup {new}
            /\ dagChallenge' = [dagChallenge EXCEPT ![v.user] = 0]
        BY <2>1, <3>2
      <4>2. new.user = v.user /\ new.visit = v /\ new = [user |-> new.visit.user, visit |-> new.visit]
        OBVIOUS
      <4> HIDE DEF new
      <4>3. \A u, t : GivenTo(u, t) => GivenTo(u, t)'
        BY <2>3 DEF GivenTo, GoesOn, Only
      <4>4. /\ \A w \in visits : Checked(w)' => w # v /\ Checked(w)
            /\ \A w, x \in visits : Crossed(w, x) <=> Crossed(w, x)'
            /\ \A w \in visits : visit[w].at \in {"ok", "raised"} => visit'[w].at = visit[w].at
            /\ visit'[v].at \in {"ok", "raised"} /\ visits' = visits
        BY <2>2, <2>3, <3>2 DEF Checked, Crossed, GoesOn, Only, Answers
      <4>5. \A u \in DagUsersOf : dagChallenge'[u] = IF u = v.user THEN 0 ELSE dagChallenge[u]
        BY <1>0, <4>1, VisitParts
      <4>6. \A u \in DagUsersOf : dagChallenge'[u] # 0 => GivenTo(u, dagChallenge[u])'
        <5>1. \A u \in DagUsersOf : dagChallenge'[u] # 0 =>
                dagChallenge'[u] = dagChallenge[u] /\ GivenTo(u, dagChallenge[u])
          BY <1>0, <4>5 DEF ChallengeInv
        <5> QED
          BY <4>3, <5>1
      <4>7. \A w \in visits : w # v /\ Checked(w) => Crossed(w, v)
        BY <1>0, <2>5 DEF MetInv, UnderWay, Answers, Checked, Crossed
      <4>8. \A s \in dagSessions : s.user = v.user /\ s.visit.ticket = v.ticket =>
                                      Crossed(v, s.visit)
        BY <1>0, <2>5 DEF ChallengeInv
      <4>9. ASSUME NEW s \in dagSessions'
            PROVE  /\ s.visit \in visits /\ s = [user |-> s.visit.user, visit |-> s.visit]
                   /\ s.visit.op # "device" /\ visit'[s.visit].at \in {"ok", "raised"}
                   /\ GivenTo(s.user, s.visit.ticket)'
                   /\ dagChallenge'[s.user] # s.visit.ticket
                   /\ \A w \in visits : Checked(w)' /\ w.user = s.user /\ w.ticket = s.visit.ticket =>
                                          Crossed(w, s.visit)'
        <5>1. CASE s \in dagSessions
          <6>1. s.user \in DagUsersOf /\ s.visit.ticket # 0
            BY <1>0, <5>1, VisitParts DEF ChallengeInv, GivenTo
          <6> QED
            BY <1>0, <4>3, <4>4, <4>5, <5>1, <6>1 DEF ChallengeInv
        <5>2. CASE s = new
          <6>1. v.user \in DagUsersOf
            BY <1>0, VisitParts
          <6> QED
            BY <2>5, <4>2, <4>3, <4>4, <4>5, <4>7, <5>2, <6>1
        <5> QED
          BY <4>1, <5>1, <5>2
      <4>10. OneSessionAChallenge'
        <5>1. ASSUME NEW s \in dagSessions', NEW t \in dagSessions', s # t, s.user = t.user,
                     s.visit.ticket = t.visit.ticket
              PROVE  Crossed(s.visit, t.visit)
          <6>1. CASE s \in dagSessions /\ t \in dagSessions
            BY <1>0, <5>1, <6>1 DEF ChallengeInv, OneSessionAChallenge, Crossed
          <6>2. CASE s = new /\ t \in dagSessions
            BY <4>2, <4>8, <5>1, <6>2
          <6>3. CASE s \in dagSessions /\ t = new
            BY <4>2, <4>8, <5>1, <6>3 DEF Crossed
          <6> QED
            BY <4>1, <5>1, <6>1, <6>2, <6>3
        <5>2. \A s \in dagSessions' : s.visit \in visits
          BY <4>9
        <5>3. \A w \in visits : visit'[w].met = visit[w].met
          BY <2>3 DEF GoesOn
        <5> QED
          BY <5>1, <5>2, <5>3 DEF OneSessionAChallenge, Crossed
      <4> QED
        BY <4>4, <4>6, <4>9, <4>10, <1>0, <4>3 DEF ChallengeInv
    <3> QED
      BY <3>1, <3>2
  <2> QED
    BY <2>4, <2>6, <2>7, <2>8, <2>9 DEF DagUsersInv
<1>5. ASSUME NEW v \in visits, AddDevice(v) PROVE DagUsersInv'
  <2>1. PICK to \in {"found", "refused"} :
          /\ v.op = "device" /\ Enters(v, to)
          /\ dagChallenge' = dagChallenge /\ dagSessions' = dagSessions
          /\ userDb' = userDb /\ userDisk' = userDisk
    BY <1>5 DEF AddDevice, NoRowChange
  <2>2. /\ Only(v) /\ dagCrashes' = dagCrashes /\ visit' \in [visits -> VisitState]
        /\ visit'[v].at = to
    BY <1>0, <2>1, VisitEnters DEF VisitAt, Answers
  <2>3. MetInv'
    BY <1>0, <2>1, MetEnters DEF VisitAt, Answers
  <2>4. VisitInv'
    BY <1>0, <2>1, <2>2, VisitFrame
  <2>5. KeysInv'
    BY <1>0, <2>1, <2>2, KeysFrame
  <2>6. LoginInv'
    BY <1>0, <2>1, <2>2, LoginFrame DEF LetIn
  <2>7. ChallengeInv'
    BY <1>0, <2>1, <2>2, ChallengeFrame DEF Checked
  <2> QED
    BY <2>3, <2>4, <2>5, <2>6, <2>7 DEF DagUsersInv
<1>6. ASSUME NEW v \in visits, ReadEntity(v, "found", "keys") PROVE DagUsersInv'
  <2>1. /\ dagChallenge' = dagChallenge /\ dagSessions' = dagSessions
        /\ userDb' = userDb /\ userDisk' = userDisk
    BY <1>6 DEF ReadEntity, NoRowChange
  <2>2. GoesOn(v, "found", "keys")
    BY <1>0, <1>6, VisitReads DEF VisitAt, Answers
  <2>3. MetInv'
    BY <1>0, <2>2, MetGoes DEF VisitAt, Answers
  <2>4. VisitInv'
    BY <1>0, <2>1, <2>2, VisitFrame DEF GoesOn, VisitInv
  <2>5. KeysInv'
    BY <1>0, <2>1, <2>2, KeysFrame DEF GoesOn
  <2>6. LoginInv'
    BY <1>0, <2>1, <2>2, LoginFrame DEF LetIn, GoesOn
  <2>7. ChallengeInv'
    BY <1>0, <2>1, <2>2, ChallengeFrame DEF Checked, GoesOn
  <2> QED
    BY <2>3, <2>4, <2>5, <2>6, <2>7 DEF DagUsersInv
<1>7. ASSUME NEW v \in visits, NEW from \in {"keys", "write", "commit"},
             NEW to \in {"write", "commit", "ok"}, GoesOn(v, from, to), v.op = "device",
             dagChallenge' = dagChallenge, dagSessions' = dagSessions
      PROVE  MetInv' /\ LoginInv' /\ ChallengeInv'
  <2>1. MetInv'
    BY <1>0, <1>7, MetGoes DEF VisitAt, Answers
  <2>2. LoginInv'
    BY <1>0, <1>7, LoginFrame DEF LetIn, GoesOn
  <2>3. ChallengeInv'
    BY <1>0, <1>7, ChallengeFrame DEF Checked, GoesOn
  <2> QED
    BY <2>1, <2>2, <2>3
<1>8. ASSUME NEW v \in visits, NEW from \in {"keys", "write", "commit"},
             NEW to \in {"write", "commit", "ok"}, GoesOn(v, from, to), v.op = "device",
             \A x \in visits : x.op = "device" /\ AddedAlone(x) => 
               /\ visit'[x].at \in {"commit", "ok"} => x.key \in userDb'[x.user]
               /\ visit'[x].at = "ok" => x.key \in userDisk'[x.user]
               /\ visit'[x].at = "ok" /\ visit'[v].at = "write" /\ v # x /\ v.user = x.user =>
                    x.key \in visit'[v].keys
      PROVE  KeysInv'
  <2> SUFFICES ASSUME NEW x \in visits, x.op = "device", AddedAlone(x)', visit'[x].at = "ok"
               PROVE  /\ \A w \in visits : w # x /\ visit'[w].at = "write" /\ w.user = x.user =>
                                                  x.key \in visit'[w].keys
                      /\ \A w \in visits : visit'[w].at = "session" /\ x \in visit'[w].past
                                             /\ w.user = x.user => x.key \in visit'[w].keys
    <3>1. \A x \in visits : AddedAlone(x)' => AddedAlone(x)
      BY <1>8, AloneBefore DEF GoesOn, Only
    <3> QED
      BY <1>8, <3>1 DEF KeysInv, GoesOn, Only
  <2>1. AddedAlone(x)
    BY <1>8, AloneBefore DEF GoesOn, Only
  <2>2. CASE x # v
    <3>1. visit[x].at = "ok"
      BY <1>8, <2>2 DEF GoesOn, Only
    <3> QED
      BY <1>0, <1>8, <2>1, <2>2, <3>1 DEF KeysInv, GoesOn, Only
  <2>3. CASE x = v
    \* Whoever is at work has met x, and x is in nobody's past yet.
    <3>1. \A w \in visits : w # v => visit[w].at # "write" \/ w.op # "device" \/ w.user # v.user
      BY <1>0, <1>8, <2>1, <2>3 DEF MetInv, AddedAlone, UnderWay, Answers, GoesOn
    <3>2. \A w \in visits : visit[w].at = "write" => w.op = "device"
      BY <1>0 DEF VisitInv
    <3>3. \A w \in visits : v \notin visit[w].past
      BY <1>0, <1>8 DEF MetInv, GoesOn
    <3> QED
      BY <1>8, <2>3, <3>1, <3>2, <3>3 DEF GoesOn, Only
  <2> QED
    BY <2>2, <2>3
<1>9. ASSUME NEW v \in visits, ReadEntity(v, "keys", "write") PROVE DagUsersInv'
  <2>1. /\ dagChallenge' = dagChallenge /\ dagSessions' = dagSessions
        /\ userDb' = userDb /\ userDisk' = userDisk
    BY <1>9 DEF ReadEntity, NoRowChange
  <2>2. GoesOn(v, "keys", "write") /\ visit'[v].keys = userDb[v.user] /\ v.op = "device"
    <3>1. GoesOn(v, "keys", "write") /\ visit'[v].keys = userDb[v.user]
      BY <1>0, <1>9, VisitReads DEF VisitAt, Answers
    <3> QED
      BY <1>0, <3>1 DEF VisitInv, GoesOn
  <2>3. MetInv' /\ LoginInv' /\ ChallengeInv'
    BY <1>7, <2>1, <2>2
  <2>4. VisitInv'
    BY <1>0, <2>1, <2>2, VisitFrame DEF GoesOn
  <2>5. \A x \in visits : x.op = "device" /\ AddedAlone(x) =>
               /\ visit'[x].at \in {"commit", "ok"} => x.key \in userDb'[x.user]
               /\ visit'[x].at = "ok" => x.key \in userDisk'[x.user]
               /\ visit'[x].at = "ok" /\ visit'[v].at = "write" /\ v # x /\ v.user = x.user =>
                    x.key \in visit'[v].keys
    BY <1>0, <2>1, <2>2 DEF KeysInv, GoesOn, Only
  <2>6. KeysInv'
    BY <1>8, <2>2, <2>5
  <2> QED
    BY <2>3, <2>4, <2>6 DEF DagUsersInv
<1>10. ASSUME NEW v \in visits, WriteKeys(v) PROVE DagUsersInv'
  <2>1. /\ Moves(v, "write", "commit")
        /\ dagChallenge' = dagChallenge /\ dagSessions' = dagSessions
        /\ userDb' = [userDb EXCEPT ![v.user] = visit[v].keys \cup {v.key}]
        /\ userDisk' = userDisk
    BY <1>10 DEF WriteKeys
  <2>2. GoesOn(v, "write", "commit") /\ v.op = "device"
    <3>1. GoesOn(v, "write", "commit")
      BY <1>0, <2>1, VisitMoves DEF VisitAt, Answers
    <3> QED
      BY <1>0, <3>1 DEF VisitInv, GoesOn
  <2>3. MetInv' /\ LoginInv' /\ ChallengeInv'
    BY <1>7, <2>1, <2>2
  <2>4. VisitInv'
    <3>1. visit[v].keys \subseteq Devices /\ v.key \in Devices
      BY <1>0, <2>2, VisitParts DEF VisitInv, VisitState
    <3> QED
      BY <1>0, <2>1, <2>2, <3>1, VisitFrame DEF GoesOn
  <2>5. ASSUME NEW x \in visits, x.op = "device", AddedAlone(x)
        PROVE  /\ visit'[x].at \in {"commit", "ok"} => x.key \in userDb'[x.user]
               /\ visit'[x].at = "ok" => x.key \in userDisk'[x.user]
               /\ visit'[x].at = "ok" /\ visit'[v].at = "write" /\ v # x /\ v.user = x.user =>
                    x.key \in visit'[v].keys
    <3>1. x.user \in DagUsersOf /\ v.user \in DagUsersOf
      BY <1>0, VisitParts
    <3>2. \A u \in DagUsersOf :
            userDb'[u] = IF u = v.user THEN visit[v].keys \cup {v.key} ELSE userDb[u]
      BY <1>0, <2>1
    <3>3. CASE x = v
      BY <2>2, <3>1, <3>2, <3>3 DEF GoesOn
    <3>4. CASE x # v
      <4>1. visit'[x].at = visit[x].at /\ visit'[v].at = "commit" /\ visit[v].at = "write"
        BY <2>2, <3>4 DEF GoesOn, Only
      <4>2. visit[x].at = "commit" => x.user # v.user
        BY <1>0, <2>2, <2>5, <3>4, <4>1 DEF MetInv, AddedAlone, UnderWay, Answers
      <4>3. visit[x].at = "ok" /\ x.user = v.user => x.key \in visit[v].keys
        BY <1>0, <2>5, <3>4, <4>1 DEF KeysInv
      <4> QED
        BY <1>0, <2>1, <2>5, <3>1, <3>2, <4>1, <4>2, <4>3 DEF KeysInv
    <3> QED
      BY <3>3, <3>4
  <2>6. KeysInv'
    BY <1>8, <2>2, <2>5
  <2> QED
    BY <2>3, <2>4, <2>6 DEF DagUsersInv
<1>11. ASSUME NEW v \in visits, CommitKeys(v) PROVE DagUsersInv'
  <2>1. /\ Moves(v, "commit", "ok")
        /\ dagChallenge' = dagChallenge /\ dagSessions' = dagSessions
        /\ userDb' = userDb /\ userDisk' = userDb
    BY <1>11 DEF CommitKeys
  <2>2. GoesOn(v, "commit", "ok") /\ v.op = "device"
    <3>1. GoesOn(v, "commit", "ok")
      BY <1>0, <2>1, VisitMoves DEF VisitAt, Answers
    <3> QED
      BY <1>0, <3>1 DEF VisitInv, GoesOn
  <2>3. MetInv' /\ LoginInv' /\ ChallengeInv'
    BY <1>7, <2>1, <2>2
  <2>4. VisitInv'
    BY <1>0, <2>1, <2>2, VisitFrame DEF GoesOn
  <2>5. \A x \in visits : x.op = "device" /\ AddedAlone(x) =>
               /\ visit'[x].at \in {"commit", "ok"} => x.key \in userDb'[x.user]
               /\ visit'[x].at = "ok" => x.key \in userDisk'[x.user]
               /\ visit'[x].at = "ok" /\ visit'[v].at = "write" /\ v # x /\ v.user = x.user =>
                    x.key \in visit'[v].keys
    BY <1>0, <2>1, <2>2 DEF KeysInv, GoesOn, Only
  <2>6. KeysInv'
    BY <1>8, <2>2, <2>5
  <2> QED
    BY <2>3, <2>4, <2>6 DEF DagUsersInv
<1>12. CASE DagUsersCrash
  <2>1. /\ dagCrashes < MaxDagCrashes /\ dagCrashes' = dagCrashes + 1
        /\ visits' = visits /\ userDb' = userDisk /\ userDisk' = userDisk
        /\ dagChallenge' = [u \in DagUsersOf |-> 0] /\ dagSessions' = {}
        /\ visit' = [v \in visits |->
             IF visit[v].at = "asked" THEN [visit[v] EXCEPT !.cut = TRUE]
             ELSE IF UnderWay(v) THEN [visit[v] EXCEPT !.at = "lost"]
             ELSE visit[v]]
    BY <1>12 DEF DagUsersCrash
  <2>2. ASSUME NEW v \in visits
        PROVE  /\ visit'[v] \in VisitState
               /\ visit'[v].met = visit[v].met /\ visit'[v].past = visit[v].past
               /\ visit'[v].at = IF visit[v].at # "asked" /\ UnderWay(v) THEN "lost" ELSE visit[v].at
               /\ visit[v].cut => visit'[v].cut
               /\ visit[v].at = "asked" => visit'[v].cut
    <3>1. visit[v] \in VisitState
      BY <1>0 DEF VisitInv
    <3>2. CASE visit[v].at = "asked"
      <4>1. visit'[v] = [visit[v] EXCEPT !.cut = TRUE]
        BY <2>1, <3>2
      <4> QED
        BY <3>1, <3>2, <4>1 DEF VisitState
    <3>3. CASE visit[v].at # "asked" /\ UnderWay(v)
      <4>1. visit'[v] = [visit[v] EXCEPT !.at = "lost"]
        BY <2>1, <3>3
      <4> QED
        BY <3>1, <3>3, <4>1 DEF VisitState, VisitAt, Answers
    <3>4. CASE visit[v].at # "asked" /\ ~UnderWay(v)
      <4>1. visit'[v] = visit[v]
        BY <2>1, <3>4
      <4> QED
        BY <3>1, <3>4, <4>1
    <3> QED
      BY <3>2, <3>3, <3>4
  <2>3. visit' \in [visits -> VisitState] /\ VisitState' = VisitState
    BY <2>1, <2>2 DEF VisitState
  <2>4. \A v \in visits : /\ visit'[v].at \in Answers \cup {"idle", "asked"}
                          /\ visit'[v].at # "lost" => visit'[v].at = visit[v].at
                          /\ UnderWay(v)' => UnderWay(v)
                          /\ visit[v].at = "ok" => visit'[v].at = "ok"
                          /\ visit'[v].at = "asked" => visit'[v].cut
    BY <2>2 DEF UnderWay, Answers
  <2>5. VisitInv'
    <3>1. dagCrashes' \in 0 .. MaxDagCrashes
      BY <1>0, <2>1, DagUsersAssumption DEF VisitInv
    <3>2. \A v \in visits : /\ visit'[v].at = "asked" => v.op = "login"
                            /\ visit'[v].at \notin {"entity", "session", "found", "keys", "write", "commit"}
      BY <1>0, <2>4 DEF VisitInv, Answers
    <3> QED
      BY <1>0, <2>1, <2>3, <3>1, <3>2 DEF VisitInv
  <2>6. MetInv'
    <3>1. \A v \in visits : visit[v].past \subseteq visits
      BY <1>0 DEF VisitInv, VisitState
    <3> QED
      BY <1>0, <2>1, <2>2, <2>4, <3>1 DEF MetInv
  <2>7. ChallengeInv'
    BY <2>1, <2>4 DEF ChallengeInv, OneSessionAChallenge, Checked, Answers
  <2>8. \A v \in visits : AddedAlone(v)' => AddedAlone(v)
    BY <2>1, <2>2, AloneBefore
  <2>9. KeysInv'
    BY <1>0, <2>1, <2>4, <2>8 DEF KeysInv, Answers
  <2>10. RightKeysLogIn'
    <3>1. ASSUME NEW v \in visits PROVE LetIn(v)'
      <4>1. LetIn(v)
        BY <1>0, LetInAll DEF LoginInv, AllLetIn
      <4>2. visit[v].past \subseteq visits
        BY <1>0 DEF VisitInv, VisitState
      <4>3. Disturbed(v) => Disturbed(v)'
        BY <2>2 DEF Disturbed
      <4> QED
        BY <2>2, <2>4, <2>8, <4>1, <4>2, <4>3 DEF LetIn
    <3>2. AllLetIn'
      BY <2>1, <3>1 DEF AllLetIn
    <3> QED
      BY <3>2, LetInAll, PTL
  <2>11. LoginInv'
    BY <2>1, <2>4, <2>10 DEF LoginInv, Answers
  <2> QED
    BY <2>5, <2>6, <2>7, <2>9, <2>11 DEF DagUsersInv
<1>13. CASE UNCHANGED dagUserVars
  <2>1. /\ visits' = visits /\ visit' = visit /\ userDb' = userDb /\ userDisk' = userDisk
        /\ dagChallenge' = dagChallenge /\ dagSessions' = dagSessions /\ dagCrashes' = dagCrashes
    BY <1>13 DEF dagUserVars
  <2>2. VisitInv' /\ MetInv'
    BY <1>0, <2>1 DEF VisitInv, MetInv, VisitState, UnderWay
  <2>3. ChallengeInv'
    BY <1>0, <2>1 DEF ChallengeInv, GivenTo, Checked, Crossed, OneSessionAChallenge
  <2>4. KeysInv' /\ LoginInv'
    BY <1>0, <2>1 DEF KeysInv, AddedAlone, LoginInv, Disturbed, RightKeysLogIn
  <2> QED
    BY <2>2, <2>3, <2>4 DEF DagUsersInv
<1> QED
  BY <1>1, <1>2, <1>3, <1>4, <1>5, <1>6, <1>9, <1>10, <1>11, <1>12, <1>13 DEF DagUsersNext

\* It holds before the first visit.
LEMMA DagUsersInitInv == DagUsersInit => DagUsersInv
<1> SUFFICES ASSUME DagUsersInit PROVE DagUsersInv
  OBVIOUS
<1>1. /\ visits \in DagTraffic /\ dagSessions = {} /\ dagCrashes = 0
      /\ userDb = [u \in DagUsersOf |-> {}] /\ userDisk = userDb
      /\ dagChallenge = [u \in DagUsersOf |-> 0]
      /\ visit = [v \in visits |-> [at |-> "idle", keys |-> {}, cut |-> FALSE,
                                 met |-> {}, past |-> {}]]
  BY DEF DagUsersInit
<1>2. \A v \in visits : visit[v].at = "idle" /\ visit[v].met = {} /\ visit[v].past = {}
  BY <1>1
<1>3. VisitInv
  <2>1. visit \in [visits -> VisitState]
    BY <1>1 DEF VisitState, VisitAt
  <2> QED
    BY <1>1, <1>2, <2>1, DagUsersAssumption DEF VisitInv
<1>4. MetInv
  BY <1>2 DEF MetInv, UnderWay
<1>5. ChallengeInv
  BY <1>1, <1>2 DEF ChallengeInv, OneSessionAChallenge, Checked
<1>6. KeysInv /\ LoginInv
  BY <1>2 DEF KeysInv, LoginInv, RightKeysLogIn
<1> QED
  BY <1>3, <1>4, <1>5, <1>6 DEF DagUsersInv

\* What the runs check of the second server follows.
LEMMA DagUsersHolds == DagUsersInv => DagUsersTypeOK /\ DagLoginsHold
<1> SUFFICES ASSUME DagUsersInv PROVE DagUsersTypeOK /\ DagLoginsHold
  OBVIOUS
<1>0. VisitInv /\ MetInv /\ ChallengeInv /\ KeysInv /\ LoginInv
  BY DEF DagUsersInv
<1>1. \A v \in visits : visit[v] \in VisitState
  BY <1>0 DEF VisitInv
<1>2. DagUsersTypeOK
  <2>1. DOMAIN visit = visits
    BY <1>0 DEF VisitInv
  <2>2. \A s \in dagSessions : s.user = s.visit.user /\ s.visit.op # "device"
    BY <1>0 DEF ChallengeInv
  <2>3. \A v \in visits :
       /\ visit[v].at \in {"idle", "asked", "entity", "session", "found", "keys", "write",
                           "commit"} \cup Answers
       /\ visit[v].keys \subseteq Devices
       /\ v \notin visit[v].met \cup visit[v].past
    BY <1>0, <1>1 DEF VisitState, VisitAt, MetInv
  <2> QED
    BY <1>0, <2>1, <2>2, <2>3 DEF DagUsersTypeOK, VisitInv
<1>3. DevicesAreKept
  BY <1>0 DEF DevicesAreKept, KeysInv
<1> QED
  BY <1>0, <1>2, <1>3 DEF DagLoginsHold, ChallengeInv, LoginInv

-----------------------------------------------------------------------------
(***************************************************************************)
(* All of them.                                                            *)
(***************************************************************************)
ServicesInv == AccInv /\ DagUsersInv /\ PayInv /\ MediaInv /\ ModInv

\* Whatever service runs, each keeps its own.
LEMMA ServicesHold == Spec => []ServicesInv
<1>1. Init => ServicesInv
  BY AccInitInv, DagUsersInitInv, PayInitInv, MediaInitInv, ModInitInv DEF Init, ServicesInv
<1>2. ServicesInv /\ [Next]_vars => ServicesInv'
  <2> SUFFICES ASSUME ServicesInv, [Next]_vars PROVE ServicesInv'
    OBVIOUS
  <2>0. AccInv /\ DagUsersInv /\ PayInv /\ MediaInv /\ ModInv
    BY DEF ServicesInv
  <2>1. /\ AccNext \/ UNCHANGED accVars
        /\ DagUsersNext \/ UNCHANGED dagUserVars
        /\ PayNext \/ UNCHANGED payVars
        /\ MediaNext \/ UNCHANGED mediaVars
        /\ ModNext \/ UNCHANGED modVars
    BY DEF Next, vars
  <2>2. DagUsersInv'
    BY <2>0, <2>1, DagUsersStepInv
  <2>3. PayInv'
    BY <2>0, <2>1, PayStepInv
  <2>4. MediaInv'
    BY <2>0, <2>1, MediaStepInv
  <2>5. ModInv'
    BY <2>0, <2>1, ModStepInv
  <2>6. AccInv'
    BY <2>0, <2>1, AccStepInv
  <2> QED
    BY <2>2, <2>3, <2>4, <2>5, <2>6 DEF ServicesInv
<1> QED
  BY <1>1, <1>2, PTL DEF Spec

\* Once Stripe's report of a subscription's end is answered, access by it has ended and
\* stays so unless events came out of turn; what was canceled here is not billed on
\* unless Stripe did not take it; all checkouts are of one customer until a crash, and
\* a payout on record was transferred.
THEOREM BillingAlwaysAgrees == Spec => []BillingAgrees
<1>1. ServicesInv => BillingAgrees
  BY PayHolds DEF ServicesInv, BillingAgrees
<1> QED
  BY <1>1, ServicesHold, PTL

\* Of files and owners whose requests never overlapped, the rows have their files
\* and the quotas count the rows, through every crash.
THEOREM MediaStaysConsistent == Spec => []MediaIsConsistent
<1>1. ServicesInv => MediaIsConsistent
  BY MediaHolds DEF ServicesInv
<1> QED
  BY <1>1, ServicesHold, PTL

\* The filter, two reads apart, hides what was labelled by somebody trusted when it was
\* asked, and shows what only revoked labels are on; a crash loses neither.
THEOREM FilterAlwaysHonours == Spec => []FilterHonoursAnswers
<1>1. ServicesInv => FilterHonoursAnswers
  BY DEF ServicesInv, ModInv
<1> QED
  BY <1>1, ServicesHold, PTL

\* The type invariant of whatever service runs
THEOREM ServicesWellTyped == Spec => []TypeOK
<1>1. ServicesInv /\ service \in AllServices => TypeOK
  BY AccHolds, DagUsersHolds, PayHolds, MediaHolds DEF ServicesInv, TypeOK, ModInv, PayInv, MediaInv
<1>2. Init => service \in AllServices
  BY DEF Init
<1>3. service \in AllServices /\ [Next]_vars => (service \in AllServices)'
  BY DEF Next, vars
<1> QED
  BY <1>1, <1>2, <1>3, ServicesHold, PTL DEF Spec

\* An entity the relay has can be taken up again: its keys are in the vault, in the
\* account of who made it, on the disk, unless somebody had them deleted.
THEOREM EntitiesStayRecoverable == Spec => []EntityRecoverable
<1>1. ServicesInv => EntityRecoverable
  BY AccHolds DEF ServicesInv
<1> QED
  BY <1>1, ServicesHold, PTL

\* Accounts, logins, links, keys and logouts the vault has answered for outlast every
\* crash.
THEOREM AnswersStayDurable == Spec => []AnswersAreDurable
<1>1. ServicesInv => AnswersAreDurable
  BY AccHolds DEF ServicesInv
<1> QED
  BY <1>1, ServicesHold, PTL

\* A magic link opens one session unless two were opening it; of those that spoil each
\* other's challenges one gets in; two entities of one handle were created at once; and
\* the second server's challenges, keys and sessions are its users' own.
THEOREM LoginsAlwaysHold == Spec => []LoginsHold
<1>1. ServicesInv => LoginsHold
  BY AccHolds, DagUsersHolds DEF ServicesInv, LoginsHold
<1> QED
  BY <1>1, ServicesHold, PTL

=============================================================================

-------------------------------- MODULE Vault --------------------------------
(***************************************************************************)
(* The identity vault, services/identity-vault/main.py: accounts, login    *)
(* sessions, magic links, encrypted keys, devices, recovery.               *)
(*                                                                         *)
(* One process and one database connection, as in RelayLog: a handler      *)
(* awaits one statement at a time, any commit makes everything written so  *)
(* far durable, a crash returns the database to the last commit.           *)
(*                                                                         *)
(* A caller is one run of a client: it has at most one request here at a   *)
(* time.  A user's id is the caller that registered it, a link's the       *)
(* caller that asked for it, an encrypted key's the caller that made it.   *)
(* Of passwords and tokens only the right ones are shown; a refusal for a  *)
(* wrong or expired one changes nothing.                                   *)
(***************************************************************************)
EXTENDS Clients

CONSTANTS
  MaxVaultCrashes  \* bound: crashes of the vault in one behaviour

ASSUME VaultAssumption == MaxVaultCrashes \in Nat

VARIABLES
  vaultDb,      \* the tables as the connection sees them
  vaultDisk,    \* the same, as of the last commit
  vaultPc,      \* vaultPc[c]: the statement c's request awaits, or its answer
  vaultArg,     \* vaultArg[c]: the key or link c's request is about
  vaultCrashes,
  raced         \* history: links that two requests were opening at once

vaultVars == <<vaultDb, vaultDisk, vaultPc, vaultArg, vaultCrashes, raced>>

Session == [user : Callers, by : Callers, link : Callers \cup {None}]
KeyRow  == [user : Callers, key : Callers, type : {"signing", "encryption"}]

VaultTables ==
  [users    : SUBSET Callers, \* rows of users
   verified : SUBSET Callers, \* those with email_verified
   tokens   : SUBSET Callers, \* email_verifications, by user
   sessions : SUBSET Session,
   links    : SUBSET Callers,
   used     : SUBSET Callers, \* those of links with used = 1
   keys     : SUBSET KeyRow,
   devices  : SUBSET Callers, \* by the caller that had it authorized
   revoked  : SUBSET Callers,
   recovery : SUBSET Callers] \* users with a recovery_configs row

VaultSteps ==
  {"register_insert", "register_commit", "session_insert", "session_commit",
   "token_insert", "link_insert", "open_use", "open_commit", "logout",
   "store_signing", "store_encryption", "get_select", "delete", "authorize",
   "revoke", "recover", "verify_update", "verify_delete", "commit"}

VaultTypeOK ==
  /\ vaultDb \in VaultTables
  /\ vaultDisk \in VaultTables
  /\ vaultPc \in [Callers -> VaultSteps \cup {"idle", "ok", "no"}]
  /\ vaultArg \in [Callers -> Callers \cup {None}]
  /\ vaultCrashes \in 0 .. MaxVaultCrashes
  /\ raced \subseteq Callers

VaultInit ==
  /\ vaultDb = [users |-> {}, verified |-> {}, tokens |-> {}, sessions |-> {},
                links |-> {}, used |-> {}, keys |-> {}, devices |-> {},
                revoked |-> {}, recovery |-> {}]
  /\ vaultDisk = vaultDb
  /\ vaultPc = [c \in Callers |-> "idle"]
  /\ vaultArg = [c \in Callers |-> None]
  /\ vaultCrashes = 0
  /\ raced = {}

-----------------------------------------------------------------------------
(* One statement of a request: where it stands, where it goes next.        *)

VaultGo(c, from, to) ==
  /\ vaultPc[c] = from
  /\ vaultPc' = [vaultPc EXCEPT ![c] = to]
  /\ UNCHANGED vaultCrashes

\* A request of a caller that waits for no answer
VaultBegin(c, to) ==
  /\ vaultPc[c] \in {"idle", "ok"}
  /\ vaultPc' = [vaultPc EXCEPT ![c] = to]
  /\ UNCHANGED vaultCrashes

VaultAsk(c, to) == VaultBegin(c, to)
                   /\ UNCHANGED <<vaultDb, vaultDisk, vaultArg, raced>>

VaultRead(c, from, to) ==
  /\ VaultGo(c, from, to)
  /\ UNCHANGED <<vaultDb, vaultDisk, vaultArg, raced>>

\* A statement that writes: the table has these rows after it.
VaultWrite(c, from, to, table, rows) ==
  /\ VaultGo(c, from, to)
  /\ vaultDb' = [vaultDb EXCEPT ![table] = rows]
  /\ UNCHANGED <<vaultDisk, vaultArg, raced>>

VaultCommitTo(c, from, to) ==
  /\ VaultGo(c, from, to)
  /\ vaultDisk' = vaultDb
  /\ UNCHANGED <<vaultDb, vaultArg, raced>>

\* get_user_by_email
HasAccount(c) == \E u \in vaultDb.users : EmailOf[u] = EmailOf[c]
AccountOf(c)  == CHOOSE u \in vaultDb.users : EmailOf[u] = EmailOf[c]

\* require_auth: the row of the session whose token the caller sends.
LoggedIn(c)  == \E s \in vaultDb.sessions : s.by = c
SessionOf(c) == CHOOSE s \in vaultDb.sessions : s.by = c
UserOf(c)    == SessionOf(c).user

\* A request that needs a session begins.
VaultAuth(c, to) == VaultAsk(c, IF LoggedIn(c) THEN to ELSE "no")

-----------------------------------------------------------------------------
(* register *)

Register(c) ==
  VaultAsk(c, IF HasAccount(c) THEN "no" ELSE "register_insert")

\* users.email is UNIQUE: of two that found none, the second is an error.
RegisterInsert(c) ==
  IF HasAccount(c)
    THEN VaultRead(c, "register_insert", "no")
    ELSE VaultWrite(c, "register_insert", "register_commit", "users",
                    vaultDb.users \cup {c})

RegisterCommit(c) == VaultCommitTo(c, "register_commit", "session_insert")

\* create_session, at the end of register, login and verify_magic_link
SessionInsert(c) ==
  VaultWrite(c, "session_insert", "session_commit", "sessions",
             vaultDb.sessions
               \cup {[user |-> AccountOf(c), by |-> c, link |-> vaultArg[c]]})

\* Mistake: the token is handed out before the row is safe.
SessionCommitLater(c) ==
  VaultRead(c, "session_commit",
            IF c \in vaultDb.users THEN "token_insert" ELSE "ok")

\* register goes on from here to the verification mail; a caller that is a
\* user's id is one that registered.
SessionCommit(c) ==
  VaultCommitTo(c, "session_commit",
                IF c \in vaultDb.users THEN "token_insert" ELSE "ok")

\* register again: the token of the verification mail
TokenInsert(c) ==
  VaultWrite(c, "token_insert", "commit", "tokens", vaultDb.tokens \cup {c})

(* login; that a hash may be brought up to date shows nothing here *)
Login(c) ==
  VaultAsk(c, IF HasAccount(c) THEN "session_insert" ELSE "no")

(* request_magic_link: without an account the answer is the same, no mail *)
RequestMagicLink(c) ==
  VaultAsk(c, IF HasAccount(c) THEN "link_insert" ELSE "no")

LinkInsert(c) ==
  VaultWrite(c, "link_insert", "commit", "links", vaultDb.links \cup {c})

(* verify_magic_link *)
Opening(l) == {d \in Callers : /\ vaultArg[d] = l
                               /\ vaultPc[d] \in {"open_use", "open_commit"}}

\* Mistake: used is not looked at.
VerifyAnyLink(c, l) ==
  /\ VaultBegin(c, IF l \in vaultDb.links THEN "open_use" ELSE "no")
  /\ vaultArg' = [vaultArg EXCEPT ![c] = l]
  /\ raced' = IF Opening(l) # {} THEN raced \cup {l} ELSE raced
  /\ UNCHANGED <<vaultDb, vaultDisk>>

VerifyMagicLink(c, l) ==
  /\ VaultBegin(c, IF l \in vaultDb.links \ vaultDb.used
                          THEN "open_use" ELSE "no")
  /\ vaultArg' = [vaultArg EXCEPT ![c] = l]
  /\ raced' = IF Opening(l) # {} THEN raced \cup {l} ELSE raced
  /\ UNCHANGED <<vaultDb, vaultDisk>>

OpenUse(c) ==
  VaultWrite(c, "open_use", "open_commit", "used",
             vaultDb.used \cup {vaultArg[c]})

OpenCommit(c) == VaultCommitTo(c, "open_commit", "session_insert")

(* logout *)
Logout(c) == VaultAuth(c, "logout")

LogoutDelete(c) ==
  VaultWrite(c, "logout", "commit", "sessions",
             {s \in vaultDb.sessions : s.by # c})

-----------------------------------------------------------------------------
(* store_keys: two rows under one entity, one commit.                      *)

Rows(c, k, type) == [user |-> UserOf(c), key |-> k, type |-> type]

StoreKeys(c) == VaultAuth(c, "store_signing")

StoreSigning(c) ==
  VaultWrite(c, "store_signing", "store_encryption", "keys",
             vaultDb.keys \cup {Rows(c, c, "signing")})

StoreEncryption(c) ==
  VaultWrite(c, "store_encryption", "commit", "keys",
             vaultDb.keys \cup {Rows(c, c, "encryption")})

\* list_keys, then get_keys of one of them: the client takes the newest, here
\* it takes any.
GetKeys(c) == VaultAuth(c, "get_select")

KeysOf(c) == {r.key : r \in {q \in vaultDb.keys : /\ q.user = UserOf(c)
                                                  /\ q.type = "signing"}}

GetSelect(c) ==
  /\ VaultGo(c, "get_select",
             IF KeysOf(c) # {} THEN "ok" ELSE "no")
  /\ \E k \in KeysOf(c) \cup {None} :
       /\ k = None <=> KeysOf(c) = {}
       /\ vaultArg' = [vaultArg EXCEPT ![c] = k]
  /\ UNCHANGED <<vaultDb, vaultDisk, raced>>

(* delete_keys *)
DeleteKeys(c) == VaultAuth(c, "delete")

DeleteRows(c) ==
  VaultWrite(c, "delete", "commit", "keys",
             {r \in vaultDb.keys : r.user # UserOf(c) \/ r.key # vaultArg[c]})

-----------------------------------------------------------------------------
(* authorize_device, revoke_device, setup_recovery, verify_email           *)

AuthorizeDevice(c) == VaultAuth(c, "authorize")

DeviceInsert(c) ==
  VaultWrite(c, "authorize", "commit", "devices", vaultDb.devices \cup {c})

\* The sessions of a device are deleted too; no session names its device.
RevokeDevice(c) == VaultAuth(c, "revoke")

DeviceRevoke(c) ==
  VaultWrite(c, "revoke", "commit", "revoked",
             vaultDb.revoked \cup (vaultDb.devices \cap {c}))

SetupRecovery(c) == VaultAuth(c, "recover")

RecoveryReplace(c) ==
  VaultWrite(c, "recover", "commit", "recovery",
             vaultDb.recovery \cup {UserOf(c)})

\* The one who reads the account's mail follows the link in it.
VerifyEmail(c) ==
  VaultAsk(c, IF HasAccount(c) /\ AccountOf(c) \in vaultDb.tokens
                THEN "verify_update" ELSE "no")

VerifyUpdate(c) ==
  VaultWrite(c, "verify_update", "verify_delete", "verified",
             vaultDb.verified \cup {AccountOf(c)})

VerifyDelete(c) ==
  VaultWrite(c, "verify_delete", "commit", "tokens",
             vaultDb.tokens \ {AccountOf(c)})

-----------------------------------------------------------------------------
\* Mistake: the handler answers and leaves the commit to others.
VaultAnswerEarly(c) == VaultRead(c, "commit", "ok")

\* The last commit of a handler, and its answer.
VaultCommit(c) == VaultCommitTo(c, "commit", "ok")

\* A handler of a user not shown commits the connection they share.
VaultCommitElsewhere ==
  /\ vaultDisk # vaultDb
  /\ vaultDisk' = vaultDb
  /\ UNCHANGED <<vaultDb, vaultPc, vaultArg, vaultCrashes, raced>>

VaultCrash ==
  /\ vaultCrashes < MaxVaultCrashes
  /\ vaultCrashes' = vaultCrashes + 1
  /\ vaultDb' = vaultDisk
  /\ vaultPc' = [c \in Callers |->
                   IF vaultPc[c] \in VaultSteps THEN "no" ELSE vaultPc[c]]
  /\ UNCHANGED <<vaultDisk, vaultArg, raced>>

\* What the vault does with a request it has begun.
VaultContinue(c) ==
  \/ RegisterInsert(c) \/ RegisterCommit(c)
  \/ SessionInsert(c) \/ SessionCommit(c) \/ TokenInsert(c)
  \/ LinkInsert(c) \/ OpenUse(c) \/ OpenCommit(c) \/ LogoutDelete(c)
  \/ StoreSigning(c) \/ StoreEncryption(c) \/ GetSelect(c) \/ DeleteRows(c)
  \/ DeviceInsert(c) \/ DeviceRevoke(c) \/ RecoveryReplace(c)
  \/ VerifyUpdate(c) \/ VerifyDelete(c)
  \/ VaultCommit(c)

VaultNext == \/ \E c \in Callers : VaultContinue(c)
             \/ VaultCommitElsewhere
             \/ VaultCrash
=============================================================================

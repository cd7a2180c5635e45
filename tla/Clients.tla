------------------------------- MODULE Clients -------------------------------
(***************************************************************************)
(* Those who call the vault and the relay for an account.  A caller is one *)
(* run of the web client (app/client/src) or of a program that uses        *)
(* services/identity-vault/client.py; it makes at most one key of its own. *)
(***************************************************************************)
EXTENDS Naturals, Sequences, FiniteSets

CONSTANTS
  Callers,
  EmailOf,   \* the address a caller gives
  HandleOf,  \* the handle it asks for its entity
  HashOf     \* the hash its client names a key by

\* generate_entity_id of the relay and client.py cut SHA-256, that of the web
\* client cuts SHA-512.
Hashes == {"sha256", "sha512"}

None == "none"

ASSUME CallersAssumption ==
  /\ None \notin Callers
  /\ HashOf \in [Callers -> Hashes]

\* The id by which the relay knows the entity of k's key, and the id by which
\* k's client stored the key in the vault.
Ids == Hashes \X Callers

RelayId(k) == <<"sha256", k>>
VaultId(k) == <<HashOf[k], k>>
=============================================================================

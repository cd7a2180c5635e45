------------------------------ MODULE Moderation ------------------------------
(***************************************************************************)
(* The moderation service, services/moderation/main.py: labels that        *)
(* labelers put on content, which of them a viewer trusts, reports, and    *)
(* the filter that hides what a trusted labeler has labelled.  Database,   *)
(* commit and crash are as in RelayLog.                                    *)
(*                                                                         *)
(* One viewer and one content are shown, and labels of the types that hide *)
(* it; a label is named by its labeler, who puts one.                      *)
(***************************************************************************)
EXTENDS Naturals, FiniteSets

CONSTANTS
  Labelers,
  ModTraffic,     \* bound: the requests clients may send
  MaxModRequests, \* bound: requests started in one behaviour
  MaxModCrashes   \* bound: crashes of the service

Asked == ({"label", "revoke", "follow", "unfollow"} \X Labelers)
           \cup ({"report", "resolve", "filter"} \X {"content"})

ASSUME ModerationAssumption ==
  ModTraffic \subseteq Asked /\ MaxModRequests \in Nat /\ MaxModCrashes \in Nat

VARIABLES
  modDb,       \* attestations, trust_follows, the report's status
  modDisk,
  modPc,       \* modPc[r]: what request r awaits, or its answer
  modTrusted,  \* what the filter has read of trust_follows
  modExpired,  \* labels past expires_at
  modCrashes,
  due          \* history, of when the filter was asked: labelers by whom it
               \* had to hide the content, and those it had to ignore

modVars == <<modDb, modDisk, modPc, modTrusted, modExpired, modCrashes, due>>

ModTables == [labels  : SUBSET Labelers,
              revoked : SUBSET Labelers,
              follows : SUBSET Labelers,
              report  : {"none", "pending", "resolved"}]

Filter == <<"filter", "content">>

ModSteps == {"revoke", "commit", "labels"}

ModTypeOK ==
  /\ modDb \in ModTables
  /\ modDisk \in ModTables
  /\ modPc \in [Asked -> ModSteps \cup {"idle", "ok", "no", "visible",
                                        "hidden"}]
  /\ modTrusted \subseteq Labelers
  /\ modExpired \subseteq Labelers
  /\ modCrashes \in 0 .. MaxModCrashes
  /\ due \in [must : SUBSET Labelers, gone : SUBSET Labelers]

ModInit ==
  /\ modDb = [labels |-> {}, revoked |-> {}, follows |-> {}, report |-> "none"]
  /\ modDisk = modDb
  /\ modPc = [r \in Asked |-> "idle"]
  /\ modTrusted = {}
  /\ modExpired = {}
  /\ modCrashes = 0
  /\ due = [must |-> {}, gone |-> {}]

-----------------------------------------------------------------------------
ModGo(r, from, to) ==
  /\ modPc[r] = from
  /\ from = "idle" =>
       r \in ModTraffic /\ Cardinality({q \in Asked : modPc[q] # "idle"}) < MaxModRequests
  /\ modPc' = [modPc EXCEPT ![r] = to]
  /\ UNCHANGED <<modExpired, modCrashes>>

ModWrite(r, from, table, rows) ==
  /\ ModGo(r, from, "commit")
  /\ modDb' = [modDb EXCEPT ![table] = rows]
  /\ UNCHANGED <<modDisk, modTrusted, due>>

CreateAttestation(l) ==
  ModWrite(<<"label", l>>, "idle", "labels", modDb.labels \cup {l})

\* revoke_attestation, by its issuer
FindAttestation(l) ==
  /\ ModGo(<<"revoke", l>>, "idle",
           IF l \in modDb.labels THEN "revoke" ELSE "no")
  /\ UNCHANGED <<modDb, modDisk, modTrusted, due>>

RevokeAttestation(l) ==
  ModWrite(<<"revoke", l>>, "revoke", "revoked", modDb.revoked \cup {l})

FollowLabeler(l) ==
  ModWrite(<<"follow", l>>, "idle", "follows", modDb.follows \cup {l})

UnfollowLabeler(l) ==
  ModWrite(<<"unfollow", l>>, "idle", "follows", modDb.follows \ {l})

CreateReport ==
  ModWrite(<<"report", "content">>, "idle", "report", "pending")

\* update_report: a status the caller names, of a report there may not be
UpdateReport ==
  ModWrite(<<"resolve", "content">>, "idle", "report",
           IF modDb.report = "none" THEN "none" ELSE "resolved")

ModCommit(r) ==
  /\ ModGo(r, "commit", "ok")
  /\ modDisk' = modDb
  /\ UNCHANGED <<modDb, modTrusted, due>>

Done(op, l)  == modPc[<<op, l>>] = "ok"
Begun(op, l) == modPc[<<op, l>>] # "idle"

\* filter_content, first the labelers the viewer trusts
FilterTrusted ==
  /\ ModGo(Filter, "idle", "labels")
  /\ modTrusted' = modDb.follows
  /\ due' = [must |-> {l \in Labelers : /\ Done("label", l) /\ Done("follow", l)
                                        /\ ~Begun("revoke", l)
                                        /\ ~Begun("unfollow", l)},
             gone |-> {l \in Labelers : Done("revoke", l)}]
  /\ UNCHANGED <<modDb, modDisk>>

InForce(l) == l \in modDb.labels \ modDb.revoked /\ l \notin modExpired

\* Mistake: a label that was taken back hides all the same.
FilterAllLabels ==
  /\ ModGo(Filter, "labels",
           IF modTrusted \cap modDb.labels # {} THEN "hidden" ELSE "visible")
  /\ UNCHANGED <<modDb, modDisk, modTrusted, due>>

\* then the labels in force: the content is hidden by a trusted one.
FilterLabels ==
  /\ ModGo(Filter, "labels",
           IF \E l \in modTrusted : InForce(l) THEN "hidden" ELSE "visible")
  /\ UNCHANGED <<modDb, modDisk, modTrusted, due>>

\* Time passes expires_at.
LabelExpires(l) ==
  /\ l \in modDisk.labels \ modExpired
  /\ modExpired' = modExpired \cup {l}
  /\ UNCHANGED <<modDb, modDisk, modPc, modTrusted, modCrashes, due>>

ModCrash ==
  /\ modCrashes < MaxModCrashes
  /\ modCrashes' = modCrashes + 1
  /\ modDb' = modDisk
  /\ modPc' = [r \in Asked |-> IF modPc[r] \in ModSteps THEN "no" ELSE modPc[r]]
  /\ UNCHANGED <<modDisk, modTrusted, modExpired, due>>

ModNext ==
  \/ \E l \in Labelers :
       \/ CreateAttestation(l) \/ FindAttestation(l) \/ RevokeAttestation(l)
       \/ FollowLabeler(l) \/ UnfollowLabeler(l) \/ LabelExpires(l)
  \/ CreateReport \/ UpdateReport
  \/ \E r \in Asked : ModCommit(r)
  \/ FilterTrusted \/ FilterLabels
  \/ ModCrash

-----------------------------------------------------------------------------
(***************************************************************************)
(* Properties.                                                             *)
(***************************************************************************)

\* The filter reads whom the viewer trusts and what is labelled one after the
\* other, and still honours what was answered before it was asked: a label by
\* a labeler trusted then hides (until it expires or somebody takes it back),
\* one revoked then does not; and a crash loses neither.
FilterHonoursAnswers ==
  /\ modPc[Filter] = "visible" =>
       \A l \in due.must : l \in modExpired \/ Begun("revoke", l)
  /\ modPc[Filter] = "hidden" =>
       \E l \in Labelers \ due.gone : Begun("label", l) /\ Begun("follow", l)
=============================================================================

-------------------------------- MODULE Services --------------------------------
(***************************************************************************)
(* What stands beside the relay's log: its users' accounts with the vault, *)
(* those of the second server, and the services for payments, media and    *)
(* moderation.  Each is a process with a database of its own (the accounts *)
(* two), and they share nothing, so a behaviour is one of one of them, or  *)
(* of none.                                                                *)
(***************************************************************************)
EXTENDS Accounts, DagUsers, Payments, Media, Moderation

VARIABLE service  \* what runs in this behaviour

AllServices == {"accounts", "second server", "payments", "media", "moderation", "none"}

vars == <<service, accVars, dagUserVars, payVars, mediaVars, modVars>>

TypeOK ==
  /\ service \in AllServices
  /\ service = "accounts" => AccTypeOK
  /\ service = "second server" => DagUsersTypeOK
  /\ service = "payments" => PayTypeOK
  /\ service = "media" => MediaTypeOK
  /\ service = "moderation" => ModTypeOK

\* What is asked of a service that does not run does not matter.
Init ==
  /\ service \in AllServices
  /\ AccInit /\ (service # "accounts" => plan = CHOOSE p \in Plans : TRUE)
  /\ DagUsersInit /\ (service # "second server" => visits = CHOOSE t \in DagTraffic : TRUE)
  /\ PayInit /\ (service # "payments" => payAsked = CHOOSE t \in PayTraffic : TRUE)
  /\ MediaInit /\ ModInit

Next ==
  /\ UNCHANGED service
  /\ \/ /\ service = "accounts" /\ AccNext
        /\ UNCHANGED <<dagUserVars, payVars, mediaVars, modVars>>
     \/ /\ service = "second server" /\ DagUsersNext
        /\ UNCHANGED <<accVars, payVars, mediaVars, modVars>>
     \/ /\ service = "payments" /\ PayNext
        /\ UNCHANGED <<accVars, dagUserVars, mediaVars, modVars>>
     \/ /\ service = "media" /\ MediaNext
        /\ UNCHANGED <<accVars, dagUserVars, payVars, modVars>>
     \/ /\ service = "moderation" /\ ModNext
        /\ UNCHANGED <<accVars, dagUserVars, payVars, mediaVars>>

Spec == Init /\ [][Next]_vars

-----------------------------------------------------------------------------
\* Logins and links, at the vault, at the relay and at the second server
LoginsHold ==
  /\ service = "accounts" => LinkOpensOnce /\ SomeLoginSucceeds /\ HandlesAreDistinct
  /\ service = "second server" => DagLoginsHold

\* What the payments service has on record is what Stripe has, and access ends with it.
BillingAgrees == service = "payments" => AccessEndsWithBilling /\ StripeOnRecord
=============================================================================

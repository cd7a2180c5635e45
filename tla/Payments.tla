------------------------------- MODULE Payments -------------------------------
(***************************************************************************)
(* The payments service, services/payments/main.py, with Stripe behind it. *)
(*                                                                         *)
(* Calls to Stripe are synchronous: nothing else of the process runs       *)
(* before they return.  Stripe keeps what it did whatever becomes of this  *)
(* process, and reports on a subscription by events, which it delivers at  *)
(* least once and in no order.  Database and crash are as in RelayLog.     *)
(*                                                                         *)
(* A subscription is named by the checkout request it comes from, at       *)
(* Stripe and, since sub_id is drawn anew for each, with the number of the *)
(* row in the table.  Every request is for the one product there is.       *)
(***************************************************************************)
EXTENDS Naturals, FiniteSets

CONSTANTS
  Checkouts,     \* requests to check out, all of one subscriber
  Payouts,       \* requests to pay a creator out
  Onboardings,   \* requests to connect that creator to Stripe
  PayTraffic,    \* bound: sets of requests, those of one behaviour
  MaxDeliveries, \* bound: how often an event is delivered
  MaxPayCrashes  \* bound: crashes of the service

NoOne == "none"

ASSUME PaymentsAssumption ==
  MaxDeliveries \in Nat /\ MaxPayCrashes \in Nat /\ NoOne \notin Checkouts

EventTypes == {"completed", "failed", "deleted"}
Events     == EventTypes \X Checkouts

VARIABLES
  payAsked,    \* the requests that are made
  payDb,       \* customer, rows of subscriptions, account, payouts
  payDisk,
  payPc,       \* payPc[r]: what request or event r awaits, or its answer
  delivered,   \* delivered[e]: how often event e has been delivered
  stripe,      \* what Stripe has: sessions, subscriptions, transfers
  payCrashes,
  replayed,    \* history: subscriptions whose events came out of turn
  billedOn     \* history: subscriptions Stripe failed to cancel when asked to

payVars ==
  <<payAsked, payDb, payDisk, payPc, delivered, stripe, payCrashes, replayed,
    billedOn>>

Statuses == {"none", "active", "past_due", "canceled", "refunded"}

PayTables ==
  [product  : BOOLEAN,
   customer : Checkouts \cup {NoOne},    \* customers' row: who created it
   status   : [Checkouts -> Statuses],
   extra    : SUBSET Checkouts,          \* a second row of it, active
   account  : Onboardings \cup {NoOne},  \* connect_accounts' row
   payouts  : SUBSET Payouts]

Stripe ==
  [sessions  : SUBSET (Checkouts \X Checkouts), \* checkout, its customer
   subs      : [Checkouts -> {"none", "live", "deleted"}],
   failed    : SUBSET Checkouts,                \* an invoice was not paid
   transfers : SUBSET Payouts]

\* What the service is asked, by kind and by what it is about; the events are
\* among it.
Requests ==
  ((EventTypes \cup {"checkout", "cancel", "refund"}) \X Checkouts)
    \cup ({"payout"} \X Payouts) \cup ({"onboard"} \X Onboardings)
    \cup {<<"create", "product">>}

PaySteps == {"insert", "customer_find", "customer_insert", "customer_commit",
             "transfer", "stripe", "update", "commit"}

PayTypeOK ==
  /\ payAsked \in PayTraffic
  /\ payDb \in PayTables
  /\ payDisk \in PayTables
  /\ payPc \in [Requests -> PaySteps \cup {"idle", "ok", "no"}]
  /\ delivered \in [Events -> 0 .. MaxDeliveries]
  /\ stripe \in Stripe
  /\ payCrashes \in 0 .. MaxPayCrashes
  /\ replayed \subseteq Checkouts
  /\ billedOn \subseteq Checkouts

PayInit ==
  /\ payAsked \in PayTraffic
  /\ payDb = [product |-> FALSE, customer |-> NoOne,
              status |-> [s \in Checkouts |-> "none"], extra |-> {},
              account |-> NoOne, payouts |-> {}]
  /\ payDisk = payDb
  /\ payPc = [r \in Requests |-> "idle"]
  /\ delivered = [e \in Events |-> 0]
  /\ stripe = [sessions |-> {}, subs |-> [s \in Checkouts |-> "none"],
               failed |-> {}, transfers |-> {}]
  /\ payCrashes = 0
  /\ replayed = {} /\ billedOn = {}

-----------------------------------------------------------------------------
PayGo(r, from, to) ==
  /\ r \in payAsked
  /\ payPc[r] = from
  /\ payPc' = [payPc EXCEPT ![r] = to]
  /\ UNCHANGED <<payCrashes, payAsked>>

Unseen == UNCHANGED <<delivered, replayed>>

\* A step at the table alone.
PayRead(r, from, to) ==
  PayGo(r, from, to) /\ UNCHANGED <<payDb, payDisk, stripe, billedOn>> /\ Unseen

PayWrite(r, from, to, table, rows) ==
  /\ PayGo(r, from, to)
  /\ payDb' = [payDb EXCEPT ![table] = rows]
  /\ UNCHANGED <<payDisk, stripe, billedOn>> /\ Unseen

PayCommit(r, from, to) ==
  /\ PayGo(r, from, to)
  /\ payDisk' = payDb
  /\ UNCHANGED <<payDb, stripe, billedOn>> /\ Unseen

\* create_product: Stripe is told first, and an error there is swallowed.
CreateProduct ==
  PayWrite(<<"create", "product">>, "idle", "commit", "product", TRUE)

-----------------------------------------------------------------------------
(* create_checkout                                                         *)

CreateCheckout(s) ==
  PayRead(<<"checkout", s>>, "idle",
          IF payDb.product THEN "customer_find" ELSE "no")

OpenSession(s, customer) ==
  stripe' = [stripe EXCEPT !.sessions = @ \cup {<<s, customer>>}]

\* With a customer on record, Session.create follows in the same step.
FindCustomer(s) ==
  /\ PayGo(<<"checkout", s>>, "customer_find",
           IF payDb.customer = NoOne THEN "customer_insert" ELSE "ok")
  /\ IF payDb.customer = NoOne THEN UNCHANGED stripe
                               ELSE OpenSession(s, payDb.customer)
  /\ UNCHANGED <<payDb, payDisk, billedOn>> /\ Unseen

\* Mistake: INSERT OR REPLACE.
ReplaceCustomer(s) ==
  PayWrite(<<"checkout", s>>, "customer_insert", "customer_commit",
           "customer", s)

\* Stripe made a customer; entity_id is the key of the table, a second row an
\* error, and the second customer stays at Stripe.
InsertCustomer(s) ==
  IF payDb.customer = NoOne
    THEN PayWrite(<<"checkout", s>>, "customer_insert", "customer_commit",
                  "customer", s)
    ELSE PayRead(<<"checkout", s>>, "customer_insert", "no")

CommitCustomer(s) ==
  /\ PayGo(<<"checkout", s>>, "customer_commit", "ok")
  /\ payDisk' = payDb
  /\ OpenSession(s, s)
  /\ UNCHANGED <<payDb, billedOn>> /\ Unseen

-----------------------------------------------------------------------------
(* Stripe: the subscriber pays, an invoice fails, a subscription ends.     *)

HasSession(s) == \E x \in stripe.sessions : x[1] = s

StripeAlone ==
  UNCHANGED <<payAsked, payDb, payDisk, payPc, payCrashes, billedOn>> /\ Unseen

StripePays(s) ==
  /\ HasSession(s) /\ stripe.subs[s] = "none"
  /\ stripe' = [stripe EXCEPT !.subs[s] = "live"]
  /\ StripeAlone

StripeInvoiceFails(s) ==
  /\ stripe.subs[s] = "live" /\ s \notin stripe.failed
  /\ stripe' = [stripe EXCEPT !.failed = @ \cup {s}]
  /\ StripeAlone

StripeEnds(s) ==
  /\ stripe.subs[s] = "live"
  /\ stripe' = [stripe EXCEPT !.subs[s] = "deleted"]
  /\ StripeAlone

Happened(e) == CASE e[1] = "completed" -> stripe.subs[e[2]] # "none"
                 [] e[1] = "failed"    -> e[2] \in stripe.failed
                 [] e[1] = "deleted"   -> stripe.subs[e[2]] = "deleted"

Handled(e) == payPc[e] = "ok"

\* Stripe delivers out of turn: the event that begins access twice, or one
\* that ends it before that one is answered.
OutOfTurn(e) == IF e[1] = "completed"
                  THEN delivered[e] > 0
                  ELSE ~Handled(<<"completed", e[2]>>)

\* stripe_webhook, to its first statement: a delivery of e
Webhook(e) ==
  /\ e \in payAsked /\ Happened(e)
  /\ delivered[e] < MaxDeliveries
  /\ payPc[e] \in {"idle", "ok", "no"}
  /\ payPc' = [payPc EXCEPT ![e] = IF e[1] = "completed" THEN "insert"
                                                       ELSE "update"]
  /\ delivered' = [delivered EXCEPT ![e] = @ + 1]
  /\ replayed' = IF OutOfTurn(e) THEN replayed \cup {e[2]} ELSE replayed
  /\ UNCHANGED <<payDb, payDisk, stripe, payCrashes, billedOn, payAsked>>

\* A row with a fresh id: a second delivery makes a second row.
WebhookInsert(e) ==
  /\ PayGo(e, "insert", "commit")
  /\ payDb' = IF payDb.status[e[2]] = "none"
                THEN [payDb EXCEPT !.status[e[2]] = "active"]
                ELSE [payDb EXCEPT !.extra = @ \cup {e[2]}]
  /\ UNCHANGED <<payDisk, stripe, billedOn>> /\ Unseen

\* All rows with the subscription's stripe_subscription_id.
SetStatus(s, status) ==
  payDb' = IF payDb.status[s] = "none" THEN payDb
             ELSE [payDb EXCEPT !.status[s] = status, !.extra = @ \ {s}]

\* Mistake: the row is looked for by an id that only this service knows.
WebhookUpdateMissed(e) == PayRead(e, "update", "commit")

WebhookUpdate(e) ==
  /\ PayGo(e, "update", "commit")
  /\ SetStatus(e[2], IF e[1] = "deleted" THEN "canceled" ELSE "past_due")
  /\ UNCHANGED <<payDisk, stripe, billedOn>> /\ Unseen

-----------------------------------------------------------------------------
(* cancel_subscription and stub_refund, of the first row                   *)

Cancel(s) ==
  PayRead(<<"cancel", s>>, "idle",
          IF payDb.status[s] = "none" THEN "no" ELSE "stripe")

\* Subscription.delete, whose error is printed and swallowed, and the UPDATE
CancelUpdate(s) ==
  /\ PayGo(<<"cancel", s>>, "stripe", "commit")
  /\ \/ stripe' = [stripe EXCEPT !.subs[s] = "deleted"] /\ UNCHANGED billedOn
     \/ billedOn' = billedOn \cup {s} /\ UNCHANGED stripe
  /\ payDb' = [payDb EXCEPT !.status[s] = "canceled"]
  /\ UNCHANGED payDisk /\ Unseen

Refund(s) ==
  PayWrite(<<"refund", s>>, "idle", "commit", "status",
           IF payDb.status[s] = "none" THEN payDb.status
             ELSE [payDb.status EXCEPT ![s] = "refunded"])

-----------------------------------------------------------------------------
(* start_connect_onboarding and create_payout                              *)

Onboard(o) ==
  IF payDb.account = NoOne
    THEN PayWrite(<<"onboard", o>>, "idle", "commit", "account", o)
    ELSE PayRead(<<"onboard", o>>, "idle", "no")

CreatePayout(p) ==
  PayRead(<<"payout", p>>, "idle",
          IF payDb.account = NoOne THEN "no" ELSE "transfer")

\* Mistake: an error at Stripe is swallowed, as it is in create_product.
TransferOrNot(p) ==
  /\ PayGo(<<"payout", p>>, "transfer", "commit")
  /\ stripe' \in {stripe, [stripe EXCEPT !.transfers = @ \cup {p}]}
  /\ payDb' = [payDb EXCEPT !.payouts = @ \cup {p}]
  /\ UNCHANGED <<payDisk, billedOn>> /\ Unseen

\* Transfer.create may fail, which ends the request; then the row.
Transfer(p) ==
  \/ PayRead(<<"payout", p>>, "transfer", "no")
  \/ /\ PayGo(<<"payout", p>>, "transfer", "insert")
     /\ stripe' = [stripe EXCEPT !.transfers = @ \cup {p}]
     /\ UNCHANGED <<payDb, payDisk, billedOn>> /\ Unseen

InsertPayout(p) ==
  PayWrite(<<"payout", p>>, "insert", "commit", "payouts",
           payDb.payouts \cup {p})

-----------------------------------------------------------------------------
PayCrash ==
  /\ payCrashes < MaxPayCrashes
  /\ payCrashes' = payCrashes + 1
  /\ payDb' = payDisk
  /\ payPc' = [r \in Requests |->
                IF payPc[r] \in PaySteps THEN "no" ELSE payPc[r]]
  /\ UNCHANGED <<payDisk, stripe, billedOn, payAsked>> /\ Unseen

PayNext ==
  \/ CreateProduct
  \/ \E s \in Checkouts :
       \/ CreateCheckout(s) \/ FindCustomer(s) \/ InsertCustomer(s)
       \/ CommitCustomer(s)
       \/ StripePays(s) \/ StripeInvoiceFails(s) \/ StripeEnds(s)
       \/ Cancel(s) \/ CancelUpdate(s) \/ Refund(s)
  \/ \E e \in Events : Webhook(e) \/ WebhookInsert(e) \/ WebhookUpdate(e)
  \/ \E o \in Onboardings : Onboard(o)
  \/ \E p \in Payouts : CreatePayout(p) \/ Transfer(p) \/ InsertPayout(p)
  \/ \E r \in Requests : PayCommit(r, "commit", "ok")
  \/ PayCrash

-----------------------------------------------------------------------------
(***************************************************************************)
(* Properties.                                                             *)
(***************************************************************************)

\* check_access
Access(tables, s) == tables.status[s] = "active" \/ s \in tables.extra

\* Once Stripe has ended a subscription and its report is answered, there is
\* no access by it any more, and none comes back, unless Stripe delivered its
\* events out of turn.
AccessEndsWithBilling ==
  \A s \in Checkouts : Handled(<<"deleted", s>>) /\ s \notin replayed =>
    ~Access(payDb, s) /\ ~Access(payDisk, s)

\* All checkouts of a subscriber are those of the one customer on record.
OneCustomer ==
  payCrashes = 0 => \A x \in stripe.sessions : x[2] = payDb.customer

\* A subscription canceled here is not billed on, unless Stripe did not take
\* the cancellation.
CanceledIsNotBilled ==
  \A s \in Checkouts :
    payDb.status[s] = "canceled" /\ s \notin billedOn
      => stripe.subs[s] = "deleted"

\* A payout on record was transferred, an answered one is on record; a
\* transfer that is not on record belongs to a request that was cut off.
PayoutsAreTransfers ==
  /\ payDb.payouts \cup payDisk.payouts \subseteq stripe.transfers
  /\ \A p \in Payouts : payPc[<<"payout", p>>] = "ok" => p \in payDisk.payouts
  /\ \A p \in stripe.transfers \ payDb.payouts :
       payPc[<<"payout", p>>] \in {"insert", "no"}

\* Stripe's books and this service's agree as far as the code can make them.
StripeOnRecord == OneCustomer /\ CanceledIsNotBilled /\ PayoutsAreTransfers
=============================================================================

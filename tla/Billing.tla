------------------------------ MODULE Billing ------------------------------
(***************************************************************************)
(* billing-service: the subscriptions and the payments of one user.        *)
(*                                                                         *)
(* An order is one attempt to subscribe: a payment at the provider, a row  *)
(* of subscriptions and a row of payments.  The provider (external) tells  *)
(* the outcome by webhooks and repeats each until it is accepted.  An RPC  *)
(* reads rows and writes them with further statements, without a           *)
(* transaction, and several are served at the same time.  A partial unique *)
(* index allows the user one ACTIVE and one PENDING subscription.  Plans,  *)
(* prices, signatures and periods are left out: no code ends a             *)
(* subscription whose period is over.                                      *)
(***************************************************************************)
EXTENDS Integers

CONSTANTS
    Orders,           \* attempts of the user to subscribe
    Serving,          \* RPCs that are served at the same time
    MaxBillingFaults  \* bound: failing statements and lost answers

ASSUME BillingAssumption == MaxBillingFaults \in Nat

VARIABLES
    provider, \* the payment of each order at the provider
    webhooks, \* webhooks that have not been accepted
    sub,      \* status of the row of subscriptions, "none" without one
    pay,      \* status of the row of payments, "none" without one
    work,     \* the RPCs under way
    billingFaults

billingVars == <<provider, webhooks, sub, pay, work, billingFaults>>

Decisions == {"succeeded", "canceled", "refunded"}
Webhooks == [order : Orders, event : Decisions]

NoWork == [step |-> "none"]

BillingTypeOK ==
    /\ provider \in [Orders -> {"none", "open"} \cup Decisions]
    /\ webhooks \subseteq Webhooks
    /\ sub \in [Orders -> {"none", "PENDING", "ACTIVE", "CANCELED"}]
    /\ pay \in [Orders -> {"none", "PENDING", "SUCCESS", "FAILED", "REFUNDED"}]
    /\ \A w \in Serving : work[w] = NoWork \/ work[w].order \in Orders
    /\ billingFaults \in 0..MaxBillingFaults

Serve(w, r) == work[w] = NoWork /\ work' = [work EXCEPT ![w] = r]
GoOn(w, s) == work' = [work EXCEPT ![w].step = s]
Return(w) == work' = [work EXCEPT ![w] = NoWork]

\* idx_subscriptions_user_active_pending_unique.
IndexAllows(o, s) ==
    s \in {"ACTIVE", "PENDING"} => \A p \in Orders \ {o} : sub[p] # s

-----------------------------------------------------------------------------
(* The provider *)

Decide(o, e) ==
    /\ provider[o] = IF e = "refunded" THEN "succeeded" ELSE "open"
    /\ provider' = [provider EXCEPT ![o] = e]
    /\ webhooks' = webhooks \cup {[order |-> o, event |-> e]}
    /\ UNCHANGED <<sub, pay, work, billingFaults>>

-----------------------------------------------------------------------------
(* CreateCheckout: the provider's payment, then the two rows *)

CreateCheckout(w, o) ==
    /\ provider[o] = "none"
    /\ provider' = [provider EXCEPT ![o] = "open"]
    /\ Serve(w, [step |-> "subscribe", order |-> o])
    /\ UNCHANGED <<webhooks, sub, pay, billingFaults>>

CheckoutSubscribe(w) ==
    LET o == work[w].order
    IN  /\ work[w].step = "subscribe"
        /\ IF IndexAllows(o, "PENDING")
           THEN sub' = [sub EXCEPT ![o] = "PENDING"] /\ GoOn(w, "record")
           ELSE UNCHANGED sub /\ Return(w)
        /\ UNCHANGED <<provider, webhooks, pay, billingFaults>>

CheckoutRecord(w) ==
    /\ work[w].step = "record"
    /\ pay' = [pay EXCEPT ![work[w].order] = "PENDING"]
    /\ Return(w)
    /\ UNCHANGED <<provider, webhooks, sub, billingFaults>>

-----------------------------------------------------------------------------
(* ProcessWebhook *)

\* Mutant: a webhook about an unknown payment is accepted.
AcceptedMutant(h) == pay[h.order] \in {"none", "SUCCESS"} /\ h.event = "succeeded"

\* handlePaymentSuccess returns at once when the row says that it was handled.
Accepted(h) == pay[h.order] = "SUCCESS" /\ h.event = "succeeded"

\* A payment that is not found is an error, and the webhook comes again.
ProcessWebhook(w, h) ==
    /\ h \in webhooks
    /\ IF Accepted(h)
       THEN webhooks' = webhooks \ {h} /\ work[w] = NoWork /\ UNCHANGED work
       ELSE /\ pay[h.order] # "none"
            /\ Serve(w, [step |-> "payment", order |-> h.order, event |-> h.event])
            /\ UNCHANGED webhooks
    /\ UNCHANGED <<provider, sub, pay, billingFaults>>

PaymentStatus(e) ==
    CASE e = "succeeded" -> "SUCCESS" [] e = "canceled" -> "FAILED" [] OTHER -> "REFUNDED"

UpdatePayment(w) ==
    /\ work[w].step = "payment"
    /\ pay' = [pay EXCEPT ![work[w].order] = PaymentStatus(work[w].event)]
    /\ GoOn(w, "read")
    /\ UNCHANGED <<provider, webhooks, sub, billingFaults>>

CanBeCanceled(s) == s \in {"ACTIVE", "PENDING"}

\* Cancel refuses a subscription that is CANCELED already; activation refuses none.
ReadSubscription(w) ==
    /\ work[w].step = "read"
    /\ IF work[w].event = "succeeded" \/ CanBeCanceled(sub[work[w].order])
       THEN GoOn(w, "apply") ELSE Return(w)
    /\ UNCHANGED <<provider, webhooks, sub, pay, billingFaults>>

\* Mutant: the row is written as it was read.
SubscriptionStatusMutant(e, s) == IF e = "succeeded" THEN s ELSE "CANCELED"

SubscriptionStatus(e, s) == IF e = "succeeded" THEN "ACTIVE" ELSE "CANCELED"

\* A statement fails, or the answer to the provider is lost.
Fault == billingFaults < MaxBillingFaults /\ billingFaults' = billingFaults + 1

\* The last statement, after which the webhook is accepted; the index can refuse it.
UpdateSubscription(w) ==
    LET o == work[w].order
        e == work[w].event
        s == SubscriptionStatus(e, sub[o])
    IN  /\ work[w].step = "apply"
        /\ IF IndexAllows(o, s)
           THEN /\ sub' = [sub EXCEPT ![o] = s]
                /\ \/ webhooks' = webhooks \ {[order |-> o, event |-> e]} /\ UNCHANGED billingFaults
                   \/ Fault /\ UNCHANGED webhooks
           ELSE UNCHANGED <<sub, webhooks, billingFaults>>
        /\ Return(w)
        /\ UNCHANGED <<provider, pay>>

-----------------------------------------------------------------------------
\* CancelSubscription reads the active subscription, and writes it back canceled.
CancelSubscription(w, o) ==
    /\ sub[o] = "ACTIVE"
    /\ Serve(w, [step |-> "cancel", order |-> o])
    /\ UNCHANGED <<provider, webhooks, sub, pay, billingFaults>>

CancelWrite(w) ==
    /\ work[w].step = "cancel"
    /\ sub' = [sub EXCEPT ![work[w].order] = "CANCELED"]
    /\ Return(w)
    /\ UNCHANGED <<provider, webhooks, pay, billingFaults>>

\* A statement fails: the RPC returns an error and leaves what it has written.
StatementFails(w) ==
    /\ work[w] # NoWork
    /\ Fault
    /\ Return(w)
    /\ UNCHANGED <<provider, webhooks, sub, pay>>

-----------------------------------------------------------------------------
BillingInit ==
    /\ provider = [o \in Orders |-> "none"] /\ webhooks = {}
    /\ sub = [o \in Orders |-> "none"] /\ pay = [o \in Orders |-> "none"]
    /\ work = [w \in Serving |-> NoWork]
    /\ billingFaults = 0

BillingStep(w) ==
    \/ \E o \in Orders : CreateCheckout(w, o) \/ CancelSubscription(w, o)
    \/ \E h \in Webhooks : ProcessWebhook(w, h)
    \/ CheckoutSubscribe(w) \/ CheckoutRecord(w)
    \/ UpdatePayment(w) \/ ReadSubscription(w) \/ UpdateSubscription(w)
    \/ CancelWrite(w)
    \/ StatementFails(w)

BillingNext ==
    \/ \E o \in Orders, e \in Decisions : Decide(o, e)
    \/ \E w \in Serving : BillingStep(w)

BillingSpec == BillingInit /\ [][BillingNext]_billingVars

-----------------------------------------------------------------------------
(* Properties *)

\* An outcome that the provider need not report again is in the table: in spite of
\* webhooks that overtake the third statement of CreateCheckout, of repeated and
\* overlapping ones and of statements that fail, no accepted webhook leaves a
\* payment without a row or PENDING.
OutcomeRecorded ==
    \A o \in Orders :
        provider[o] \in Decisions /\ (\A h \in webhooks : h.order # o)
        => pay[o] \notin {"none", "PENDING"}

Settled == \A w \in Serving : work[w] = NoWork

\* A payment recorded as successful has activated its subscription (which may have
\* been canceled since), as long as no statement fails and the user has no other
\* subscription: repeated webhooks find the row SUCCESS and are accepted, but the
\* one that wrote it goes on to the subscription.
PaidSettled ==
    Settled /\ billingFaults = 0 =>
        \A o \in Orders :
            pay[o] = "SUCCESS" /\ (\A p \in Orders \ {o} : sub[p] = "none")
            => sub[o] # "PENDING"

\* "When the repeated attempt succeeds ... the subscription is activated"
\* (features/04_billing/04_02_payment_processing.feature, uc_04_02_17, and
\* uc_04_01_31 for a database that fails): once the webhooks of a payment are
\* accepted, a recorded success leaves no subscription PENDING.  The code saves
\* SUCCESS first, and a webhook repeated after that finds nothing to do.
PaidActivated ==
    Settled =>
        \A o \in Orders :
            pay[o] = "SUCCESS" /\ (\A h \in webhooks : h.order # o) => sub[o] # "PENDING"
=============================================================================

------------------------------ MODULE Payments ------------------------------
(***************************************************************************)
(* Deposits: internal/payments/service.go (CreatePayment, ProcessWebhook,  *)
(* isValidTransition), provider.go and handler.go, run by concurrent HTTP  *)
(* handlers against the tables of Database.                                *)
(*                                                                         *)
(* A payment is named by its provider reference, which is fresh for every  *)
(* call of the provider; Orders gives what was asked for.  Events are the  *)
(* webhook payloads of the provider, and the ones HandleDemoFund makes up. *)
(* The network may delay, repeat and reorder them.  Of a transaction, one  *)
(* step is a statement that may wait for another session.                  *)
(***************************************************************************)
EXTENDS Database

CONSTANTS
    Refs,           \* provider references
    Orders,         \* wallet, amount and currency of each payment
    Events,         \* webhook event ids
    EventOf,        \* ref, status and origin of each event
    Deliveries,     \* goroutines that run ProcessWebhook
    SeededAccounts  \* accounts that exist without a wallet

ASSUME PaymentsAssumption ==
    /\ Refs \subseteq Nat
    /\ Orders \in [Refs -> [wallet : Wallets, amount : Int, currency : Currencies]]
    /\ EventOf \in [Events -> [ref : Refs, status : {"PROCESSING", "SUCCEEDED", "FAILED"},
                               demo : BOOLEAN]]
    /\ \A e \in Events : EventOf[e].demo => EventOf[e].status = "SUCCEEDED"
    /\ Deliveries \subseteq Sessions
    /\ SeededAccounts \subseteq {PlatformAccount}
    /\ Events # {}

VARIABLES
    provider,       \* the provider's answer to ProcessPayment
    payments,       \* status of the payments row, or "ABSENT"
    unsaved,        \* payments whose CreatePayment ended without a row
    funded,         \* demo events whose handler has got to ProcessWebhook
    webhookEvents,  \* committed rows of webhook_events
    eventLock,      \* the session with an uncommitted row for the event
    payLock,        \* the session holding the payment row's lock
    dpc,            \* where each delivery is
    ev,             \* the event each delivery handles
    newBalance,     \* balance written by the open transaction
    acked           \* history: the events that were answered with a 200

deliveryVars == << dpc, ev, newBalance >>
paymentVars == << provider, payments, unsaved, funded, webhookEvents, eventLock,
                  payLock, dpc, ev, newBalance, acked >>
payVars == << dbVars, paymentVars >>

NoEvent == CHOOSE e \in Events : TRUE

DeliveryPCs == {"idle", "dedup", "payment", "wallet", "commit"}
PaymentStatus == {"ABSENT", "CREATED", "PROCESSING", "SUCCEEDED", "FAILED"}

\* Every variable holds a value of the shape the code gives it.
PaymentsTypeOK ==
    /\ DbTypeOK
    /\ provider \in [Refs -> {"NONE", "PROCESSING", "FAILED"}]
    /\ payments \in [Refs -> PaymentStatus]
    /\ unsaved \subseteq Refs
    /\ funded \subseteq Events
    /\ webhookEvents \subseteq Events
    /\ eventLock \in [Events -> Deliveries \cup {NoTx}]
    /\ payLock \in [Refs -> Deliveries \cup {NoTx}]
    /\ dpc \in [Deliveries -> DeliveryPCs]
    /\ ev \in [Deliveries -> Events]
    /\ newBalance \in [Deliveries -> 0 .. MaxBigint]
    /\ acked \subseteq Events

PaymentsInit ==
    /\ DbInit
    /\ provider = [r \in Refs |-> "NONE"]
    /\ payments = [r \in Refs |-> "ABSENT"]
    /\ unsaved = {}
    /\ funded = {}
    /\ webhookEvents = {}
    /\ eventLock = [e \in Events |-> NoTx]
    /\ payLock = [r \in Refs |-> NoTx]
    /\ dpc = [d \in Deliveries |-> "idle"]
    /\ ev = [d \in Deliveries |-> NoEvent]
    /\ newBalance = [d \in Deliveries |-> 0]
    /\ acked = {}

Ref(d) == EventOf[ev[d]].ref
Target(d) == Orders[Ref(d)].wallet
NewStatus(d) == EventOf[ev[d]].status

\* Mutant: any status may follow any other.
isValidTransitionAlways(current, next) == next \in {"SUCCEEDED", "FAILED"}

isValidTransition(current, next) ==
    \/ current = "PROCESSING" /\ next \in {"SUCCEEDED", "FAILED"}
    \/ current = "CREATED" /\ next \in {"PROCESSING", "FAILED"}

-----------------------------------------------------------------------------
(* CreatePayment. *)

\* The provider is called first, and nothing is recorded yet.
ProcessPayment(r) ==
    /\ provider[r] = "NONE"
    /\ \E answer \in {"PROCESSING", "FAILED"} :
          provider' = [provider EXCEPT ![r] = answer]
    /\ UNCHANGED << dbVars, payments, unsaved, funded, webhookEvents, eventLock, payLock,
                    deliveryVars, acked >>

\* CreatePayment is between the provider's answer and the end of its INSERT.
Saving(r) == provider[r] # "NONE" /\ payments[r] = "ABSENT" /\ r \notin unsaved

\* The INSERT: its CHECK on the amount and its foreign key, for which it waits
\* while a transfer has the wallet's row locked FOR UPDATE.
SavePayment(r) ==
    /\ Saving(r)
    /\ Orders[r].amount > 0
    /\ status[Orders[r].wallet] # "ABSENT"
    /\ rowLock[Orders[r].wallet] \in Deliveries \cup {NoTx}
    /\ payments' = [payments EXCEPT ![r] = provider[r]]
    /\ UNCHANGED << dbVars, provider, unsaved, funded, webhookEvents, eventLock, payLock,
                    deliveryVars, acked >>

RefusePayment(r) ==
    /\ Saving(r)
    /\ Orders[r].amount <= 0 \/ status[Orders[r].wallet] = "ABSENT"
    /\ unsaved' = unsaved \cup {r}
    /\ UNCHANGED << dbVars, provider, payments, funded, webhookEvents, eventLock, payLock,
                    deliveryVars, acked >>

\* The INSERT fails, or the process stops before it.
CreatePaymentFails(r) ==
    /\ Faults \cap {"error", "abandon"} # {}
    /\ Saving(r)
    /\ unsaved' = unsaved \cup {r}
    /\ UNCHANGED << dbVars, provider, payments, funded, webhookEvents, eventLock, payLock,
                    deliveryVars, acked >>

-----------------------------------------------------------------------------
(* ProcessWebhook. *)

\* Mutant: no deferred Rollback, so the session keeps the payment's lock.
EndTxWithoutRollback(d) ==
    /\ ReleaseLocks(d)
    /\ eventLock' = [e \in Events |-> IF eventLock[e] = d THEN NoTx ELSE eventLock[e]]
    /\ dpc' = [dpc EXCEPT ![d] = "idle"]
    /\ ev' = [ev EXCEPT ![d] = NoEvent]
    /\ newBalance' = [newBalance EXCEPT ![d] = 0]
    /\ UNCHANGED payLock

\* The transaction of delivery d is over, and with it all its locks.
EndTx(d) ==
    /\ ReleaseLocks(d)
    /\ eventLock' = [e \in Events |-> IF eventLock[e] = d THEN NoTx ELSE eventLock[e]]
    /\ payLock' = [r \in Refs |-> IF payLock[r] = d THEN NoTx ELSE payLock[r]]
    /\ dpc' = [dpc EXCEPT ![d] = "idle"]
    /\ ev' = [ev EXCEPT ![d] = NoEvent]
    /\ newBalance' = [newBalance EXCEPT ![d] = 0]

\* A duplicate is a 200 for HandleWebhook and an error for HandleDemoFund; all
\* the other errors are errors (400 or 500) for both.
Reply(d, err) ==
    acked' = IF \/ err = "none"
                \/ err = "ErrDuplicateWebhook" /\ ~EventOf[ev[d]].demo
             THEN acked \cup {ev[d]} ELSE acked

\* Mutant: a refused event is recorded as well, so its repetition is a duplicate.
RejectRecorded(d, err) ==
    /\ EndTx(d)
    /\ Reply(d, err)
    /\ webhookEvents' = webhookEvents \cup {ev[d]}
    /\ UNCHANGED << balance, status, ledger, outbox >>
    /\ UNCHANGED << provider, payments, unsaved, funded >>

\* ProcessWebhook returns an error: the deferred Rollback removes the row of
\* webhook_events too.
Reject(d, err) ==
    /\ EndTx(d)
    /\ Reply(d, err)
    /\ UNCHANGED << balance, status, ledger, outbox >>
    /\ UNCHANGED << provider, payments, unsaved, funded, webhookEvents >>

\* HandleWebhook, for a signed event of the provider's, at any time after
\* the provider was called and as often as the provider sends it.
HandleWebhook(d, e) ==
    /\ dpc[d] = "idle"
    /\ ~EventOf[e].demo
    /\ provider[EventOf[e].ref] # "NONE"
    /\ dpc' = [dpc EXCEPT ![d] = "dedup"]
    /\ ev' = [ev EXCEPT ![d] = e]
    /\ UNCHANGED << dbVars, provider, payments, unsaved, funded, webhookEvents, eventLock,
                    payLock, newBalance, acked >>

\* The second half of HandleDemoFund: once, after its own CreatePayment.
HandleDemoFund(d, e) ==
    /\ dpc[d] = "idle"
    /\ EventOf[e].demo
    /\ payments[EventOf[e].ref] # "ABSENT"
    /\ e \notin funded
    /\ funded' = funded \cup {e}
    /\ dpc' = [dpc EXCEPT ![d] = "dedup"]
    /\ ev' = [ev EXCEPT ![d] = e]
    /\ UNCHANGED << dbVars, provider, payments, unsaved, webhookEvents, eventLock, payLock,
                    newBalance, acked >>

\* The INSERT into webhook_events waits for a session that has inserted the
\* same event and not yet committed.
InsertWebhookEvent(d) ==
    /\ dpc[d] = "dedup"
    /\ ev[d] \notin webhookEvents
    /\ eventLock[ev[d]] = NoTx
    /\ eventLock' = [eventLock EXCEPT ![ev[d]] = d]
    /\ dpc' = [dpc EXCEPT ![d] = "payment"]
    /\ UNCHANGED << dbVars, provider, payments, unsaved, funded, webhookEvents, payLock, ev,
                    newBalance, acked >>

\* Mutant: a row of an open transaction counts as a duplicate.
RejectDuplicateEarly(d) ==
    /\ dpc[d] = "dedup"
    /\ ev[d] \in webhookEvents \/ eventLock[ev[d]] # NoTx
    /\ Reject(d, "ErrDuplicateWebhook")

\* The INSERT fails with SQLSTATE 23505.
RejectDuplicate(d) ==
    /\ dpc[d] = "dedup"
    /\ ev[d] \in webhookEvents
    /\ Reject(d, "ErrDuplicateWebhook")

\* Mutant: the payment is read without FOR UPDATE.
ReadPayment(d) ==
    /\ dpc[d] = "payment"
    /\ isValidTransition(payments[Ref(d)], NewStatus(d))
    /\ dpc' = [dpc EXCEPT ![d] = IF NewStatus(d) = "SUCCEEDED" THEN "wallet" ELSE "commit"]
    /\ UNCHANGED << dbVars, provider, payments, unsaved, funded, webhookEvents, eventLock, payLock, ev,
                    newBalance, acked >>

\* SELECT ... FOR UPDATE OF p, the state machine check and the UPDATE of the
\* payment, whose row is locked by then.
LockPayment(d) ==
    /\ dpc[d] = "payment"
    /\ payLock[Ref(d)] = NoTx
    /\ isValidTransition(payments[Ref(d)], NewStatus(d))
    /\ payLock' = [payLock EXCEPT ![Ref(d)] = d]
    /\ dpc' = [dpc EXCEPT ![d] = IF NewStatus(d) = "SUCCEEDED" THEN "wallet" ELSE "commit"]
    /\ UNCHANGED << dbVars, provider, payments, unsaved, funded, webhookEvents, eventLock, ev,
                    newBalance, acked >>

RejectUnknownPayment(d) ==
    /\ dpc[d] = "payment"
    /\ payments[Ref(d)] = "ABSENT"
    /\ Reject(d, "ErrPaymentNotFound")

RejectTransition(d) ==
    /\ dpc[d] = "payment"
    /\ payments[Ref(d)] # "ABSENT"
    /\ payLock[Ref(d)] = NoTx
    /\ ~isValidTransition(payments[Ref(d)], NewStatus(d))
    /\ Reject(d, "ErrInvalidStateTransition")

\* Mutant: BIGINT does not bound the balance.
CreditableUnbounded(d) == PlatformAccount \in SeededAccounts

\* The UPDATE of the wallet stays within BIGINT, and CreateTransaction finds
\* the entries in order and both accounts in table accounts.
Creditable(d) ==
    /\ balance[Target(d)] + Orders[Ref(d)].amount <= MaxBigint
    /\ PlatformAccount \in SeededAccounts
    /\ Accepted(DoubleEntry(PlatformAccount, Target(d),
                            Orders[Ref(d)].amount, Orders[Ref(d)].currency))

\* Mutant: UPDATE with a balance that was read before the row was locked.
CreditUnlocked(d) ==
    /\ dpc[d] = "wallet"
    /\ Creditable(d)
    /\ newBalance' = [newBalance EXCEPT ![d] = balance[Target(d)] + Orders[Ref(d)].amount]
    /\ dpc' = [dpc EXCEPT ![d] = "commit"]
    /\ UNCHANGED << dbVars, provider, payments, unsaved, funded, webhookEvents, eventLock, payLock, ev,
                    acked >>

\* UPDATE wallets waits for the row, then adds to its current balance.
CreditWallet(d) ==
    /\ dpc[d] = "wallet"
    /\ CanLock(d, Target(d))
    /\ Creditable(d)
    /\ rowLock' = [rowLock EXCEPT ![Target(d)] = d]
    /\ newBalance' = [newBalance EXCEPT ![d] = balance[Target(d)] + Orders[Ref(d)].amount]
    /\ dpc' = [dpc EXCEPT ![d] = "commit"]
    /\ UNCHANGED << balance, status, ledger, outbox >>
    /\ UNCHANGED << provider, payments, unsaved, funded, webhookEvents, eventLock, payLock, ev, acked >>

RejectCredit(d) ==
    /\ dpc[d] = "wallet"
    /\ CanLock(d, Target(d))
    /\ ~Creditable(d)
    /\ Reject(d, "other")

\* All the rows of the transaction become visible at once.
ApplyWebhook(d) ==
    /\ payments' = [payments EXCEPT ![Ref(d)] = NewStatus(d)]
    /\ webhookEvents' = webhookEvents \cup {ev[d]}
    /\ IF NewStatus(d) = "SUCCEEDED"
       THEN /\ balance' = [balance EXCEPT ![Target(d)] = newBalance[d]]
            /\ PostLedger("PAYMENT", Ref(d), PlatformAccount, Target(d),
                          Orders[Ref(d)].amount, Orders[Ref(d)].currency)
       ELSE UNCHANGED << balance, ledger >>
    /\ InsertEvent("payment.events", Ref(d))
    /\ EndTx(d)
    /\ UNCHANGED << status, provider, unsaved, funded >>

CommitWebhook(d) ==
    /\ dpc[d] = "commit"
    /\ ApplyWebhook(d)
    /\ Reply(d, "none")

-----------------------------------------------------------------------------
(* Failures. *)

DeliveryError(d) ==
    /\ "error" \in Faults
    /\ dpc[d] # "idle"
    /\ Reject(d, "other")

CommitReplyLost(d) ==
    /\ "ambiguous" \in Faults
    /\ dpc[d] = "commit"
    /\ ApplyWebhook(d)
    /\ Reply(d, "other")

DeliveryAbandoned(d) ==
    /\ "abandon" \in Faults
    /\ dpc[d] # "idle"
    /\ EndTx(d)
    /\ UNCHANGED << balance, status, ledger, outbox >>
    /\ UNCHANGED << provider, payments, unsaved, funded, webhookEvents, acked >>

-----------------------------------------------------------------------------
DeliveryStep(d) ==
    \/ RejectDuplicate(d) \/ RejectUnknownPayment(d) \/ RejectTransition(d)
    \/ RejectCredit(d) \/ CommitWebhook(d)
    \/ InsertWebhookEvent(d) \/ LockPayment(d) \/ CreditWallet(d)

DeliveryFailure(d) == DeliveryError(d) \/ CommitReplyLost(d) \/ DeliveryAbandoned(d)

PaymentStep(r) ==
    ProcessPayment(r) \/ SavePayment(r) \/ RefusePayment(r) \/ CreatePaymentFails(r)

PaymentsNext ==
    \/ \E r \in Refs : PaymentStep(r)
    \/ \E d \in Deliveries :
          \/ \E e \in Events : HandleWebhook(d, e) \/ HandleDemoFund(d, e)
          \/ DeliveryStep(d)
          \/ DeliveryFailure(d)
    \/ \E w \in Wallets : WalletStep(w) /\ UNCHANGED paymentVars

PaymentsSpec == PaymentsInit /\ [][PaymentsNext]_payVars

\* A goroutine runs until its handler returns, and PostgreSQL serves the
\* sessions that wait for a row in turn.
PaymentsFairSpec == PaymentsSpec /\ \A d \in Deliveries : SF_payVars(DeliveryStep(d))

-----------------------------------------------------------------------------
(* Properties. *)

\* The ledger transactions that deposit payment r.
Postings(r) == {i \in DOMAIN ledger : ledger[i].type = "PAYMENT" /\ ledger[i].ref = r}

(* A payment is credited exactly once when it is SUCCEEDED and never
   otherwise, however many events report it and however they interleave. *)
CreditedExactlyOnce ==
    \A r \in Refs :
        IF payments[r] = "SUCCEEDED"
        THEN \E i \in DOMAIN ledger : /\ Postings(r) = {i}
                                      /\ ledger[i].credit = Orders[r].wallet
                                      /\ ledger[i].amount = Orders[r].amount
        ELSE Postings(r) = {}

(* An event is in webhook_events only if its payment has the status it
   reports: one that was refused leaves no trace that would turn its
   redelivery into a duplicate. *)
RecordedMeansApplied ==
    \A e \in webhookEvents : payments[EventOf[e].ref] = EventOf[e].status

(* The provider is told 200 only for an event that is recorded for good, so
   it may stop repeating it. *)
AcknowledgedMeansRecorded == acked \subseteq webhookEvents

(* Every delivery ends, whatever it waits for. *)
EveryDeliveryEnds == \A d \in Deliveries : dpc[d] # "idle" ~> dpc[d] = "idle"

\* A payment as module Deposits sees it, whichever status the row has.
OrderState(r) ==
    CASE payments[r] = "ABSENT" -> "NONE"
      [] payments[r] = "SUCCEEDED" -> "PAID"
      [] payments[r] = "FAILED" -> "DECLINED"
      [] OTHER -> "OPEN"

\* Payments alone: nobody makes transfers.
D == INSTANCE Deposits WITH
        Submissions <- {},
        transfers <- << >>,
        order <- [r \in Refs |-> OrderState(r)],
        platform <- Net[PlatformAccount]

(* However webhooks are repeated, reordered and interrupted, each payment is
   settled in one step and moves its amount from the platform's account to its
   wallet, as module Deposits says. *)
DepositsSpec == D!DepositsSpec
=============================================================================

--------------------------- MODULE PaymentsProofs ---------------------------
(***************************************************************************)
(* Theorems about Payments, for any number of payments, events, wallets    *)
(* and concurrent deliveries.  PayInv carries them: what a delivery holds  *)
(* and has found out at each of its statements (DeliveryInv), what a row   *)
(* of payments implies (RowsInv), and that a recorded event has been       *)
(* applied for good (RecordsInv).  BooksInv and CreditedExactlyOnce rest   *)
(* on it, and the refinement of Deposits on all of them.                   *)
(***************************************************************************)
EXTENDS Payments, DatabaseProofs

USE DEF PlatformAccount

\* A row of payments is written with the provider's answer, for an amount and a
\* wallet that the constraints of the table let through.
RowsInv ==
    \A r \in Refs :
        /\ payments[r] # "CREATED"
        /\ payments[r] # "ABSENT" =>
              Orders[r].amount > 0 /\ status[Orders[r].wallet] # "ABSENT"

\* The delivery's own row of webhook_events is still uncommitted.
EventHeld(d) == eventLock[ev[d]] = d /\ ev[d] \notin webhookEvents

\* The payment is locked, and the transition that was checked is still valid.
PaymentHeld(d) ==
    /\ payLock[Ref(d)] = d
    /\ payments[Ref(d)] = "PROCESSING"
    /\ NewStatus(d) \in {"SUCCEEDED", "FAILED"}

\* The wallet is locked, and the balance to be written is a current one.
WalletHeld(d) ==
    /\ rowLock[Target(d)] = d
    /\ newBalance[d] = balance[Target(d)] + Orders[Ref(d)].amount

DeliveryInv(d) ==
    /\ dpc[d] \in {"payment", "wallet", "commit"} => EventHeld(d)
    /\ dpc[d] \in {"wallet", "commit"} => PaymentHeld(d)
    /\ dpc[d] = "wallet" => NewStatus(d) = "SUCCEEDED"
    /\ dpc[d] = "commit" /\ NewStatus(d) = "SUCCEEDED" => WalletHeld(d)

\* A recorded event has put its payment into a status that is never left.
RecordsInv ==
    \A e \in webhookEvents :
        /\ payments[EventOf[e].ref] = EventOf[e].status
        /\ EventOf[e].status \in {"SUCCEEDED", "FAILED"}

PayInv ==
    /\ PaymentsTypeOK
    /\ RowsInv
    /\ \A d \in Deliveries : DeliveryInv(d)
    /\ RecordsInv
    /\ AcknowledgedMeansRecorded

-----------------------------------------------------------------------------
(* The kinds of steps. *)

\* CreatePayment ends without a row.
NotSaved ==
    /\ unsaved' \subseteq Refs
    /\ UNCHANGED << dbVars, provider, payments, funded, webhookEvents, eventLock, payLock,
                    deliveryVars, acked >>

\* ProcessWebhook begins.
Starts(d) ==
    /\ dpc[d] = "idle"
    /\ \E e \in Events : ev' = [ev EXCEPT ![d] = e]
    /\ dpc' = [dpc EXCEPT ![d] = "dedup"]
    /\ funded' \subseteq Events
    /\ UNCHANGED << dbVars, provider, payments, unsaved, webhookEvents, eventLock, payLock,
                    newBalance, acked >>

\* The transaction ends without an effect; at most a duplicate is acknowledged.
Aborts(d) ==
    /\ EndTx(d)
    /\ \/ acked' = acked
       \/ acked' = acked \cup {ev[d]} /\ ev[d] \in webhookEvents
    /\ UNCHANGED << balance, status, ledger, outbox >>
    /\ UNCHANGED << provider, payments, unsaved, funded, webhookEvents >>

\* It commits, and the answer is sent or lost.
Settles(d) ==
    /\ dpc[d] = "commit"
    /\ ApplyWebhook(d)
    /\ acked' = acked \/ acked' = acked \cup {ev[d]}

\* One of the steps of delivery d.
DeliveryKinds(d) ==
    \/ Starts(d) \/ InsertWebhookEvent(d) \/ LockPayment(d) \/ CreditWallet(d)
    \/ Aborts(d) \/ Settles(d)

\* Every step is of one of these kinds.
LEMMA Kinds ==
    ASSUME PaymentsTypeOK, PaymentsNext
    PROVE  \/ \E r \in Refs : ProcessPayment(r) \/ SavePayment(r)
           \/ NotSaved
           \/ \E d \in Deliveries : DeliveryKinds(d)
           \/ \E w \in Wallets : WalletStep(w) /\ UNCHANGED paymentVars
<1>1. ASSUME NEW r \in Refs, RefusePayment(r) \/ CreatePaymentFails(r) PROVE NotSaved
  BY <1>1 DEF RefusePayment, CreatePaymentFails, NotSaved, PaymentsTypeOK
<1>2. ASSUME NEW d \in Deliveries, NEW e \in Events, HandleWebhook(d, e) \/ HandleDemoFund(d, e)
      PROVE  Starts(d)
  BY <1>2 DEF HandleWebhook, HandleDemoFund, Starts, PaymentsTypeOK
<1>3. ASSUME NEW d \in Deliveries, Reject(d, "other") PROVE Aborts(d)
  BY <1>3 DEF Reject, Reply, Aborts
<1>4. ASSUME NEW d \in Deliveries,
             \/ RejectDuplicate(d) \/ RejectUnknownPayment(d) \/ RejectTransition(d)
             \/ RejectCredit(d) \/ DeliveryError(d) \/ DeliveryAbandoned(d)
      PROVE  Aborts(d)
  <2>1. CASE RejectDuplicate(d)
    BY <2>1 DEF RejectDuplicate, Reject, Reply, Aborts
  <2>2. CASE RejectUnknownPayment(d)
    BY <2>2 DEF RejectUnknownPayment, Reject, Reply, Aborts
  <2>3. CASE RejectTransition(d)
    BY <2>3 DEF RejectTransition, Reject, Reply, Aborts
  <2>4. CASE DeliveryAbandoned(d)
    BY <2>4 DEF DeliveryAbandoned, Aborts
  <2> QED  BY <1>3, <1>4, <2>1, <2>2, <2>3, <2>4 DEF RejectCredit, DeliveryError
<1>5. ASSUME NEW d \in Deliveries, CommitWebhook(d) \/ CommitReplyLost(d) PROVE Settles(d)
  BY <1>5 DEF CommitWebhook, CommitReplyLost, Reply, Settles
<1>6. ASSUME NEW d \in Deliveries, DeliveryStep(d) \/ DeliveryFailure(d) PROVE DeliveryKinds(d)
  BY <1>4, <1>5, <1>6 DEF DeliveryStep, DeliveryFailure, DeliveryKinds
<1> QED
  BY <1>1, <1>2, <1>6 DEF PaymentsNext, PaymentStep, DeliveryKinds

-----------------------------------------------------------------------------
(* Types. *)

\* The conjuncts of PaymentsTypeOK about the tables and locks of payments.
LocalPaymentsTypeOK ==
    /\ provider \in [Refs -> {"NONE", "PROCESSING", "FAILED"}]
    /\ payments \in [Refs -> PaymentStatus]
    /\ unsaved \subseteq Refs
    /\ funded \subseteq Events
    /\ webhookEvents \subseteq Events
    /\ eventLock \in [Events -> Deliveries \cup {NoTx}]
    /\ payLock \in [Refs -> Deliveries \cup {NoTx}]
    /\ acked \subseteq Events

DeliveryTypeOK ==
    /\ dpc \in [Deliveries -> DeliveryPCs]
    /\ ev \in [Deliveries -> Events]
    /\ newBalance \in [Deliveries -> 0 .. MaxBigint]

\* PaymentsTypeOK by its parts.
LEMMA PaymentsTypeParts ==
    PaymentsTypeOK <=> DbTypeOK /\ LocalPaymentsTypeOK /\ DeliveryTypeOK
BY DEF PaymentsTypeOK, LocalPaymentsTypeOK, DeliveryTypeOK

\* What an event and the payment it reports hold.
LEMMA EventType ==
    ASSUME NEW e \in Events
    PROVE  /\ EventOf[e].ref \in Refs /\ EventOf[e].ref \in Nat
           /\ EventOf[e].status \in {"PROCESSING", "SUCCEEDED", "FAILED"}
<1>1. EventOf[e] \in [ref : Refs, status : {"PROCESSING", "SUCCEEDED", "FAILED"}, demo : BOOLEAN]
  BY PaymentsAssumption
<1>2. Refs \subseteq Nat
  BY PaymentsAssumption
<1> QED  BY <1>1, <1>2

\* What an order holds.
LEMMA OrderType ==
    ASSUME NEW r \in Refs
    PROVE  Orders[r].wallet \in Wallets /\ Orders[r].amount \in Int
           /\ Orders[r].currency \in Currencies
<1>1. Orders[r] \in [wallet : Wallets, amount : Int, currency : Currencies]
  BY PaymentsAssumption
<1> QED  BY <1>1

\* What a delivery works on.
LEMMA DeliveryType ==
    ASSUME DeliveryTypeOK, NEW d \in Deliveries
    PROVE  /\ d \in Sessions /\ d # NoTx
           /\ ev[d] \in Events /\ Ref(d) \in Refs /\ Ref(d) \in Nat
           /\ NewStatus(d) \in {"PROCESSING", "SUCCEEDED", "FAILED"}
           /\ Target(d) \in Wallets
           /\ Orders[Ref(d)].amount \in Int /\ Orders[Ref(d)].currency \in Currencies
<1>1. d \in Sessions /\ d # NoTx
  BY PaymentsAssumption, WalletsAssumption
<1>2. ev[d] \in Events
  BY DEF DeliveryTypeOK
<1>3. /\ Ref(d) \in Refs /\ Ref(d) \in Nat
      /\ NewStatus(d) \in {"PROCESSING", "SUCCEEDED", "FAILED"}
  BY <1>2, EventType DEF Ref, NewStatus
<1> QED  BY <1>1, <1>2, <1>3, OrderType DEF Target

\* The end of a transaction keeps the types of the locks and of its delivery.
LEMMA EndTxType ==
    ASSUME DbTypeOK, LocalPaymentsTypeOK, DeliveryTypeOK, NEW d \in Deliveries, EndTx(d)
    PROVE  /\ DeliveryTypeOK'
           /\ eventLock' \in [Events -> Deliveries \cup {NoTx}]
           /\ payLock' \in [Refs -> Deliveries \cup {NoTx}]
           /\ rowLock' \in [Wallets -> Sessions \cup {NoTx}]
<1>1. NoEvent \in Events
  BY PaymentsAssumption DEF NoEvent
<1>2. DeliveryTypeOK'
  BY <1>1, MaxBigintAssumption DEF EndTx, DeliveryTypeOK, DeliveryPCs
<1>3. rowLock' \in [Wallets -> Sessions \cup {NoTx}]
  BY ReleaseType DEF EndTx
<1> QED  BY <1>2, <1>3 DEF EndTx, LocalPaymentsTypeOK

\* The amount of a payment that is locked and PROCESSING is positive, and its
\* wallet exists.
LEMMA HeldPayment ==
    ASSUME PayInv, NEW d \in Deliveries, dpc[d] \in {"wallet", "commit"}
    PROVE  /\ Orders[Ref(d)].amount \in Nat \ {0}
           /\ status[Target(d)] # "ABSENT"
<1>1. DeliveryTypeOK
  BY PaymentsTypeParts DEF PayInv
<1>2. payments[Ref(d)] = "PROCESSING"
  BY DEF PayInv, DeliveryInv, PaymentHeld
<1> QED  BY <1>1, <1>2, DeliveryType DEF PayInv, RowsInv, Target

\* The rows of a commit have the types of their tables.
LEMMA SettlesDbType ==
    ASSUME PayInv, NEW d \in Deliveries, Settles(d)
    PROVE  DbTypeOK'
<1> DbTypeOK /\ LocalPaymentsTypeOK /\ DeliveryTypeOK
  BY PaymentsTypeParts DEF PayInv
<1>1. ApplyWebhook(d) /\ dpc[d] = "commit" /\ EndTx(d)
  BY DEF Settles, ApplyWebhook
<1>2. /\ Target(d) \in Wallets /\ Ref(d) \in Nat /\ Orders[Ref(d)].amount \in Nat \ {0}
      /\ Orders[Ref(d)].currency \in Currencies
  BY <1>1, DeliveryType, HeldPayment
<1>3. outbox' \in Seq(OutboxEvent)
  BY <1>1, <1>2 DEF ApplyWebhook, InsertEvent, DbTypeOK, OutboxEvent
<1>4. rowLock' \in [Wallets -> Sessions \cup {NoTx}] /\ status' = status
  BY <1>1, EndTxType DEF ApplyWebhook
<1>5. CASE NewStatus(d) # "SUCCEEDED"
  BY <1>1, <1>3, <1>4, <1>5 DEF ApplyWebhook, DbTypeOK
<1>6. CASE NewStatus(d) = "SUCCEEDED"
  <2>1. balance' \in [Wallets -> 0 .. MaxBigint]
    BY <1>1, <1>2, <1>6 DEF ApplyWebhook, DbTypeOK, DeliveryTypeOK
  <2> DEFINE txn == [type |-> "PAYMENT", ref |-> Ref(d), debit |-> PlatformAccount,
                     credit |-> Target(d), amount |-> Orders[Ref(d)].amount,
                     currency |-> Orders[Ref(d)].currency]
  <2>2. txn \in LedgerTxn
    BY <1>2 DEF LedgerTxn, Accounts
  <2>3. ledger' = Append(ledger, txn)
    BY <1>1, <1>6 DEF ApplyWebhook, PostLedger
  <2>4. ledger' \in Seq(LedgerTxn)
    <3> HIDE DEF txn
    <3> QED  BY <2>2, <2>3 DEF DbTypeOK
  <2> QED  BY <1>3, <1>4, <2>1, <2>4 DEF DbTypeOK
<1> QED  BY <1>5, <1>6

\* The steps of a delivery preserve the types.
LEMMA DeliveryStepType ==
    ASSUME PayInv, NEW d \in Deliveries, DeliveryKinds(d)
    PROVE  PaymentsTypeOK'
<1> DbTypeOK /\ LocalPaymentsTypeOK /\ DeliveryTypeOK
  BY PaymentsTypeParts DEF PayInv
<1> SUFFICES DbTypeOK' /\ LocalPaymentsTypeOK' /\ DeliveryTypeOK'
  BY PaymentsTypeParts DEF PaymentsTypeOK, LocalPaymentsTypeOK, DeliveryTypeOK
<1>0. ev[d] \in Events /\ Ref(d) \in Refs /\ Target(d) \in Wallets /\ d \in Sessions
  BY DeliveryType
<1>1. CASE Starts(d)
  BY <1>1 DEF Starts, DbTypeOK, LocalPaymentsTypeOK, DeliveryTypeOK, dbVars, DeliveryPCs
<1>2. CASE InsertWebhookEvent(d)
  BY <1>0, <1>2 DEF InsertWebhookEvent, DbTypeOK, LocalPaymentsTypeOK, DeliveryTypeOK, dbVars,
     DeliveryPCs
<1>3. CASE LockPayment(d)
  BY <1>0, <1>3 DEF LockPayment, DbTypeOK, LocalPaymentsTypeOK, DeliveryTypeOK, dbVars,
     DeliveryPCs
<1>4. CASE CreditWallet(d)
  <2>1. DbTypeOK'
    BY <1>0, <1>4, LockTaken DEF CreditWallet, DbTypeOK
  <2>2. Orders[Ref(d)].amount \in Nat
    BY <1>4, HeldPayment DEF CreditWallet
  <2>3. balance[Target(d)] + Orders[Ref(d)].amount \in 0 .. MaxBigint
    BY <1>0, <1>4, <2>2, MaxBigintAssumption DEF CreditWallet, Creditable, DbTypeOK
  <2> QED  BY <1>4, <2>1, <2>3 DEF CreditWallet, LocalPaymentsTypeOK, DeliveryTypeOK, DeliveryPCs
<1>5. CASE Aborts(d)
  BY <1>0, <1>5, EndTxType DEF Aborts, DbTypeOK, LocalPaymentsTypeOK
<1>6. CASE Settles(d)
  <2>1. payments' \in [Refs -> PaymentStatus]
    BY <1>0, <1>6, DeliveryType DEF Settles, ApplyWebhook, LocalPaymentsTypeOK, PaymentStatus
  <2> QED  BY <1>0, <1>6, <2>1, SettlesDbType, EndTxType
           DEF Settles, ApplyWebhook, LocalPaymentsTypeOK
<1> QED  BY <1>1, <1>2, <1>3, <1>4, <1>5, <1>6 DEF DeliveryKinds

\* Every step preserves the types.
LEMMA PaymentsTypeStep ==
    ASSUME PayInv, [PaymentsNext]_payVars
    PROVE  PaymentsTypeOK'
<1> DbTypeOK /\ LocalPaymentsTypeOK /\ DeliveryTypeOK /\ PaymentsTypeOK
  BY PaymentsTypeParts DEF PayInv
<1>1. ASSUME NEW r \in Refs, ProcessPayment(r) \/ SavePayment(r) PROVE PaymentsTypeOK'
  <2>1. DbTypeOK' /\ DeliveryTypeOK'
    BY <1>1 DEF ProcessPayment, SavePayment, DbTypeOK, DeliveryTypeOK, dbVars, deliveryVars
  <2>2. CASE ProcessPayment(r)
    BY <2>1, <2>2 DEF ProcessPayment, PaymentsTypeOK, LocalPaymentsTypeOK, DeliveryTypeOK
  <2>3. CASE SavePayment(r)
    BY <2>1, <2>3
    DEF SavePayment, Saving, PaymentsTypeOK, LocalPaymentsTypeOK, DeliveryTypeOK, PaymentStatus
  <2> QED  BY <1>1, <2>2, <2>3
<1>2. CASE NotSaved
  BY <1>2 DEF NotSaved, PaymentsTypeOK, DbTypeOK, dbVars, deliveryVars
<1>3. ASSUME NEW w \in Wallets, WalletStep(w), UNCHANGED paymentVars PROVE PaymentsTypeOK'
  BY <1>3, WalletStepDbType DEF PaymentsTypeOK, paymentVars
<1>4. CASE UNCHANGED payVars
  BY <1>4 DEF payVars, PaymentsTypeOK, DbTypeOK, dbVars, paymentVars
<1> QED  BY <1>1, <1>2, <1>3, <1>4, Kinds, DeliveryStepType

-----------------------------------------------------------------------------
(* What a delivery holds. *)

\* A delivery that does not move keeps its invariant as long as nobody touches
\* what it has locked.
LEMMA DeliveryFrame ==
    ASSUME DeliveryTypeOK, NEW d \in Deliveries, DeliveryInv(d),
           dpc'[d] = dpc[d], ev'[d] = ev[d], newBalance'[d] = newBalance[d],
           \A e \in Events : eventLock[e] = d =>
               eventLock'[e] = d /\ (e \in webhookEvents' => e \in webhookEvents),
           \A r \in Refs : payLock[r] = d /\ payments[r] = "PROCESSING" =>
               payLock'[r] = d /\ payments'[r] = payments[r],
           dpc[d] = "commit" /\ rowLock[Target(d)] = d =>
               rowLock'[Target(d)] = d /\ balance'[Target(d)] = balance[Target(d)]
    PROVE  DeliveryInv(d)'
<1>1. ev[d] \in Events /\ Ref(d) \in Refs /\ Target(d) \in Wallets
  BY DeliveryType
<1>2. Ref(d)' = Ref(d) /\ NewStatus(d)' = NewStatus(d) /\ Target(d)' = Target(d)
  BY DEF Ref, NewStatus, Target
<1>3. EventHeld(d) => EventHeld(d)'
  BY <1>1 DEF EventHeld
<1>4. PaymentHeld(d) => PaymentHeld(d)'
  BY <1>1, <1>2 DEF PaymentHeld
<1>5. WalletHeld(d) /\ dpc[d] = "commit" => WalletHeld(d)'
  BY <1>1, <1>2 DEF WalletHeld
<1> QED  BY <1>2, <1>3, <1>4, <1>5 DEF DeliveryInv

\* A delivery that has not inserted its event yet has nothing to hold.
LEMMA DeliveryOutside ==
    ASSUME NEW d \in Deliveries, dpc'[d] \in {"idle", "dedup"}
    PROVE  DeliveryInv(d)'
BY DEF DeliveryInv

\* The local state of the other deliveries is left alone.
OtherDeliveries(d) ==
    \A f \in Deliveries \ {d} : dpc'[f] = dpc[f] /\ ev'[f] = ev[f] /\ newBalance'[f] = newBalance[f]

\* The end of a transaction releases nobody else's locks.
LEMMA EndTxFrame ==
    ASSUME DbTypeOK, LocalPaymentsTypeOK, DeliveryTypeOK, NEW d \in Deliveries, EndTx(d)
    PROVE  /\ OtherDeliveries(d) /\ dpc'[d] = "idle"
           /\ \A f \in Deliveries \ {d} :
                 /\ \A e \in Events : eventLock[e] = f => eventLock'[e] = f
                 /\ \A r \in Refs : payLock[r] = f => payLock'[r] = f
                 /\ \A w \in Wallets : rowLock[w] = f => rowLock'[w] = f
<1>1. OtherDeliveries(d) /\ dpc'[d] = "idle"
  BY DEF EndTx, OtherDeliveries, DeliveryTypeOK
<1>2. ASSUME NEW f \in Deliveries \ {d}
      PROVE  /\ \A e \in Events : eventLock[e] = f => eventLock'[e] = f
             /\ \A r \in Refs : payLock[r] = f => payLock'[r] = f
  BY <1>2 DEF EndTx, LocalPaymentsTypeOK
<1>3. ASSUME NEW f \in Deliveries \ {d}, NEW w \in Wallets, rowLock[w] = f PROVE rowLock'[w] = f
  BY <1>3 DEF EndTx, ReleaseLocks, DbTypeOK
<1> QED  BY <1>1, <1>2, <1>3

\* Inserting the event, locking the payment and crediting the wallet.
LEMMA DeliveryLocks ==
    ASSUME PayInv, NEW d \in Deliveries,
           InsertWebhookEvent(d) \/ LockPayment(d) \/ CreditWallet(d)
    PROVE  \A f \in Deliveries : DeliveryInv(f)'
<1> DbTypeOK /\ LocalPaymentsTypeOK /\ DeliveryTypeOK /\ \A f \in Deliveries : DeliveryInv(f)
  BY PaymentsTypeParts DEF PayInv
<1>0. ev[d] \in Events /\ Ref(d) \in Refs /\ Target(d) \in Wallets /\ d \in Sessions /\ d # NoTx
  BY DeliveryType
<1>1. UNCHANGED << ev, webhookEvents, payments, balance >>
  BY DEF InsertWebhookEvent, LockPayment, CreditWallet, dbVars
<1>2. Ref(d)' = Ref(d) /\ NewStatus(d)' = NewStatus(d) /\ Target(d)' = Target(d)
  BY <1>1 DEF Ref, NewStatus, Target
<1>3. OtherDeliveries(d)
  BY DEF InsertWebhookEvent, LockPayment, CreditWallet, OtherDeliveries, DeliveryTypeOK
<1>4. \A f \in Deliveries, e \in Events : eventLock[e] = f => eventLock'[e] = f
  BY <1>0, DeliveryType DEF InsertWebhookEvent, LockPayment, CreditWallet, LocalPaymentsTypeOK
<1>5. \A f \in Deliveries, r \in Refs : payLock[r] = f => payLock'[r] = f
  BY <1>0, DeliveryType DEF InsertWebhookEvent, LockPayment, CreditWallet, LocalPaymentsTypeOK
<1>6. \A f \in Deliveries, w \in Wallets : rowLock[w] = f => rowLock'[w] = f
  BY <1>0, DeliveryType DEF InsertWebhookEvent, LockPayment, CreditWallet, CanLock, DbTypeOK, dbVars
<1>7. DeliveryInv(d)'
  <2>1. CASE InsertWebhookEvent(d)
    <3>1. dpc'[d] = "payment" /\ eventLock'[ev[d]] = d /\ ev[d] \notin webhookEvents
      BY <1>0, <2>1 DEF InsertWebhookEvent, LocalPaymentsTypeOK, DeliveryTypeOK
    <3> QED  BY <1>1, <3>1 DEF DeliveryInv, EventHeld
  <2>2. CASE LockPayment(d)
    <3>1. /\ dpc[d] = "payment" /\ payLock'[Ref(d)] = d
          /\ dpc'[d] = IF NewStatus(d) = "SUCCEEDED" THEN "wallet" ELSE "commit"
          /\ isValidTransition(payments[Ref(d)], NewStatus(d))
      BY <1>0, <2>2 DEF LockPayment, LocalPaymentsTypeOK, DeliveryTypeOK
    <3>2. payments[Ref(d)] = "PROCESSING" /\ NewStatus(d) \in {"SUCCEEDED", "FAILED"}
      BY <1>0, <3>1 DEF isValidTransition, PayInv, RowsInv
    <3>3. PaymentHeld(d)'
      BY <1>1, <1>2, <3>1, <3>2 DEF PaymentHeld
    <3>4. EventHeld(d)
      BY <3>1 DEF DeliveryInv
    <3>5. EventHeld(d)'
      BY <1>0, <1>1, <1>4, <3>4 DEF EventHeld
    <3> QED  BY <1>2, <3>1, <3>3, <3>5 DEF DeliveryInv
  <2>3. CASE CreditWallet(d)
    <3>1. /\ dpc[d] = "wallet" /\ dpc'[d] = "commit" /\ rowLock'[Target(d)] = d
          /\ newBalance'[d] = balance[Target(d)] + Orders[Ref(d)].amount
      BY <1>0, <2>3 DEF CreditWallet, DbTypeOK, DeliveryTypeOK
    <3>2. EventHeld(d) /\ PaymentHeld(d)
      BY <3>1 DEF DeliveryInv
    <3>3. EventHeld(d)' /\ PaymentHeld(d)'
      BY <1>0, <1>1, <1>2, <1>4, <1>5, <3>2 DEF EventHeld, PaymentHeld
    <3>4. WalletHeld(d)'
      BY <1>1, <1>2, <3>1 DEF WalletHeld
    <3> QED  BY <3>1, <3>3, <3>4 DEF DeliveryInv
  <2> QED  BY <2>1, <2>2, <2>3
<1>8. ASSUME NEW f \in Deliveries \ {d} PROVE DeliveryInv(f)'
  <2>1. Target(f) \in Wallets
    BY DeliveryType
  <2> QED  BY <1>1, <1>3, <1>4, <1>5, <1>6, <1>8, <2>1, DeliveryFrame DEF OtherDeliveries
<1> QED  BY <1>7, <1>8

\* A commit changes only rows that its delivery has locked, so what the others
\* have read stays true.
LEMMA DeliverySettles ==
    ASSUME PayInv, NEW d \in Deliveries, Settles(d)
    PROVE  \A f \in Deliveries : DeliveryInv(f)'
<1> DbTypeOK /\ LocalPaymentsTypeOK /\ DeliveryTypeOK /\ \A f \in Deliveries : DeliveryInv(f)
  BY PaymentsTypeParts DEF PayInv
<1>0. ev[d] \in Events /\ Ref(d) \in Refs /\ Target(d) \in Wallets
  BY DeliveryType
<1>1. ApplyWebhook(d) /\ dpc[d] = "commit" /\ EndTx(d)
  BY DEF Settles, ApplyWebhook
<1>2. EventHeld(d) /\ PaymentHeld(d) /\ (NewStatus(d) = "SUCCEEDED" => WalletHeld(d))
  BY <1>1 DEF DeliveryInv
<1>3. DeliveryInv(d)'
  BY <1>1, EndTxFrame, DeliveryOutside
<1>4. ASSUME NEW f \in Deliveries \ {d} PROVE DeliveryInv(f)'
  <2>1. ASSUME NEW e \in Events, eventLock[e] = f, e \in webhookEvents' PROVE e \in webhookEvents
    BY <1>1, <1>2, <1>4, <2>1 DEF ApplyWebhook, EventHeld
  <2>2. ASSUME NEW r \in Refs, payLock[r] = f PROVE payments'[r] = payments[r]
    BY <1>0, <1>1, <1>2, <1>4, <2>2 DEF ApplyWebhook, PaymentHeld, LocalPaymentsTypeOK
  <2>3. ASSUME NEW w \in Wallets, rowLock[w] = f PROVE balance'[w] = balance[w]
    BY <1>0, <1>1, <1>2, <1>4, <2>3 DEF ApplyWebhook, WalletHeld, DbTypeOK
  <2>4. Target(f) \in Wallets
    BY DeliveryType
  <2>5. /\ OtherDeliveries(d)
        /\ \A e \in Events : eventLock[e] = f => eventLock'[e] = f
        /\ \A r \in Refs : payLock[r] = f => payLock'[r] = f
        /\ \A w \in Wallets : rowLock[w] = f => rowLock'[w] = f
    BY <1>1, <1>4, EndTxFrame
  <2> QED  BY <1>4, <2>1, <2>2, <2>3, <2>4, <2>5, DeliveryFrame DEF OtherDeliveries
<1> QED  BY <1>3, <1>4

\* Nothing is held that CreatePayment or a wallet operation could change: a
\* locked payment exists already, and so does its wallet.
LEMMA DeliveriesUndisturbed ==
    ASSUME PayInv, UNCHANGED << dpc, ev, newBalance, eventLock, payLock, webhookEvents, rowLock >>,
           \A r \in Refs : payments[r] # "ABSENT" => payments'[r] = payments[r],
           \A w \in Wallets : status[w] # "ABSENT" => balance'[w] = balance[w]
    PROVE  \A d \in Deliveries : DeliveryInv(d)'
<1> DeliveryTypeOK /\ \A d \in Deliveries : DeliveryInv(d)
  BY PaymentsTypeParts DEF PayInv
<1> SUFFICES ASSUME NEW d \in Deliveries PROVE DeliveryInv(d)'
  OBVIOUS
<1>1. Target(d) \in Wallets
  BY DeliveryType
<1>2. dpc[d] = "commit" => balance'[Target(d)] = balance[Target(d)]
  BY <1>1, HeldPayment
<1> QED  BY <1>2, DeliveryFrame

\* Every step preserves what the deliveries hold.
LEMMA DeliveryInvStep ==
    ASSUME PayInv, [PaymentsNext]_payVars
    PROVE  \A d \in Deliveries : DeliveryInv(d)'
<1> /\ DbTypeOK /\ LocalPaymentsTypeOK /\ DeliveryTypeOK /\ PaymentsTypeOK
    /\ \A d \in Deliveries : DeliveryInv(d)
  BY PaymentsTypeParts DEF PayInv
<1>1. ASSUME NEW r \in Refs, ProcessPayment(r) \/ SavePayment(r)
      PROVE  \A d \in Deliveries : DeliveryInv(d)'
  <2>1. \A q \in Refs : payments[q] # "ABSENT" => payments'[q] = payments[q]
    BY <1>1 DEF ProcessPayment, SavePayment, Saving, LocalPaymentsTypeOK
  <2> QED  BY <1>1, <2>1, DeliveriesUndisturbed DEF ProcessPayment, SavePayment, dbVars, deliveryVars
<1>2. CASE NotSaved
  BY <1>2, DeliveriesUndisturbed DEF NotSaved, dbVars, deliveryVars
<1>3. ASSUME NEW w \in Wallets, WalletStep(w), UNCHANGED paymentVars
      PROVE  \A d \in Deliveries : DeliveryInv(d)'
  <2>1. rowLock' = rowLock /\ \A v \in Wallets : status[v] # "ABSENT" => balance'[v] = balance[v]
    BY <1>3 DEF WalletStep, CreateWallet, UpdateWalletStatus, DbTypeOK
  <2> QED  BY <1>3, <2>1, DeliveriesUndisturbed DEF paymentVars
<1>4. CASE UNCHANGED payVars
  BY <1>4, DeliveriesUndisturbed DEF payVars, dbVars, paymentVars
<1>5. ASSUME NEW d \in Deliveries, DeliveryKinds(d) PROVE \A f \in Deliveries : DeliveryInv(f)'
  <2>1. CASE Starts(d)
    <3>1. dpc'[d] = "dedup" /\ OtherDeliveries(d)
      BY <2>1 DEF Starts, DeliveryTypeOK, OtherDeliveries
    <3>2. \A f \in Deliveries \ {d} : DeliveryInv(f)'
      BY <2>1, <3>1, DeliveryFrame DEF Starts, OtherDeliveries, dbVars
    <3> QED  BY <3>1, <3>2, DeliveryOutside
  <2>2. CASE Aborts(d)
    <3>1. dpc'[d] = "idle"
      BY <2>2, EndTxFrame DEF Aborts
    <3>2. ASSUME NEW f \in Deliveries \ {d} PROVE DeliveryInv(f)'
      <4>1. Target(f) \in Wallets
        BY DeliveryType
      <4> QED  BY <2>2, <3>2, <4>1, EndTxFrame, DeliveryFrame DEF Aborts, OtherDeliveries
    <3> QED  BY <3>1, <3>2, DeliveryOutside
  <2> QED  BY <1>5, <2>1, <2>2, DeliveryLocks, DeliverySettles DEF DeliveryKinds
<1> QED  BY <1>1, <1>2, <1>3, <1>4, <1>5, Kinds

-----------------------------------------------------------------------------
(* Rows of payments, recorded and acknowledged events. *)

\* Nobody but CreatePayment and a commit writes to payments, and nobody removes
\* a wallet.
LEMMA RowsStep ==
    ASSUME PayInv, [PaymentsNext]_payVars
    PROVE  RowsInv'
<1> DbTypeOK /\ LocalPaymentsTypeOK /\ DeliveryTypeOK /\ PaymentsTypeOK /\ RowsInv
  BY PaymentsTypeParts DEF PayInv
<1>0. \A r \in Refs : Orders[r].wallet \in Wallets
  BY OrderType
<1>1. ASSUME UNCHANGED << payments, status >> PROVE RowsInv'
  BY <1>1 DEF RowsInv
<1>2. ASSUME NEW r \in Refs, SavePayment(r) PROVE RowsInv'
  <2>1. provider[r] \in {"PROCESSING", "FAILED"}
    BY <1>2 DEF SavePayment, Saving, LocalPaymentsTypeOK
  <2> QED  BY <1>2, <2>1 DEF SavePayment, RowsInv, LocalPaymentsTypeOK, dbVars
<1>3. ASSUME NEW d \in Deliveries, Settles(d) PROVE RowsInv'
  <2>1. Ref(d) \in Refs /\ payments[Ref(d)] = "PROCESSING" /\ NewStatus(d) # "CREATED"
    BY <1>3, DeliveryType DEF Settles, PayInv, DeliveryInv, PaymentHeld
  <2> QED  BY <1>3, <2>1 DEF Settles, ApplyWebhook, RowsInv, LocalPaymentsTypeOK
<1>4. ASSUME NEW d \in Deliveries, DeliveryKinds(d) PROVE RowsInv'
  BY <1>1, <1>3, <1>4
  DEF DeliveryKinds, Starts, InsertWebhookEvent, LockPayment, CreditWallet, Aborts, dbVars
<1>5. ASSUME NEW w \in Wallets, WalletStep(w), UNCHANGED paymentVars PROVE RowsInv'
  <2>1. \A v \in Wallets : status[v] # "ABSENT" => status'[v] # "ABSENT"
    BY <1>5 DEF WalletStep, CreateWallet, UpdateWalletStatus, DbTypeOK
  <2> QED  BY <1>0, <1>5, <2>1 DEF RowsInv, paymentVars
<1>6. CASE UNCHANGED payVars
  BY <1>1, <1>6 DEF payVars, dbVars, paymentVars
<1>7. ASSUME NEW r \in Refs, ProcessPayment(r) PROVE RowsInv'
  BY <1>1, <1>7 DEF ProcessPayment, dbVars
<1>8. CASE NotSaved
  BY <1>1, <1>8 DEF NotSaved, dbVars
<1> QED  BY <1>2, <1>4, <1>5, <1>6, <1>7, <1>8, Kinds

\* An event is recorded in the transaction that applies it, and an
\* acknowledgement is sent after that.
LEMMA RecordsStep ==
    ASSUME PayInv, [PaymentsNext]_payVars
    PROVE  RecordsInv' /\ AcknowledgedMeansRecorded'
<1> /\ DbTypeOK /\ LocalPaymentsTypeOK /\ DeliveryTypeOK /\ PaymentsTypeOK
    /\ RecordsInv /\ AcknowledgedMeansRecorded
  BY PaymentsTypeParts DEF PayInv
<1>0. \A e \in webhookEvents : e \in Events /\ EventOf[e].ref \in Refs
  BY EventType DEF LocalPaymentsTypeOK
<1>1. ASSUME UNCHANGED << payments, webhookEvents, acked >>
      PROVE  RecordsInv' /\ AcknowledgedMeansRecorded'
  BY <1>1 DEF RecordsInv, AcknowledgedMeansRecorded
<1>2. ASSUME NEW r \in Refs, SavePayment(r) PROVE RecordsInv' /\ AcknowledgedMeansRecorded'
  <2>1. \A e \in webhookEvents : EventOf[e].ref # r
    BY <1>2 DEF SavePayment, Saving, RecordsInv
  <2> QED  BY <1>0, <1>2, <2>1
           DEF SavePayment, RecordsInv, AcknowledgedMeansRecorded, LocalPaymentsTypeOK
<1>3. ASSUME NEW d \in Deliveries, Settles(d) PROVE RecordsInv' /\ AcknowledgedMeansRecorded'
  <2>1. /\ Ref(d) \in Refs /\ ev[d] \in Events /\ payments[Ref(d)] = "PROCESSING"
        /\ NewStatus(d) \in {"SUCCEEDED", "FAILED"}
    BY <1>3, DeliveryType DEF Settles, PayInv, DeliveryInv, PaymentHeld
  <2>2. /\ payments' = [payments EXCEPT ![Ref(d)] = NewStatus(d)]
        /\ webhookEvents' = webhookEvents \cup {ev[d]}
        /\ acked' = acked \/ acked' = acked \cup {ev[d]}
    BY <1>3 DEF Settles, ApplyWebhook
  <2>3. ASSUME NEW e \in webhookEvents
        PROVE  /\ payments'[EventOf[e].ref] = EventOf[e].status
               /\ EventOf[e].status \in {"SUCCEEDED", "FAILED"}
    <3>1. /\ payments[EventOf[e].ref] = EventOf[e].status
          /\ EventOf[e].status \in {"SUCCEEDED", "FAILED"} /\ EventOf[e].ref \in Refs
      BY <1>0, <2>3 DEF RecordsInv
    <3>2. EventOf[e].ref # Ref(d)
      BY <2>1, <3>1
    <3> QED  BY <2>2, <3>1, <3>2 DEF LocalPaymentsTypeOK
  <2>4. payments'[EventOf[ev[d]].ref] = EventOf[ev[d]].status
    BY <2>1, <2>2 DEF Ref, NewStatus, LocalPaymentsTypeOK
  <2>5. RecordsInv'
    BY <2>1, <2>2, <2>3, <2>4 DEF RecordsInv, NewStatus
  <2> QED  BY <2>2, <2>5 DEF AcknowledgedMeansRecorded
<1>4. ASSUME NEW d \in Deliveries, Aborts(d) PROVE RecordsInv' /\ AcknowledgedMeansRecorded'
  BY <1>4 DEF Aborts, RecordsInv, AcknowledgedMeansRecorded
<1>5. ASSUME NEW d \in Deliveries, DeliveryKinds(d) PROVE RecordsInv' /\ AcknowledgedMeansRecorded'
  BY <1>1, <1>3, <1>4, <1>5
  DEF DeliveryKinds, Starts, InsertWebhookEvent, LockPayment, CreditWallet
<1>6. CASE UNCHANGED paymentVars
  BY <1>1, <1>6 DEF paymentVars
<1>7. ASSUME NEW r \in Refs, ProcessPayment(r) PROVE RecordsInv' /\ AcknowledgedMeansRecorded'
  BY <1>1, <1>7 DEF ProcessPayment
<1>8. CASE NotSaved
  BY <1>1, <1>8 DEF NotSaved
<1> QED  BY <1>2, <1>5, <1>6, <1>7, <1>8, Kinds DEF payVars

\* PayInv holds at first.
LEMMA PayInit == PaymentsInit => PayInv
<1> SUFFICES ASSUME PaymentsInit PROVE PayInv
  OBVIOUS
<1>1. DbTypeOK
  BY DbInitType DEF PaymentsInit
<1>2. NoEvent \in Events
  BY PaymentsAssumption DEF NoEvent
<1>3. PaymentsTypeOK
  BY <1>1, <1>2, MaxBigintAssumption DEF PaymentsInit, PaymentsTypeOK, PaymentStatus, DeliveryPCs
<1> QED  BY <1>3 DEF PaymentsInit, PayInv, RowsInv, DeliveryInv, RecordsInv, AcknowledgedMeansRecorded

\* Every step preserves PayInv.
LEMMA PayStep == PayInv /\ [PaymentsNext]_payVars => PayInv'
BY PaymentsTypeStep, DeliveryInvStep, RowsStep, RecordsStep DEF PayInv

\* Every variable of the payment service keeps its type: no credit takes a
\* balance beyond BIGINT, whatever is delivered when.
THEOREM PaymentsTypeCorrect == PaymentsSpec => []PaymentsTypeOK
<1>1. PayInv => PaymentsTypeOK
  BY DEF PayInv
<1> QED  BY <1>1, PayInit, PayStep, PTL DEF PaymentsSpec

\* An event is recorded in webhook_events only together with its effect, which
\* lasts: neither a refusal nor a crash of ProcessWebhook records it alone.
THEOREM RecordedIsApplied == PaymentsSpec => []RecordedMeansApplied
<1>1. PayInv => RecordedMeansApplied
  BY DEF PayInv, RecordsInv, RecordedMeansApplied
<1> QED  BY <1>1, PayInit, PayStep, PTL DEF PaymentsSpec

\* The provider gets a 200 only for an event that is recorded for good.
THEOREM AcknowledgedIsRecorded == PaymentsSpec => []AcknowledgedMeansRecorded
<1>1. PayInv => AcknowledgedMeansRecorded
  BY DEF PayInv
<1> QED  BY <1>1, PayInit, PayStep, PTL DEF PaymentsSpec

-----------------------------------------------------------------------------
(* The books. *)

\* A step that is not the commit of a deposit leaves the books alone.
LEMMA PaymentsBooksUntouched ==
    ASSUME PaymentsTypeOK, [PaymentsNext]_payVars
    PROVE  \/ UNCHANGED << balance, status, ledger >>
           \/ \E d \in Deliveries : Settles(d)
           \/ \E w \in Wallets : WalletStep(w) /\ UNCHANGED paymentVars
<1>1. ASSUME NEW d \in Deliveries, DeliveryKinds(d), ~Settles(d)
      PROVE  UNCHANGED << balance, status, ledger >>
  BY <1>1 DEF DeliveryKinds, Starts, InsertWebhookEvent, LockPayment, CreditWallet, Aborts, dbVars
<1>2. ASSUME NEW r \in Refs, ProcessPayment(r) \/ SavePayment(r)
      PROVE  UNCHANGED << balance, status, ledger >>
  BY <1>2 DEF ProcessPayment, SavePayment, dbVars
<1>3. ASSUME NotSaved \/ UNCHANGED payVars PROVE UNCHANGED << balance, status, ledger >>
  BY <1>3 DEF NotSaved, payVars, dbVars
<1> QED  BY <1>1, <1>2, <1>3, Kinds

\* What a commit writes: a status that is not SUCCEEDED leaves the books alone,
\* a SUCCEEDED one adds the amount to a balance that is still current, and
\* posts it.
LEMMA Deposit ==
    ASSUME PayInv, NEW d \in Deliveries, Settles(d), NewStatus(d) = "SUCCEEDED"
    PROVE  /\ Target(d) \in Wallets /\ Ref(d) \in Refs /\ Ref(d) \in Nat
           /\ Orders[Ref(d)].amount \in Nat \ {0} /\ Orders[Ref(d)].currency \in Currencies
           /\ status[Target(d)] # "ABSENT" /\ status' = status
           /\ balance[Target(d)] + Orders[Ref(d)].amount <= MaxBigint
           /\ balance' = [balance EXCEPT ![Target(d)] = @ + Orders[Ref(d)].amount]
           /\ PostLedger("PAYMENT", Ref(d), PlatformAccount, Target(d),
                         Orders[Ref(d)].amount, Orders[Ref(d)].currency)
<1> DeliveryTypeOK /\ DbTypeOK
  BY PaymentsTypeParts DEF PayInv
<1>1. dpc[d] = "commit" /\ ApplyWebhook(d)
  BY DEF Settles
<1>2. /\ Target(d) \in Wallets /\ Ref(d) \in Refs /\ Ref(d) \in Nat
      /\ Orders[Ref(d)].currency \in Currencies
  BY DeliveryType
<1>3. Orders[Ref(d)].amount \in Nat \ {0} /\ status[Target(d)] # "ABSENT"
  BY <1>1, HeldPayment
<1>4. newBalance[d] = balance[Target(d)] + Orders[Ref(d)].amount
  BY <1>1 DEF PayInv, DeliveryInv, WalletHeld
<1>5. newBalance[d] <= MaxBigint
  BY MaxBigintAssumption DEF DeliveryTypeOK
<1>6. balance' = [balance EXCEPT ![Target(d)] = @ + Orders[Ref(d)].amount]
  BY <1>1, <1>4 DEF ApplyWebhook
<1> QED  BY <1>1, <1>2, <1>3, <1>4, <1>5, <1>6 DEF ApplyWebhook

\* It moves the amount from the platform's account to the wallet's.
LEMMA DepositNet ==
    ASSUME PayInv, NEW d \in Deliveries, Settles(d), NewStatus(d) = "SUCCEEDED"
    PROVE  Net' = [Net EXCEPT ![PlatformAccount] = @ - Orders[Ref(d)].amount,
                              ![Target(d)] = @ + Orders[Ref(d)].amount]
<1> DbTypeOK
  BY PaymentsTypeParts DEF PayInv
<1>1. /\ Target(d) \in Accounts /\ PlatformAccount \in Accounts /\ PlatformAccount # Target(d)
      /\ Orders[Ref(d)].amount \in Nat /\ Orders[Ref(d)].currency \in Currencies
      /\ Ref(d) \in Nat
  BY Deposit, WalletsAssumption DEF Accounts
<1>2. PostLedger("PAYMENT", Ref(d), PlatformAccount, Target(d),
                 Orders[Ref(d)].amount, Orders[Ref(d)].currency)
  BY Deposit
<1> QED  BY <1>1, <1>2, NetPost

\* Every step preserves BooksInv.
LEMMA PaymentsBooksStep == PayInv /\ BooksInv /\ [PaymentsNext]_payVars => BooksInv'
<1> SUFFICES ASSUME PayInv, BooksInv, [PaymentsNext]_payVars PROVE BooksInv'
  OBVIOUS
<1> DbTypeOK /\ PaymentsTypeOK
  BY PaymentsTypeParts DEF PayInv
<1>1. ASSUME UNCHANGED << balance, status, ledger >> PROVE BooksInv'
  BY <1>1, NetFrame DEF BooksInv, BalanceMatchesLedger, AbsentIsEmpty
<1>2. ASSUME NEW w \in Wallets, WalletStep(w) PROVE BooksInv'
  BY <1>2, BooksWalletStep
<1>3. ASSUME NEW d \in Deliveries, Settles(d) PROVE BooksInv'
  <2>1. CASE NewStatus(d) # "SUCCEEDED"
    BY <1>1, <1>3, <2>1 DEF Settles, ApplyWebhook
  <2>2. CASE NewStatus(d) = "SUCCEEDED"
    <3> DEFINE t == Target(d)
               m == Orders[Ref(d)].amount
    <3>1. /\ t \in Wallets /\ m \in Nat /\ status[t] # "ABSENT" /\ status' = status
          /\ balance' = [balance EXCEPT ![t] = @ + m]
          /\ Net' = [Net EXCEPT ![PlatformAccount] = @ - m, ![t] = @ + m]
      BY <1>3, <2>2, Deposit, DepositNet
    <3>2. PlatformAccount \notin Wallets /\ Wallets \subseteq Accounts /\ PlatformAccount \in Accounts
      BY WalletsAssumption DEF Accounts
    <3> HIDE DEF t, m
    <3>3. balance'[t] = balance[t] + m /\ \A w \in Wallets \ {t} : balance'[w] = balance[w]
      BY <3>1 DEF DbTypeOK
    <3>4. Net'[t] = Net[t] + m /\ \A w \in Wallets \ {t} : Net'[w] = Net[w]
      BY <3>1, <3>2, NetType
    <3> QED  BY <3>1, <3>3, <3>4 DEF BooksInv, BalanceMatchesLedger, AbsentIsEmpty
  <2> QED  BY <2>1, <2>2
<1> QED  BY <1>1, <1>2, <1>3, PaymentsBooksUntouched

\* available_balance equals the net of the ledger entries at every moment:
\* a webhook never writes one without the other.
THEOREM PaymentsBooksAgree == PaymentsSpec => []BalanceMatchesLedger
<1>1. BooksInv => BalanceMatchesLedger
  BY DEF BooksInv
<1>2. PaymentsInit => BooksInv
  BY BooksDbInit DEF PaymentsInit
<1> QED  BY <1>1, <1>2, PayInit, PayStep, PaymentsBooksStep, PTL DEF PaymentsSpec

-----------------------------------------------------------------------------
(* Each payment is credited once. *)

\* A deposit adds a posting for its own payment, and for no other.
LEMMA DepositPostings ==
    ASSUME DbTypeOK, NEW r \in Nat, NEW w \in Wallets, NEW amount \in Nat,
           NEW currency \in Currencies,
           PostLedger("PAYMENT", r, PlatformAccount, w, amount, currency)
    PROVE  /\ Postings(r)' = Postings(r) \cup {Len(ledger) + 1}
           /\ Len(ledger) + 1 \in DOMAIN ledger'
           /\ ledger'[Len(ledger) + 1].credit = w
           /\ ledger'[Len(ledger) + 1].amount = amount
           /\ \A q \in Nat \ {r} : Postings(q)' = Postings(q)
           /\ \A i \in DOMAIN ledger : i \in DOMAIN ledger' /\ ledger'[i] = ledger[i]
<1> DEFINE txn == [type |-> "PAYMENT", ref |-> r, debit |-> PlatformAccount,
                   credit |-> w, amount |-> amount, currency |-> currency]
           n == Len(ledger)
<1>1. ledger \in Seq(LedgerTxn) /\ ledger' = Append(ledger, txn)
  BY DEF DbTypeOK, PostLedger
<1>2. txn \in LedgerTxn
  BY DEF LedgerTxn, Accounts
<1>3. txn.type = "PAYMENT" /\ txn.ref = r /\ txn.credit = w /\ txn.amount = amount
  OBVIOUS
<1> HIDE DEF txn
<1>4. /\ n \in Nat /\ DOMAIN ledger = 1 .. n /\ DOMAIN ledger' = 1 .. (n + 1)
      /\ ledger'[n + 1] = txn /\ \A i \in 1 .. n : ledger'[i] = ledger[i]
  BY <1>1, <1>2
<1> HIDE DEF n
<1>5. DOMAIN ledger' = DOMAIN ledger \cup {n + 1} /\ n + 1 \notin DOMAIN ledger
  BY <1>4
<1>6. Postings(r)' = Postings(r) \cup {n + 1}
  BY <1>3, <1>4, <1>5 DEF Postings
<1>7. \A q \in Nat \ {r} : Postings(q)' = Postings(q)
  BY <1>3, <1>4, <1>5 DEF Postings
<1> QED  BY <1>3, <1>4, <1>5, <1>6, <1>7 DEF n

\* Every step preserves CreditedExactlyOnce: only the commit of a SUCCEEDED event
\* posts, its payment was PROCESSING and so had no posting, and it is SUCCEEDED
\* from then on.
LEMMA CreditStep == PayInv /\ CreditedExactlyOnce /\ [PaymentsNext]_payVars => CreditedExactlyOnce'
<1> SUFFICES ASSUME PayInv, CreditedExactlyOnce, [PaymentsNext]_payVars PROVE CreditedExactlyOnce'
  OBVIOUS
<1> DbTypeOK /\ LocalPaymentsTypeOK /\ DeliveryTypeOK /\ PaymentsTypeOK
  BY PaymentsTypeParts DEF PayInv
<1>0. \A r \in Refs : r \in Nat
  BY PaymentsAssumption
<1>1. ASSUME ledger' = ledger,
             \A r \in Refs : payments'[r] = "SUCCEEDED" <=> payments[r] = "SUCCEEDED"
      PROVE  CreditedExactlyOnce'
  BY <1>1 DEF CreditedExactlyOnce, Postings
<1>2. ASSUME NEW r \in Refs, SavePayment(r) PROVE CreditedExactlyOnce'
  <2>1. payments[r] = "ABSENT" /\ provider[r] # "SUCCEEDED"
    BY <1>2 DEF SavePayment, Saving, LocalPaymentsTypeOK
  <2>2. \A q \in Refs : payments'[q] = "SUCCEEDED" <=> payments[q] = "SUCCEEDED"
    BY <1>2, <2>1 DEF SavePayment, LocalPaymentsTypeOK
  <2> QED  BY <1>1, <1>2, <2>2 DEF SavePayment, dbVars
<1>3. ASSUME NEW d \in Deliveries, Settles(d) PROVE CreditedExactlyOnce'
  <2>1. /\ Ref(d) \in Refs /\ payments[Ref(d)] = "PROCESSING"
        /\ payments' = [payments EXCEPT ![Ref(d)] = NewStatus(d)]
    BY <1>3, DeliveryType DEF Settles, ApplyWebhook, PayInv, DeliveryInv, PaymentHeld
  <2>2. /\ payments'[Ref(d)] = NewStatus(d)
        /\ \A q \in Refs \ {Ref(d)} : payments'[q] = payments[q]
    BY <2>1 DEF LocalPaymentsTypeOK
  <2>3. CASE NewStatus(d) # "SUCCEEDED"
    <3>1. ledger' = ledger
      BY <1>3, <2>3 DEF Settles, ApplyWebhook
    <3>2. \A q \in Refs : payments'[q] = "SUCCEEDED" <=> payments[q] = "SUCCEEDED"
      BY <2>1, <2>2, <2>3
    <3> QED  BY <1>1, <3>1, <3>2
  <2>4. CASE NewStatus(d) = "SUCCEEDED"
    <3> DEFINE n == Len(ledger) + 1
    <3>0. PICK r \in Refs : r = Ref(d)
      BY <2>1
    <3>1. /\ Postings(r)' = Postings(r) \cup {n} /\ n \in DOMAIN ledger'
          /\ ledger'[n].credit = Orders[r].wallet /\ ledger'[n].amount = Orders[r].amount
          /\ \A q \in Nat \ {r} : Postings(q)' = Postings(q)
          /\ \A i \in DOMAIN ledger : i \in DOMAIN ledger' /\ ledger'[i] = ledger[i]
      BY <1>3, <2>4, <3>0, Deposit, DepositPostings DEF Target
    <3>2. Postings(r) = {}
      BY <2>1, <3>0 DEF CreditedExactlyOnce
    <3> HIDE DEF n
    <3> SUFFICES ASSUME NEW q \in Refs
                 PROVE  IF payments'[q] = "SUCCEEDED"
                        THEN \E i \in DOMAIN ledger' : /\ Postings(q)' = {i}
                                                       /\ ledger'[i].credit = Orders[q].wallet
                                                       /\ ledger'[i].amount = Orders[q].amount
                        ELSE Postings(q)' = {}
      BY DEF CreditedExactlyOnce
    <3>3. CASE q = r
      BY <2>2, <2>4, <3>0, <3>1, <3>2, <3>3
    <3>4. CASE q # r
      <4>1. payments'[q] = payments[q] /\ Postings(q)' = Postings(q)
        BY <1>0, <2>2, <3>0, <3>1, <3>4
      <4>2. CASE payments[q] = "SUCCEEDED"
        <5>1. PICK i \in DOMAIN ledger : /\ Postings(q) = {i}
                                         /\ ledger[i].credit = Orders[q].wallet
                                         /\ ledger[i].amount = Orders[q].amount
          BY <4>2 DEF CreditedExactlyOnce
        <5> QED  BY <3>1, <4>1, <4>2, <5>1
      <4>3. CASE payments[q] # "SUCCEEDED"
        BY <4>1, <4>3 DEF CreditedExactlyOnce
      <4> QED  BY <4>2, <4>3
    <3> QED  BY <3>3, <3>4
  <2> QED  BY <2>3, <2>4
<1>4. ASSUME UNCHANGED << payments, ledger >> PROVE CreditedExactlyOnce'
  BY <1>1, <1>4
<1>5. ASSUME NEW d \in Deliveries, DeliveryKinds(d) PROVE CreditedExactlyOnce'
  BY <1>3, <1>4, <1>5
  DEF DeliveryKinds, Starts, InsertWebhookEvent, LockPayment, CreditWallet, Aborts, dbVars
<1>6. ASSUME NEW w \in Wallets, WalletStep(w), UNCHANGED paymentVars PROVE CreditedExactlyOnce'
  BY <1>4, <1>6 DEF WalletStep, CreateWallet, UpdateWalletStatus, paymentVars
<1>7. ASSUME NEW r \in Refs, ProcessPayment(r) PROVE CreditedExactlyOnce'
  BY <1>4, <1>7 DEF ProcessPayment, dbVars
<1>8. ASSUME NotSaved \/ UNCHANGED payVars PROVE CreditedExactlyOnce'
  BY <1>4, <1>8 DEF NotSaved, payVars, dbVars, paymentVars
<1> QED  BY <1>2, <1>5, <1>6, <1>7, <1>8, Kinds

\* However many events report a payment, in whatever order and on however many
\* connections, it is credited exactly once if it ends SUCCEEDED and never
\* otherwise.
THEOREM CreditedOnce == PaymentsSpec => []CreditedExactlyOnce
<1>1. PaymentsInit => CreditedExactlyOnce
  BY DEF PaymentsInit, DbInit, CreditedExactlyOnce, Postings
<1> QED  BY <1>1, PayInit, PayStep, CreditStep, PTL DEF PaymentsSpec

-----------------------------------------------------------------------------
(* Without the platform's account. *)

\* No payment is taken to SUCCEEDED, and nothing is posted for one.
NothingCredited ==
    /\ \A r \in Refs : payments[r] # "SUCCEEDED"
    /\ \A n \in DOMAIN ledger : ledger[n].type # "PAYMENT"

\* It is inductive with this: no delivery of a success gets as far as COMMIT.
UnseededInv ==
    /\ NothingCredited
    /\ \A d \in Deliveries : dpc[d] = "commit" => NewStatus(d) # "SUCCEEDED"

\* Every step preserves it, because CreditWallet is where the account is needed.
LEMMA UnseededStep ==
    ASSUME PlatformAccount \notin SeededAccounts
    PROVE  PayInv /\ UnseededInv /\ [PaymentsNext]_payVars => UnseededInv'
<1> SUFFICES ASSUME PayInv, UnseededInv, [PaymentsNext]_payVars PROVE UnseededInv'
  OBVIOUS
<1> DbTypeOK /\ PaymentsTypeOK /\ LocalPaymentsTypeOK /\ DeliveryTypeOK
  BY PaymentsTypeParts DEF PayInv
<1>1. ASSUME UNCHANGED << payments, ledger, dpc, ev >> PROVE UnseededInv'
  BY <1>1 DEF UnseededInv, NothingCredited, NewStatus
<1>2. ASSUME NEW d \in Deliveries, DeliveryKinds(d), ~Settles(d) PROVE UnseededInv'
  <2>1. payments' = payments /\ ledger' = ledger
    BY <1>2 DEF DeliveryKinds, Starts, InsertWebhookEvent, LockPayment, CreditWallet, Aborts,
       dbVars
  <2>2. ~CreditWallet(d)
    BY DEF CreditWallet, Creditable
  <2>3. \/ dpc' = [dpc EXCEPT ![d] = "dedup"] /\ \E e \in Events : ev' = [ev EXCEPT ![d] = e]
        \/ dpc' = [dpc EXCEPT ![d] = "payment"] /\ ev' = ev
        \/ /\ dpc' = [dpc EXCEPT ![d] = IF NewStatus(d) = "SUCCEEDED" THEN "wallet" ELSE "commit"]
           /\ ev' = ev
        \/ dpc' = [dpc EXCEPT ![d] = "idle"] /\ ev' = [ev EXCEPT ![d] = NoEvent]
    BY <1>2, <2>2 DEF DeliveryKinds, Starts, InsertWebhookEvent, LockPayment, Aborts, EndTx
  <2>4. ASSUME NEW c \in Deliveries, dpc'[c] = "commit" PROVE NewStatus(c)' # "SUCCEEDED"
    <3>1. CASE c # d
      <4>1. dpc'[c] = dpc[c] /\ ev'[c] = ev[c]
        BY <2>3, <3>1 DEF DeliveryTypeOK
      <4> QED  BY <2>4, <4>1 DEF UnseededInv, NewStatus
    <3>2. CASE c = d
      <4>1. NewStatus(d) # "SUCCEEDED" /\ ev' = ev
        BY <2>3, <2>4, <3>2 DEF DeliveryTypeOK
      <4> QED  BY <3>2, <4>1 DEF NewStatus
    <3> QED  BY <3>1, <3>2
  <2> QED  BY <2>1, <2>4 DEF UnseededInv, NothingCredited
<1>3. ASSUME NEW d \in Deliveries, Settles(d) PROVE UnseededInv'
  <2>1. dpc[d] = "commit" /\ NewStatus(d) # "SUCCEEDED" /\ ApplyWebhook(d)
    BY <1>3 DEF Settles, UnseededInv
  <2>2. ledger' = ledger /\ payments' = [payments EXCEPT ![Ref(d)] = NewStatus(d)]
    BY <2>1 DEF ApplyWebhook
  <2>3. NothingCredited'
    BY <2>1, <2>2 DEF UnseededInv, NothingCredited, LocalPaymentsTypeOK
  <2>4. dpc' = [dpc EXCEPT ![d] = "idle"] /\ ev' = [ev EXCEPT ![d] = NoEvent]
    BY <2>1 DEF ApplyWebhook, EndTx
  <2>5. ASSUME NEW c \in Deliveries, dpc'[c] = "commit" PROVE NewStatus(c)' # "SUCCEEDED"
    <3>1. dpc'[c] = dpc[c] /\ ev'[c] = ev[c]
      BY <2>4, <2>5 DEF DeliveryTypeOK
    <3> QED  BY <2>5, <3>1 DEF UnseededInv, NewStatus
  <2> QED  BY <2>3, <2>5 DEF UnseededInv
<1>4. ASSUME NEW r \in Refs, ProcessPayment(r) PROVE UnseededInv'
  BY <1>1, <1>4 DEF ProcessPayment, dbVars, deliveryVars
<1>5. ASSUME NEW r \in Refs, SavePayment(r) PROVE UnseededInv'
  <2>1. /\ payments' = [payments EXCEPT ![r] = provider[r]] /\ provider[r] # "SUCCEEDED"
        /\ UNCHANGED << ledger, dpc, ev >>
    BY <1>5 DEF SavePayment, Saving, dbVars, deliveryVars, LocalPaymentsTypeOK
  <2> QED  BY <2>1 DEF UnseededInv, NothingCredited, NewStatus, LocalPaymentsTypeOK
<1>6. ASSUME NotSaved \/ UNCHANGED payVars PROVE UnseededInv'
  BY <1>1, <1>6 DEF NotSaved, payVars, dbVars, paymentVars, deliveryVars
<1>7. ASSUME NEW w \in Wallets, WalletStep(w), UNCHANGED paymentVars PROVE UnseededInv'
  BY <1>1, <1>7 DEF WalletStep, CreateWallet, UpdateWalletStatus, paymentVars, deliveryVars
<1> QED  BY <1>2, <1>3, <1>4, <1>5, <1>6, <1>7, Kinds

\* On a database that has only what the migrations create, no deposit is ever
\* credited: ProcessWebhook debits the platform's account, which no migration
\* inserts, so the foreign key of ledger_entries refuses every success.
THEOREM UnseededCreditsNothing ==
    PlatformAccount \notin SeededAccounts => (PaymentsSpec => []NothingCredited)
<1> SUFFICES ASSUME PlatformAccount \notin SeededAccounts
             PROVE  PaymentsSpec => []NothingCredited
  OBVIOUS
<1>1. PaymentsInit => UnseededInv
  BY DEF PaymentsInit, DbInit, UnseededInv, NothingCredited
<1>2. PayInv /\ UnseededInv /\ [PaymentsNext]_payVars => UnseededInv'
  BY UnseededStep
<1>3. UnseededInv => NothingCredited
  BY DEF UnseededInv
<1> QED  BY <1>1, <1>2, <1>3, PayInit, PayStep, PTL DEF PaymentsSpec

-----------------------------------------------------------------------------
(* Deposits. *)

\* How Deposits sees each status.
LEMMA OrderStates ==
    ASSUME NEW r \in Refs
    PROVE  /\ payments[r] = "ABSENT" => OrderState(r) = "NONE"
           /\ payments[r] = "SUCCEEDED" => OrderState(r) = "PAID"
           /\ payments[r] = "FAILED" => OrderState(r) = "DECLINED"
           /\ payments[r] = "PROCESSING" => OrderState(r) = "OPEN"
BY DEF OrderState

\* The payments as Deposits sees them.
order == [r \in Refs |-> OrderState(r)]

\* Changing the status of one payment changes the order of one.
LEMMA OrderChange ==
    ASSUME LocalPaymentsTypeOK, NEW r \in Refs, NEW new \in PaymentStatus,
           payments' = [payments EXCEPT ![r] = new]
    PROVE  order' = [order EXCEPT ![r] = OrderState(r)']
<1>1. \A q \in Refs \ {r} : payments'[q] = payments[q]
  BY DEF LocalPaymentsTypeOK
<1>2. \A q \in Refs \ {r} : OrderState(q)' = OrderState(q)
  BY <1>1 DEF OrderState
<1> QED  BY <1>2 DEF order

\* The commit of a delivery settles its payment in one step of Deposits.
LEMMA SettlesIsAnOrder ==
    ASSUME PayInv, NEW d \in Deliveries, Settles(d)
    PROVE  D!DepositsNext
<1> DbTypeOK /\ LocalPaymentsTypeOK /\ DeliveryTypeOK
  BY PaymentsTypeParts DEF PayInv
<1>1. PICK r \in Refs : r = Ref(d)
  BY DeliveryType
<1>2. /\ payments[r] = "PROCESSING" /\ NewStatus(d) \in {"SUCCEEDED", "FAILED"}
      /\ payments' = [payments EXCEPT ![r] = NewStatus(d)] /\ status' = status
  BY <1>1 DEF Settles, ApplyWebhook, PayInv, DeliveryInv, PaymentHeld
<1>3. payments'[r] = NewStatus(d) /\ NewStatus(d) \in PaymentStatus
  BY <1>2 DEF LocalPaymentsTypeOK, PaymentStatus
<1>4. order[r] = "OPEN" /\ order' = [order EXCEPT ![r] = OrderState(r)']
  BY <1>2, <1>3, OrderStates, OrderChange DEF order
<1>5. CASE NewStatus(d) = "FAILED"
  <2>1. OrderState(r)' = "DECLINED"
    BY <1>3, <1>5 DEF OrderState
  <2>2. UNCHANGED << balance, Net >>
    BY <1>5, NetFrame DEF Settles, ApplyWebhook
  <2>3. D!Decline(r)
    BY <1>2, <1>4, <2>1, <2>2 DEF D!Decline, order
  <2> QED  BY <2>3 DEF D!DepositsNext
<1>6. CASE NewStatus(d) = "SUCCEEDED"
  <2>1. OrderState(r)' = "PAID"
    BY <1>3, <1>6 DEF OrderState
  <2> DEFINE w == Orders[r].wallet
             m == Orders[r].amount
  <2>2. /\ w \in Wallets /\ m \in Nat /\ balance[w] + m <= MaxBigint
        /\ balance' = [balance EXCEPT ![w] = @ + m]
        /\ Net' = [Net EXCEPT ![PlatformAccount] = @ - m, ![w] = @ + m]
    BY <1>1, <1>6, Deposit, DepositNet DEF Target
  <2>3. Net'[PlatformAccount] = Net[PlatformAccount] - m
    <3>1. PlatformAccount # w /\ PlatformAccount \in Accounts
      BY <2>2, WalletsAssumption DEF Accounts
    <3> HIDE DEF w, m
    <3> QED  BY <2>2, <3>1, NetType
  <2>4. D!Pay(r)
    BY <1>2, <1>4, <2>1, <2>2, <2>3 DEF D!Pay, order
  <2> QED  BY <2>4 DEF D!DepositsNext
<1> QED  BY <1>2, <1>5, <1>6

\* Saving a payment makes it known.
LEMMA SaveIsAnOrder ==
    ASSUME PayInv, NEW r \in Refs, SavePayment(r)
    PROVE  D!DepositsNext
<1> LocalPaymentsTypeOK
  BY PaymentsTypeParts DEF PayInv
<1>1. /\ payments[r] = "ABSENT" /\ provider[r] \in {"PROCESSING", "FAILED"}
      /\ payments' = [payments EXCEPT ![r] = provider[r]] /\ UNCHANGED dbVars
      /\ Orders[r].amount > 0 /\ status[Orders[r].wallet] # "ABSENT"
  BY DEF SavePayment, Saving, LocalPaymentsTypeOK
<1>2. payments'[r] = provider[r] /\ provider[r] \in PaymentStatus
  BY <1>1 DEF LocalPaymentsTypeOK, PaymentStatus
<1>3. OrderState(r)' \in {"OPEN", "DECLINED"}
  BY <1>1, <1>2 DEF OrderState
<1>4. order[r] = "NONE" /\ order' = [order EXCEPT ![r] = OrderState(r)']
  BY <1>1, <1>2, OrderStates, OrderChange DEF order
<1>5. D!Ask(r)
  BY <1>1, <1>3, <1>4, NetFrame DEF D!Ask, order, dbVars
<1> QED  BY <1>5 DEF D!DepositsNext

\* Every step is a step of Deposits or a stutter.
LEMMA DepositsStep ==
    PayInv /\ BooksInv /\ [PaymentsNext]_payVars => [D!DepositsNext]_(D!depositVars)
<1> SUFFICES ASSUME PayInv, BooksInv, [PaymentsNext]_payVars
             PROVE  [D!DepositsNext]_(D!depositVars)
  OBVIOUS
<1> DbTypeOK /\ PaymentsTypeOK
  BY PaymentsTypeParts DEF PayInv
<1>1. ASSUME UNCHANGED << balance, status, payments, ledger >>
      PROVE  UNCHANGED D!depositVars
  BY <1>1, NetFrame DEF D!depositVars, OrderState
<1>2. ASSUME NEW d \in Deliveries, DeliveryKinds(d) PROVE [D!DepositsNext]_(D!depositVars)
  BY <1>1, <1>2, SettlesIsAnOrder
  DEF DeliveryKinds, Starts, InsertWebhookEvent, LockPayment, CreditWallet, Aborts, dbVars
<1>3. ASSUME NEW w \in Wallets, WalletStep(w), UNCHANGED paymentVars PROVE D!DepositsNext
  <2>1. balance' = balance
    BY <1>3, BooksWalletStep
  <2>2. /\ [r \in Refs |-> OrderState(r)]' = [r \in Refs |-> OrderState(r)]
        /\ Net' = Net
    BY <1>3, NetFrame DEF paymentVars, OrderState, WalletStep, CreateWallet, UpdateWalletStatus
  <2>3. CASE CreateWallet(w)
    <3>1. balance[w] = 0
      BY <2>3 DEF CreateWallet, BooksInv, AbsentIsEmpty
    <3>2. D!Open(w)
      BY <2>1, <2>3, <3>1 DEF CreateWallet, D!Open
    <3> QED  BY <2>2, <3>2 DEF D!DepositsNext, D!Next
  <2>4. CASE UpdateWalletStatus(w, "FROZEN") \/ UpdateWalletStatus(w, "ACTIVE")
    <3>1. D!SetStatus(w, "FROZEN") \/ D!SetStatus(w, "ACTIVE")
      BY <2>1, <2>4 DEF UpdateWalletStatus, D!SetStatus
    <3> QED  BY <2>2, <3>1 DEF D!DepositsNext, D!Next
  <2> QED  BY <1>3, <2>3, <2>4 DEF WalletStep
<1>4. ASSUME NEW r \in Refs, ProcessPayment(r) PROVE UNCHANGED D!depositVars
  BY <1>1, <1>4 DEF ProcessPayment, dbVars
<1>5. ASSUME NotSaved \/ UNCHANGED payVars PROVE UNCHANGED D!depositVars
  BY <1>1, <1>5 DEF NotSaved, payVars, dbVars, paymentVars
<1> QED  BY <1>2, <1>3, <1>4, <1>5, SaveIsAnOrder, Kinds

\* The first states agree.
LEMMA DepositsInitial == PaymentsInit => D!DepositsInit
<1> SUFFICES ASSUME PaymentsInit PROVE D!DepositsInit
  OBVIOUS
<1>1. D!Init
  BY DEF PaymentsInit, DbInit, D!Init
<1>2. \A r \in Refs : OrderState(r) = "NONE"
  BY OrderStates DEF PaymentsInit
<1>3. Net[PlatformAccount] = 0
  BY WalletsAssumption, NetOfEmpty DEF PaymentsInit, DbInit, Net, Accounts, OpeningOf
<1> QED  BY <1>1, <1>2, <1>3 DEF D!DepositsInit

\* The payment service implements Deposits: seen from outside, each payment is
\* asked for once and settled once, and paying it is one atomic movement of its
\* amount from the platform's account into its wallet.
THEOREM ImplementsDeposits == PaymentsSpec => DepositsSpec
<1>1. PaymentsInit => BooksInv
  BY BooksDbInit DEF PaymentsInit
<1> QED
  BY <1>1, DepositsInitial, DepositsStep, PayInit, PayStep, PaymentsBooksStep, PTL
  DEF PaymentsSpec, DepositsSpec, D!DepositsSpec
=============================================================================

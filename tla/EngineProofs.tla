---------------------------- MODULE EngineProofs ----------------------------
(***************************************************************************)
(* Theorems about Engine: what TransfersProofs and PaymentsProofs show of  *)
(* each kind of session survives the other, because neither touches a row  *)
(* that the other has locked.                                              *)
(***************************************************************************)
EXTENDS Engine, TransfersProofs, PaymentsProofs

USE DEF NoWallet, PlatformAccount

EngineInv == TypeInv /\ KeyInv /\ LockInv /\ PayInv /\ BooksInv

\* The invariants hold at first.
LEMMA EngineInvInit == EngineInit => EngineInv
BY TypeInit, KeyInit, LockInit, PayInit, BooksInit DEF EngineInit, EngineInv

-----------------------------------------------------------------------------
(* What the sessions leave alone. *)

\* Every session but this one keeps its locks, and its rows as they are.
Undisturbed(session) ==
    \A s \in Sessions \ {session} : \A w \in Wallets :
        /\ rowLock'[w] = s <=> rowLock[w] = s
        /\ rowLock[w] = s => balance'[w] = balance[w] /\ status'[w] = status[w]

\* The step of a handler disturbs no other session: it commits only to rows
\* that it has locked.
LEMMA TransferUndisturbed ==
    ASSUME TypeInv, LockInv, NEW h \in Handlers, TransferStep(h)
    PROVE  Undisturbed(h)
<1> DbTypeOK /\ LocalTypeOK /\ PathInv
  BY TypeOKParts DEF TypeInv
<1> h \in Sessions /\ NoTx \notin Sessions
  BY TransfersAssumption, WalletsAssumption
<1>1. CASE UNCHANGED dbVars
  BY <1>1 DEF Undisturbed, dbVars
<1>2. CASE ReleaseLocks(h) /\ UNCHANGED << balance, status >>
  BY <1>2, ReleaseFrame DEF Undisturbed
<1>3. CASE LockFirst(h)
  <2>1. FirstWallet(h) \in Wallets /\ CanLock(h, FirstWallet(h))
    BY <1>3 DEF LockFirst, RowExists, FirstWallet
  <2> QED  BY <1>3, <2>1 DEF LockFirst, CanLock, Undisturbed, DbTypeOK
<1>4. CASE LockSecond(h)
  <2>1. SecondWallet(h) \in Wallets /\ CanLock(h, SecondWallet(h))
    BY <1>4 DEF LockSecond, RowExists, SecondWallet
  <2> QED  BY <1>4, <2>1 DEF LockSecond, CanLock, Undisturbed, DbTypeOK
<1>5. CASE pc[h] = "commit" /\ CommitRows(h)
  <2>1. /\ SourceWallet(h) \in Wallets /\ DestWallet(h) \in Wallets
        /\ rowLock[SourceWallet(h)] = h /\ rowLock[DestWallet(h)] = h
    BY <1>5, Endpoints
    DEF LockInv, LockInvOf, FirstHeld, SecondHeld, HasFirst, HasBoth, SourceWallet, DestWallet
  <2>2. \A w \in Wallets \ {SourceWallet(h), DestWallet(h)} : balance'[w] = balance[w]
    BY <1>5, <2>1 DEF CommitRows, DbTypeOK
  <2>3. ReleaseLocks(h) /\ status' = status
    BY <1>5 DEF CommitRows
  <2> QED  BY <2>1, <2>2, <2>3, ReleaseFrame DEF Undisturbed
<1>6. CASE HandlerStep(h)
  BY <1>1, <1>2, <1>5, <1>6 DEF HandlerStep, TryAcquireInsert, TryAcquireSelect, CheckOwner,
     BeginTransfer, Validate, WriteRows, ReturnError, Commit, Complete, Fail
<1>7. CASE Failure(h)
  BY <1>1, <1>2, <1>5, <1>7 DEF Failure, StatementError, LostReply, Abandon, DeadlockAbort, Fail
<1>8. CASE HandleTransfer(h)
  BY <1>1, <1>8 DEF HandleTransfer
<1> QED
  BY <1>3, <1>4, <1>6, <1>7, <1>8 DEF TransferStep, LockStep

\* Nor does the step of a delivery.
LEMMA DeliveryUndisturbed ==
    ASSUME PayInv, NEW d \in Deliveries, DeliveryKinds(d)
    PROVE  Undisturbed(d)
<1> DbTypeOK /\ DeliveryTypeOK
  BY PaymentsTypeParts DEF PayInv
<1> d \in Sessions /\ NoTx \notin Sessions
  BY PaymentsAssumption, WalletsAssumption
<1>0. Target(d) \in Wallets
  BY DeliveryType
<1>1. CASE Starts(d) \/ InsertWebhookEvent(d) \/ LockPayment(d)
  BY <1>1 DEF Starts, InsertWebhookEvent, LockPayment, Undisturbed, dbVars
<1>2. CASE CreditWallet(d)
  BY <1>0, <1>2 DEF CreditWallet, CanLock, Undisturbed, DbTypeOK
<1>3. CASE Aborts(d)
  BY <1>3, ReleaseFrame DEF Aborts, EndTx, Undisturbed
<1>4. CASE Settles(d)
  <2>1. ReleaseLocks(d) /\ status' = status
    BY <1>4 DEF Settles, ApplyWebhook, EndTx
  <2>2. CASE NewStatus(d) # "SUCCEEDED"
    <3>1. balance' = balance
      BY <1>4, <2>2 DEF Settles, ApplyWebhook
    <3> QED  BY <2>1, <3>1, ReleaseFrame DEF Undisturbed
  <2>3. CASE NewStatus(d) = "SUCCEEDED"
    <3>1. rowLock[Target(d)] = d
      BY <1>4, <2>3 DEF Settles, PayInv, DeliveryInv, WalletHeld
    <3>2. \A w \in Wallets \ {Target(d)} : balance'[w] = balance[w]
      BY <1>0, <1>4, <2>3 DEF Settles, ApplyWebhook, DbTypeOK
    <3> QED  BY <2>1, <3>1, <3>2, ReleaseFrame DEF Undisturbed
  <2> QED  BY <2>2, <2>3
<1> QED
  BY <1>1, <1>2, <1>3, <1>4 DEF DeliveryKinds

\* A wallet operation waits for the row's lock; of a wallet with a lock it can
\* only be the one that creates it.
LEMMA WalletStepUndisturbed ==
    ASSUME DbTypeOK, NEW v \in Wallets, WalletStep(v)
    PROVE  /\ rowLock' = rowLock
           /\ \A w \in Wallets : rowLock[w] \in Sessions /\ status[w] # "ABSENT" =>
                                    balance'[w] = balance[w] /\ status'[w] = status[w]
BY WalletsAssumption DEF WalletStep, CreateWallet, UpdateWalletStatus, DbTypeOK

-----------------------------------------------------------------------------
(* The steps. *)

\* A transfer preserves what the deliveries hold and have recorded.
LEMMA TransferKeepsPayments ==
    ASSUME EngineInv, NEW h \in Handlers, TransferStep(h), UNCHANGED paymentVars, TypeInv'
    PROVE  PayInv'
<1> DbTypeOK /\ LocalPaymentsTypeOK /\ DeliveryTypeOK
  BY PaymentsTypeParts DEF EngineInv, PayInv
<1> PayInv /\ TypeInv /\ LockInv
  BY DEF EngineInv
<1>1. PaymentsTypeOK'
  BY DEF TypeInv, TypeOK, PayInv, PaymentsTypeOK, paymentVars
<1>2. status' = status
  BY BooksUntouched DEF CommitRows
<1>3. RowsInv'
  BY <1>2 DEF PayInv, RowsInv, paymentVars
<1>4. ASSUME NEW d \in Deliveries PROVE DeliveryInv(d)'
  <2>1. d \in Sessions \ {h} /\ Target(d) \in Wallets
    BY EngineAssumption, PaymentsAssumption, DeliveryType
  <2>2. rowLock[Target(d)] = d =>
            rowLock'[Target(d)] = d /\ balance'[Target(d)] = balance[Target(d)]
    BY <2>1, TransferUndisturbed DEF Undisturbed
  <2> QED  BY <2>2, DeliveryFrame DEF PayInv, paymentVars
<1>5. RecordsInv' /\ AcknowledgedMeansRecorded'
  BY DEF PayInv, RecordsInv, AcknowledgedMeansRecorded, paymentVars
<1> QED  BY <1>1, <1>3, <1>4, <1>5 DEF PayInv

\* A payment preserves what the handlers hold and have found out.
LEMMA PaymentKeepsTransfers ==
    ASSUME EngineInv, PaymentsNext, UNCHANGED transferVars, PayInv'
    PROVE  TypeInv' /\ KeyInv' /\ LockInv'
<1> DbTypeOK /\ PaymentsTypeOK /\ PayInv /\ TypeInv /\ LockInv
  BY PaymentsTypeParts DEF EngineInv, PayInv
<1>1. TypeOK'
  BY DEF PayInv, PaymentsTypeOK, TypeInv, TypeOK, transferVars
<1>2. PathInv'
  BY DEF TypeInv, PathInv, transferVars, WellFormed, FirstWallet, SecondWallet, FirstLock,
         SecondLock, SourceWallet, DestWallet, SourceIsFirst
<1>3. KeyInv'
  BY DEF EngineInv, KeyInv, OwnerInProgress, OneOwner, OwnerNotYetPaid, PaidKeysKnown,
         AtMostOncePerKey, Key, transferVars
<1>4. ASSUME NEW g \in Handlers PROVE LockInvOf(g)'
  <2>1. g \in Sessions /\ g \notin Deliveries
    BY EngineAssumption, TransfersAssumption
  <2>2. /\ \A w \in Wallets : rowLock'[w] = g <=> rowLock[w] = g
        /\ \A w \in Wallets : rowLock[w] = g /\ status[w] # "ABSENT" =>
                                balance'[w] = balance[w] /\ status'[w] = status[w]
    <3>1. ASSUME NEW d \in Deliveries, DeliveryKinds(d) PROVE Undisturbed(d)
      BY <3>1, DeliveryUndisturbed
    <3>2. ASSUME NEW r \in Refs, ProcessPayment(r) \/ SavePayment(r) PROVE UNCHANGED dbVars
      BY <3>2 DEF ProcessPayment, SavePayment
    <3>3. NotSaved => UNCHANGED dbVars
      BY DEF NotSaved
    <3>4. CASE UNCHANGED dbVars
      BY <3>4 DEF dbVars
    <3>5. CASE \E w \in Wallets : WalletStep(w)
      BY <2>1, <3>5, WalletStepUndisturbed
    <3>6. CASE \E d \in Deliveries : Undisturbed(d)
      BY <2>1, <3>6 DEF Undisturbed
    <3> QED  BY <3>1, <3>2, <3>3, <3>4, <3>5, <3>6, Kinds
  <2> QED  BY <2>2, LockFrame DEF LockInv, transferVars
<1> QED  BY <1>1, <1>2, <1>3, <1>4 DEF TypeInv, LockInv

\* Every step preserves the invariant.
LEMMA EngineInvStep == EngineInv /\ [EngineNext]_engineVars => EngineInv'
<1> SUFFICES ASSUME EngineInv, [EngineNext]_engineVars PROVE EngineInv'
  OBVIOUS
<1> TypeInv /\ KeyInv /\ LockInv /\ PayInv /\ BooksInv
  BY DEF EngineInv
<1>1. ASSUME NEW h \in Handlers, TransferStep(h), UNCHANGED paymentVars PROVE EngineInv'
  <2>1. Next
    BY <1>1 DEF Next
  <2>2. TypeInv' /\ KeyInv' /\ LockInv' /\ BooksInv'
    BY <2>1, TypeStep, KeyStep, LockStepInv, BooksStep
  <2> QED  BY <1>1, <2>2, TransferKeepsPayments DEF EngineInv
<1>2. CASE PaymentsNext /\ UNCHANGED transferVars
  <2>1. PayInv' /\ BooksInv'
    BY <1>2, PayStep, PaymentsBooksStep
  <2> QED  BY <1>2, <2>1, PaymentKeepsTransfers DEF EngineInv
<1>3. CASE UNCHANGED engineVars
  <2>1. UNCHANGED vars /\ UNCHANGED payVars
    BY <1>3 DEF engineVars, vars, payVars
  <2> QED  BY <2>1, TypeStep, KeyStep, LockStepInv, PayStep, BooksStep DEF EngineInv
<1> QED
  BY <1>1, <1>2, <1>3 DEF EngineNext

\* With transfers and webhooks at once, available_balance still equals the net
\* of the ledger entries at every moment: neither overwrites a balance that the
\* other has changed since it was read.
THEOREM EngineBooksAgree == EngineSpec => []BalanceMatchesLedger
<1>1. EngineInv => BalanceMatchesLedger
  BY DEF EngineInv, BooksInv
<1> QED
  BY <1>1, EngineInvInit, EngineInvStep, PTL DEF EngineSpec

-----------------------------------------------------------------------------
(* The engine is a bank with deposits. *)

\* A commit is a transfer between the wallets that its request denotes, and
\* leaves the payments and the platform's account alone.
LEMMA CommitIsMeant ==
    ASSUME CanonicalSources, EngineInv, NEW h \in Handlers, pc[h] = "commit", CommitRows(h),
           UNCHANGED paymentVars
    PROVE  BankWithDeposits!DepositsNext
<1> DbTypeOK /\ LocalTypeOK /\ PathInv /\ TypeInv /\ KeyInv /\ LockInv
  BY TypeOKParts DEF EngineInv, TypeInv
<1> DEFINE s == ParseUUID[req[h].source]
           d == ParseUUID[req[h].dest]
           m == req[h].amount
<1>1. /\ s \in Wallets /\ d \in Wallets /\ s # d
      /\ m \in 1 .. balance[s] /\ balance[d] + m <= MaxBigint
      /\ status[s] = "ACTIVE" /\ status[d] = "ACTIVE" /\ status' = status
      /\ CurrencyOf[s] = req[h].currency /\ CurrencyOf[d] = req[h].currency
      /\ \A i \in DOMAIN transfers : transfers[i].key # req[h].key
      /\ balance' = [balance EXCEPT ![s] = @ - m, ![d] = @ + m]
      /\ transfers' = Append(transfers, [key |-> req[h].key, source |-> s, dest |-> d,
                                         amount |-> m, currency |-> req[h].currency])
  BY CommitMoves
<1>2. req[h] \in Submissions
  BY DEF LocalTypeOK
<1>3. req[h] \in [key : Keys, caller : Users, source : IdStrings,
                  dest : IdStrings, amount : Int, currency : Currencies]
  BY <1>2, TransfersAssumption
<1>4. /\ Meant(req[h]).key = req[h].key /\ Meant(req[h]).source = s
      /\ Meant(req[h]).dest = d /\ Meant(req[h]).amount = m
      /\ Meant(req[h]).currency = req[h].currency
  BY <1>3 DEF Meant
<1> HIDE DEF s, d, m
<1>5. BankWithDeposits!Transfer(Meant(req[h]))
  BY <1>1, <1>4 DEF BankWithDeposits!Transfer
<1>6. BankWithDeposits!Next
  BY <1>2, <1>5 DEF BankWithDeposits!Next
<1>7. [r \in Refs |-> OrderState(r)]' = [r \in Refs |-> OrderState(r)]
  BY DEF paymentVars, OrderState
<1>8. Net'[PlatformAccount] = Net[PlatformAccount]
  <2>1. /\ SourceWallet(h) \in Wallets /\ DestWallet(h) \in Wallets
        /\ PlatformAccount \notin Wallets /\ PlatformAccount \in Accounts
    BY Endpoints, WalletsAssumption DEF HasBoth, Accounts
  <2>2. Net' = [Net EXCEPT ![SourceWallet(h)] = @ - req[h].amount,
                           ![DestWallet(h)] = @ + req[h].amount]
    BY CommitNet DEF EngineInv
  <2> QED  BY <2>1, <2>2, NetType
<1> QED
  BY <1>6, <1>7, <1>8 DEF BankWithDeposits!DepositsNext

\* What Payments does alone, it does beside the transfers too.
LEMMA DepositsBesideTransfers ==
    ASSUME [D!DepositsNext]_(D!depositVars), transfers' = transfers
    PROVE  [BankWithDeposits!DepositsNext]_(BankWithDeposits!depositVars)
<1>1. CASE UNCHANGED D!depositVars
  BY <1>1 DEF D!depositVars, BankWithDeposits!depositVars
<1>2. ASSUME NEW r \in Refs, D!Ask(r) \/ D!Decline(r) \/ D!Pay(r)
      PROVE  BankWithDeposits!DepositsNext
  <2>1. CASE D!Ask(r)
    BY <2>1 DEF D!Ask, BankWithDeposits!Ask, BankWithDeposits!DepositsNext
  <2>2. CASE D!Decline(r)
    BY <2>2 DEF D!Decline, BankWithDeposits!Decline, BankWithDeposits!DepositsNext
  <2>3. CASE D!Pay(r)
    BY <2>3 DEF D!Pay, BankWithDeposits!Pay, BankWithDeposits!DepositsNext
  <2> QED  BY <1>2, <2>1, <2>2, <2>3
<1>3. ASSUME D!Next PROVE BankWithDeposits!Next
  BY <1>3 DEF D!Next, D!Open, D!SetStatus, BankWithDeposits!Next, BankWithDeposits!Open,
     BankWithDeposits!SetStatus
<1> QED
  BY <1>1, <1>2, <1>3 DEF D!DepositsNext, BankWithDeposits!DepositsNext

\* Every step is a step of the bank or a stutter.
LEMMA EngineBankStep ==
    ASSUME CanonicalSources
    PROVE  EngineInv /\ [EngineNext]_engineVars
              => [BankWithDeposits!DepositsNext]_(BankWithDeposits!depositVars)
<1> SUFFICES ASSUME EngineInv, [EngineNext]_engineVars
             PROVE  [BankWithDeposits!DepositsNext]_(BankWithDeposits!depositVars)
  OBVIOUS
<1>1. ASSUME UNCHANGED << balance, status, ledger, transfers, payments >>
      PROVE  UNCHANGED BankWithDeposits!depositVars
  BY <1>1, NetFrame DEF BankWithDeposits!depositVars, OrderState
<1>2. ASSUME NEW h \in Handlers, TransferStep(h), UNCHANGED paymentVars
      PROVE  [BankWithDeposits!DepositsNext]_(BankWithDeposits!depositVars)
  BY <1>1, <1>2, BooksUntouched, TransfersUntouched, CommitIsMeant DEF paymentVars
<1>3. CASE PaymentsNext /\ UNCHANGED transferVars
  BY <1>3, DepositsStep, DepositsBesideTransfers DEF EngineInv, transferVars
<1>4. CASE UNCHANGED engineVars
  BY <1>1, <1>4 DEF engineVars, dbVars, transferVars, paymentVars
<1> QED
  BY <1>2, <1>3, <1>4 DEF EngineNext

\* The first states agree.
LEMMA EngineBankInit == EngineInit => BankWithDeposits!DepositsInit
<1> SUFFICES ASSUME EngineInit PROVE BankWithDeposits!DepositsInit
  OBVIOUS
<1>1. D!DepositsInit
  BY DepositsInitial DEF EngineInit
<1>2. transfers = << >>
  BY DEF EngineInit, Init, TransferInit
<1> QED
  BY <1>1, <1>2 DEF D!DepositsInit, D!Init, BankWithDeposits!DepositsInit, BankWithDeposits!Init

\* If requests name the wallet to debit by its canonical id, the engine is a
\* bank with deposits: whatever the sessions of transfers and webhooks do to each
\* other, every movement of money is one atomic transfer or one atomic deposit.
THEOREM EngineImplementsBank == CanonicalSources => (EngineSpec => EngineIsABank)
<1> SUFFICES ASSUME CanonicalSources PROVE EngineSpec => EngineIsABank
  OBVIOUS
<1>1. EngineInv /\ [EngineNext]_engineVars
          => [BankWithDeposits!DepositsNext]_(BankWithDeposits!depositVars)
  BY EngineBankStep
<1> QED
  BY <1>1, EngineBankInit, EngineInvInit, EngineInvStep, PTL
  DEF EngineSpec, EngineIsABank, BankWithDeposits!DepositsSpec
=============================================================================

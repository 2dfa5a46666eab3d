-------------------------- MODULE TransfersProofs --------------------------
(***************************************************************************)
(* Theorems about Transfers, for any number of handlers, wallets, keys and *)
(* requests.  Four invariants carry them: TypeInv, KeyInv (who owns an     *)
(* idempotency key), LockInv (what a handler has locked and read) and      *)
(* BooksInv.  KeyInv, LockInv and the types are independent of each other; *)
(* BooksInv rests on LockInv, and the refinement of Bank on all of them.   *)
(***************************************************************************)
EXTENDS Transfers, DatabaseProofs

\* Where a handler is when it has a transaction open, holds its first row, and
\* holds both.
InTx == {"lock1", "lock2", "check", "write", "commit"}
HasFirst == {"lock2", "check", "write", "commit"}
HasBoth == {"check", "write", "commit"}

\* What a handler that got this far has found out: its request is well formed
\* and the rows it holds belong to wallets, two different ones when it writes.
PathInv ==
    \A h \in Handlers :
        /\ pc[h] \in InTx => WellFormed(h)
        /\ pc[h] \in HasFirst => FirstWallet(h) \in Wallets
        /\ pc[h] \in HasBoth => SecondWallet(h) \in Wallets
        /\ pc[h] = "commit" => SourceWallet(h) # DestWallet(h)

\* TypeOK is inductive together with PathInv: the actions apply functions on
\* Wallets to the wallets a handler has locked.
TypeInv == TypeOK /\ PathInv

USE DEF NoWallet, PlatformAccount

\* The first state has the types.
LEMMA TypeInit == Init => TypeInv
<1> SUFFICES ASSUME Init PROVE TypeInv
  OBVIOUS
<1> USE MaxBigintAssumption, WalletsAssumption, TransfersAssumption
<1>1. DbTypeOK
  BY DbInitType DEF Init
<1>2. NoRequest \in Submissions
  BY DEF NoRequest
<1>3. /\ NoSnap \in [first : Row, second : Row]
      /\ NoBal \in [source : 0 .. MaxBigint, dest : 0 .. MaxBigint]
      /\ NoResp \in Response
  BY DEF NoSnap, NoRow, NoBal, NoResp, Row, Response, WalletStatus
<1>4. TypeOK
  BY <1>1, <1>2, <1>3 DEF Init, TransferInit, TypeOK, PCs, IdemRow
<1>5. PathInv
  BY DEF Init, TransferInit, PathInv, InTx, HasFirst, HasBoth
<1> QED
  BY <1>4, <1>5 DEF TypeInv

\* Creating, freezing and unfreezing a wallet preserve them.
LEMMA WalletStepType ==
    ASSUME TypeInv, NEW w \in Wallets, WalletStep(w), UNCHANGED transferVars
    PROVE  TypeInv'
<1> USE MaxBigintAssumption, WalletsAssumption, TransfersAssumption
<1>1. DbTypeOK'
  BY WalletStepDbType DEF TypeInv, TypeOK
<1>2. TypeOK'
  BY <1>1 DEF TypeInv, TypeOK, transferVars
<1>3. PathInv'
  BY DEF TypeInv, PathInv, transferVars, WellFormed, FirstWallet, SecondWallet, FirstLock,
         SecondLock, SourceWallet, DestWallet, SourceIsFirst
<1> QED
  BY <1>2, <1>3 DEF TypeInv

\* The conjuncts of TypeOK about the handlers.
LocalTypeOK ==
    /\ pc \in [Handlers -> PCs]
    /\ req \in [Handlers -> Submissions]
    /\ snap \in [Handlers -> [first : Row, second : Row]]
    /\ newBal \in [Handlers -> [source : 0 .. MaxBigint, dest : 0 .. MaxBigint]]
    /\ resp \in [Handlers -> Response]

\* The values a handler has between two requests are of the right type.
Placeholders ==
    /\ NoRequest \in Submissions
    /\ NoSnap \in [first : Row, second : Row]
    /\ NoBal \in [source : 0 .. MaxBigint, dest : 0 .. MaxBigint]
    /\ NoResp \in Response

\* The placeholders are of the right type.
LEMMA PlaceholderTypes == Placeholders
<1> USE MaxBigintAssumption, WalletsAssumption, TransfersAssumption
<1>1. NoRequest \in Submissions
  BY DEF NoRequest
<1> QED
  BY <1>1 DEF Placeholders, NoSnap, NoRow, NoBal, NoResp, Row, Response, WalletStatus

\* A handler that returns clears its local state.
LEMMA ReturnType ==
    ASSUME LocalTypeOK, NEW h \in Handlers, Return(h)
    PROVE  LocalTypeOK'
BY PlaceholderTypes DEF LocalTypeOK, Return, Placeholders, PCs

\* A handler that has its response does.
LEMMA ConcludeType ==
    ASSUME LocalTypeOK, NEW h \in Handlers, NEW code \in {201, 400, 403},
           NEW t \in Nat, Conclude(h, code, t)
    PROVE  LocalTypeOK'
BY PlaceholderTypes DEF LocalTypeOK, Conclude, Placeholders, PCs, Response

\* PathInv says nothing of a handler outside a transaction.
LEMMA LeaveTx ==
    ASSUME PathInv, NEW h \in Handlers, pc'[h] \notin InTx,
           \A g \in Handlers \ {h} : pc'[g] = pc[g] /\ req'[g] = req[g]
    PROVE  PathInv'
BY DEF PathInv, InTx, HasFirst, HasBoth, WellFormed, FirstWallet, SecondWallet, FirstLock,
       SecondLock, SourceWallet, DestWallet, SourceIsFirst

\* The conjuncts of TypeOK about the tables of the transfer engine.
TablesTypeOK ==
    /\ idem \in [Keys -> IdemRow]
    /\ transfers \in Seq(TransferRow)
    /\ answers \subseteq [request : Submissions, resp : Response]

\* TypeOK by its parts.
LEMMA TypeOKParts == TypeOK <=> DbTypeOK /\ LocalTypeOK /\ TablesTypeOK
BY DEF TypeOK, LocalTypeOK, TablesTypeOK

\* TypeInv of the next state by its parts.
LEMMA TypeInvNext ==
    ASSUME DbTypeOK', LocalTypeOK', TablesTypeOK', PathInv'
    PROVE  TypeInv'
BY DEF TypeInv, TypeOK, LocalTypeOK, TablesTypeOK

\* The key of a handler is a key.
LEMMA KeyType == ASSUME LocalTypeOK, NEW h \in Handlers PROVE Key(h) \in Keys
BY TransfersAssumption DEF LocalTypeOK, Key

\* Recording an answer keeps the type of the history.
LEMMA AnswerType ==
    ASSUME LocalTypeOK, TablesTypeOK, NEW h \in Handlers, NEW r \in Response, Answer(h, r)
    PROVE  answers' \subseteq [request : Submissions, resp : Response]
BY DEF LocalTypeOK, TablesTypeOK, Answer

\* The steps of a handler before and after ExecuteTransfer preserve TypeInv.
LEMMA RequestStepType ==
    ASSUME TypeInv, NEW h \in Handlers,
           \/ HandleTransfer(h) \/ TryAcquireInsert(h) \/ TryAcquireSelect(h)
           \/ CheckOwner(h) \/ Complete(h)
    PROVE  TypeInv'
<1> USE TypeOKParts DEF TypeInv
<1> Key(h) \in Keys
  BY KeyType
<1>1. CASE HandleTransfer(h)
  <2>1. LocalTypeOK'
    BY <1>1 DEF HandleTransfer, LocalTypeOK, Goto, PCs
  <2>2. DbTypeOK' /\ TablesTypeOK'
    BY <1>1 DEF HandleTransfer, DbTypeOK, TablesTypeOK, dbVars
  <2>3. PathInv'
    BY <1>1, LeaveTx DEF HandleTransfer, Goto, LocalTypeOK, InTx
  <2> QED  BY <2>1, <2>2, <2>3, TypeInvNext
<1>2. CASE TryAcquireInsert(h)
  <2>1. LocalTypeOK'
    BY <1>2 DEF TryAcquireInsert, LocalTypeOK, Goto, PCs
  <2>2. DbTypeOK'
    BY <1>2 DEF TryAcquireInsert, DbTypeOK, dbVars
  <2>4. idem' \in [Keys -> IdemRow]
    BY <1>2 DEF TryAcquireInsert, TablesTypeOK, IdemRow
  <2>5. TablesTypeOK'
    BY <1>2, <2>4 DEF TryAcquireInsert, TablesTypeOK
  <2>3. PathInv'
    BY <1>2, LeaveTx DEF TryAcquireInsert, Goto, LocalTypeOK, InTx
  <2> QED  BY <2>1, <2>2, <2>3, <2>5, TypeInvNext
<1>3. CASE TryAcquireSelect(h)
  <2>1. LocalTypeOK'
    BY <1>3, ReturnType DEF TryAcquireSelect
  <2>2. DbTypeOK' /\ TablesTypeOK'
    <3>1. idem[Key(h)].resp \in Response
      BY DEF TablesTypeOK, IdemRow
    <3>2. answers' \subseteq [request : Submissions, resp : Response]
      BY <1>3, <3>1, AnswerType DEF TryAcquireSelect, TablesTypeOK
    <3> QED  BY <1>3, <3>2 DEF TryAcquireSelect, DbTypeOK, TablesTypeOK, dbVars
  <2>3. PathInv'
    BY <1>3, LeaveTx DEF TryAcquireSelect, Return, LocalTypeOK, InTx
  <2> QED  BY <2>1, <2>2, <2>3, TypeInvNext
<1>4. CASE CheckOwner(h)
  <2>1. LocalTypeOK'
    <3>1. CASE Conclude(h, 403, 0)
      BY <3>1, ConcludeType
    <3>2. CASE Goto(h, "begin") /\ UNCHANGED << req, snap, newBal, resp >>
      BY <3>2 DEF LocalTypeOK, Goto, PCs
    <3> QED  BY <1>4, <3>1, <3>2 DEF CheckOwner
  <2>2. DbTypeOK' /\ TablesTypeOK'
    BY <1>4 DEF CheckOwner, DbTypeOK, TablesTypeOK, dbVars
  <2>3. PathInv'
    BY <1>4, LeaveTx DEF CheckOwner, Conclude, Goto, LocalTypeOK, InTx
  <2> QED  BY <2>1, <2>2, <2>3, TypeInvNext
<1>5. CASE Complete(h)
  <2>1. LocalTypeOK'
    BY <1>5, ReturnType DEF Complete
  <2>2. DbTypeOK' /\ TablesTypeOK'
    <3>1. resp[h] \in Response
      BY DEF LocalTypeOK
    <3>2. answers' \subseteq [request : Submissions, resp : Response]
      BY <1>5, <3>1, AnswerType DEF Complete
    <3> QED  BY <1>5, <3>1, <3>2 DEF Complete, DbTypeOK, TablesTypeOK, dbVars, IdemRow
  <2>3. PathInv'
    BY <1>5, LeaveTx DEF Complete, Return, LocalTypeOK, InTx
  <2> QED  BY <2>1, <2>2, <2>3, TypeInvNext
<1> QED
  BY <1>1, <1>2, <1>3, <1>4, <1>5

\* What a request holds.
LEMMA RequestType ==
    ASSUME LocalTypeOK, NEW h \in Handlers
    PROVE  /\ req[h].source \in IdStrings /\ req[h].dest \in IdStrings
           /\ req[h].source \in Nat /\ req[h].dest \in Nat
           /\ req[h].amount \in Int /\ req[h].currency \in Currencies
<1>1. req[h] \in [key : Keys, caller : Users, source : IdStrings,
                 dest : IdStrings, amount : Int, currency : Currencies]
  BY TransfersAssumption DEF LocalTypeOK
<1>2. IdStrings \subseteq Nat
  BY TransfersAssumption
<1> QED  BY <1>1, <1>2

\* A handler that holds both rows moves a positive amount between wallets.
LEMMA Endpoints ==
    ASSUME LocalTypeOK, PathInv, NEW h \in Handlers, pc[h] \in HasBoth
    PROVE  /\ SourceWallet(h) \in Wallets /\ DestWallet(h) \in Wallets
           /\ ParseUUID[req[h].source] \in Wallets /\ ParseUUID[req[h].dest] \in Wallets
           /\ req[h].amount \in Nat \ {0}
<1>1. WellFormed(h) /\ FirstWallet(h) \in Wallets /\ SecondWallet(h) \in Wallets
  BY DEF PathInv, HasBoth, HasFirst, InTx
<1> QED
  BY <1>1, RequestType
  DEF WellFormed, FirstWallet, SecondWallet, FirstLock, SecondLock, SourceWallet, DestWallet

\* An error return of ExecuteTransfer preserves TypeInv.
LEMMA FailType ==
    ASSUME TypeInv, NEW h \in Handlers, Fail(h)
    PROVE  TypeInv'
<1> USE TypeOKParts DEF TypeInv
<1>1. LocalTypeOK'
  BY ConcludeType DEF Fail
<1>2. DbTypeOK' /\ TablesTypeOK'
  BY ReleaseType DEF Fail, DbTypeOK, TablesTypeOK
<1>3. PathInv'
  BY LeaveTx DEF Fail, Conclude, LocalTypeOK, InTx
<1> QED  BY <1>1, <1>2, <1>3, TypeInvNext

\* So do the rows that a commit makes visible: this is where validation and
\* the CHECK keep balances within their bounds.
LEMMA CommitRowsType ==
    ASSUME TypeInv, NEW h \in Handlers, pc[h] = "commit", CommitRows(h)
    PROVE  DbTypeOK' /\ TablesTypeOK'
<1> USE TypeOKParts DEF TypeInv
<1> DEFINE row == [key |-> Key(h), source |-> ParseUUID[req[h].source],
                   dest |-> ParseUUID[req[h].dest], amount |-> req[h].amount,
                   currency |-> req[h].currency]
           ref == Len(transfers) + 1
           txn == [type |-> "TRANSFER", ref |-> ref, debit |-> SourceWallet(h),
                   credit |-> DestWallet(h), amount |-> req[h].amount,
                   currency |-> req[h].currency]
<1>1. /\ SourceWallet(h) \in Wallets /\ DestWallet(h) \in Wallets
      /\ ParseUUID[req[h].source] \in Wallets /\ ParseUUID[req[h].dest] \in Wallets
      /\ req[h].amount \in Nat \ {0}
  BY Endpoints DEF HasBoth
<1>2. req[h].currency \in Currencies /\ Key(h) \in Keys
  BY RequestType, KeyType
<1>3. row \in TransferRow
  BY <1>1, <1>2 DEF TransferRow
<1>4. ref \in Nat
  BY DEF TablesTypeOK
<1>5. txn \in LedgerTxn
  BY <1>1, <1>2, <1>4 DEF LedgerTxn, Accounts
<1>6. TablesTypeOK'
  BY <1>3 DEF CommitRows, TablesTypeOK
<1>7. balance' \in [Wallets -> 0 .. MaxBigint]
  BY <1>1 DEF CommitRows, DbTypeOK, LocalTypeOK
<1>8. ledger' \in Seq(LedgerTxn)
  BY <1>5 DEF CommitRows, PostLedger, DbTypeOK
<1>9. outbox' \in Seq(OutboxEvent)
  BY <1>4 DEF CommitRows, InsertEvent, DbTypeOK, OutboxEvent
<1>10. DbTypeOK'
  BY <1>7, <1>8, <1>9, ReleaseType DEF CommitRows, DbTypeOK
<1> QED  BY <1>6, <1>10

\* The steps of ExecuteTransfer preserve TypeInv.
LEMMA ExecuteStepType ==
    ASSUME TypeInv, NEW h \in Handlers,
           \/ BeginTransfer(h) \/ LockFirst(h) \/ LockSecond(h) \/ Validate(h)
           \/ WriteRows(h) \/ ReturnError(h) \/ Commit(h)
    PROVE  TypeInv'
<1> USE TypeOKParts DEF TypeInv
<1>1. CASE BeginTransfer(h)
  <2>1. LocalTypeOK'
    <3>1. CASE Conclude(h, 400, 0)
      BY <3>1, ConcludeType
    <3>2. CASE Goto(h, "lock1") /\ UNCHANGED << req, snap, newBal, resp >>
      BY <3>2 DEF LocalTypeOK, Goto, PCs
    <3> QED  BY <1>1, <3>1, <3>2 DEF BeginTransfer
  <2>2. DbTypeOK' /\ TablesTypeOK'
    BY <1>1 DEF BeginTransfer, DbTypeOK, TablesTypeOK, dbVars
  <2>3. PathInv'
    <3>1. CASE ~WellFormed(h)
      BY <1>1, <3>1, LeaveTx DEF BeginTransfer, Conclude, LocalTypeOK, InTx
    <3>2. CASE WellFormed(h)
      BY <1>1, <3>2 DEF BeginTransfer, Goto, LocalTypeOK, PathInv, InTx, HasFirst, HasBoth,
         WellFormed, FirstWallet, SecondWallet, FirstLock, SecondLock, SourceWallet,
         DestWallet, SourceIsFirst
    <3> QED  BY <3>1, <3>2
  <2> QED  BY <2>1, <2>2, <2>3, TypeInvNext
<1>2. CASE LockFirst(h)
  <2>0. FirstWallet(h) \in Wallets
    BY <1>2 DEF LockFirst, RowExists, FirstWallet
  <2>1. LocalTypeOK'
    BY <1>2, <2>0 DEF LockFirst, LocalTypeOK, Goto, PCs, RowOf, Row, DbTypeOK
  <2>2. DbTypeOK' /\ TablesTypeOK'
    BY <1>2, <2>0, TransfersAssumption DEF LockFirst, DbTypeOK, TablesTypeOK
  <2>3. PathInv'
    BY <1>2, <2>0 DEF LockFirst, Goto, LocalTypeOK, PathInv, InTx, HasFirst, HasBoth,
       WellFormed, FirstWallet, SecondWallet, FirstLock, SecondLock, SourceWallet,
       DestWallet, SourceIsFirst
  <2> QED  BY <2>1, <2>2, <2>3, TypeInvNext
<1>3. CASE LockSecond(h)
  <2>0. SecondWallet(h) \in Wallets
    BY <1>3 DEF LockSecond, RowExists, SecondWallet
  <2>1. LocalTypeOK'
    BY <1>3, <2>0 DEF LockSecond, LocalTypeOK, Goto, PCs, RowOf, Row, DbTypeOK
  <2>2. DbTypeOK' /\ TablesTypeOK'
    BY <1>3, <2>0, TransfersAssumption DEF LockSecond, DbTypeOK, TablesTypeOK
  <2>3. PathInv'
    BY <1>3, <2>0 DEF LockSecond, Goto, LocalTypeOK, PathInv, InTx, HasFirst, HasBoth,
       WellFormed, FirstWallet, SecondWallet, FirstLock, SecondLock, SourceWallet,
       DestWallet, SourceIsFirst
  <2> QED  BY <2>1, <2>2, <2>3, TypeInvNext
<1>4. CASE Validate(h)
  <2>1. LocalTypeOK'
    BY <1>4 DEF Validate, LocalTypeOK, Goto, PCs
  <2>2. DbTypeOK' /\ TablesTypeOK'
    BY <1>4 DEF Validate, DbTypeOK, TablesTypeOK, dbVars
  <2>3. PathInv'
    BY <1>4 DEF Validate, Goto, LocalTypeOK, PathInv, InTx, HasFirst, HasBoth,
       WellFormed, FirstWallet, SecondWallet, FirstLock, SecondLock, SourceWallet,
       DestWallet, SourceIsFirst
  <2> QED  BY <2>1, <2>2, <2>3, TypeInvNext
<1>5. CASE WriteRows(h)
  <2>0. /\ SourceWallet(h) \in Wallets /\ DestWallet(h) \in Wallets
        /\ req[h].amount \in Nat \ {0}
    BY <1>5, Endpoints DEF WriteRows, HasBoth
  <2>1. /\ balance[SourceWallet(h)] - req[h].amount \in 0 .. MaxBigint
        /\ balance[DestWallet(h)] + req[h].amount \in 0 .. MaxBigint
    BY <1>5, <2>0, MaxBigintAssumption DEF WriteRows, Writable, DbTypeOK
  <2>2. LocalTypeOK'
    BY <1>5, <2>1 DEF WriteRows, LocalTypeOK, Goto, PCs
  <2>3. DbTypeOK' /\ TablesTypeOK'
    BY <1>5 DEF WriteRows, DbTypeOK, TablesTypeOK, dbVars
  <2>4. PathInv'
    <3>1. /\ pc[h] = "write" /\ pc' = [pc EXCEPT ![h] = "commit"] /\ req' = req
          /\ SourceWallet(h) # DestWallet(h)
      BY <1>5 DEF WriteRows, Writable, Goto
    <3> QED
      BY <3>1 DEF LocalTypeOK, PathInv, InTx, HasFirst, HasBoth, WellFormed, FirstWallet,
         SecondWallet, FirstLock, SecondLock, SourceWallet, DestWallet, SourceIsFirst
  <2> QED  BY <2>2, <2>3, <2>4, TypeInvNext
<1>6. CASE ReturnError(h)
  BY <1>6, FailType DEF ReturnError
<1>7. CASE Commit(h)
  <2>1. DbTypeOK' /\ TablesTypeOK'
    BY <1>7, CommitRowsType DEF Commit
  <2>2. LocalTypeOK'
    BY <1>7, ConcludeType DEF Commit, TablesTypeOK
  <2>3. PathInv'
    BY <1>7, LeaveTx DEF Commit, Conclude, LocalTypeOK, InTx
  <2> QED  BY <2>1, <2>2, <2>3, TypeInvNext
<1> QED
  BY <1>1, <1>2, <1>3, <1>4, <1>5, <1>6, <1>7

\* Failures preserve TypeInv.
LEMMA FailureType ==
    ASSUME TypeInv, NEW h \in Handlers, Failure(h)
    PROVE  TypeInv'
<1> USE TypeOKParts DEF TypeInv
<1> Key(h) \in Keys
  BY KeyType
<1>1. CASE StatementError(h)
  <2>1. CASE Fail(h)
    BY <2>1, FailType
  <2>2. CASE /\ Goto(h, "select")
             /\ UNCHANGED << dbVars, req, snap, newBal, resp, idem, transfers, answers >>
    <3>1. LocalTypeOK' /\ DbTypeOK' /\ TablesTypeOK'
      BY <2>2 DEF LocalTypeOK, Goto, PCs, DbTypeOK, TablesTypeOK, dbVars
    <3>2. PathInv'
      BY <2>2, LeaveTx DEF Goto, LocalTypeOK, InTx
    <3> QED  BY <3>1, <3>2, TypeInvNext
  <2>3. CASE Return(h) /\ UNCHANGED << dbVars, idem, transfers, answers >>
    <3>1. LocalTypeOK'
      BY <2>3, ReturnType
    <3>2. DbTypeOK' /\ TablesTypeOK'
      BY <2>3 DEF DbTypeOK, TablesTypeOK, dbVars
    <3>3. PathInv'
      BY <2>3, LeaveTx DEF Return, LocalTypeOK, InTx
    <3> QED  BY <3>1, <3>2, <3>3, TypeInvNext
  <2>4. CASE Conclude(h, 403, 0) /\ UNCHANGED << dbVars, idem, transfers, answers >>
    <3>1. LocalTypeOK'
      BY <2>4, ConcludeType
    <3>2. DbTypeOK' /\ TablesTypeOK'
      BY <2>4 DEF DbTypeOK, TablesTypeOK, dbVars
    <3>3. PathInv'
      BY <2>4, LeaveTx DEF Conclude, LocalTypeOK, InTx
    <3> QED  BY <3>1, <3>2, <3>3, TypeInvNext
  <2>5. CASE Answer(h, resp[h]) /\ Return(h) /\ UNCHANGED << dbVars, idem, transfers >>
    <3>1. LocalTypeOK'
      BY <2>5, ReturnType
    <3>2. answers' \subseteq [request : Submissions, resp : Response]
      <4>1. resp[h] \in Response
        BY DEF LocalTypeOK
      <4> QED  BY <2>5, <4>1, AnswerType
    <3>3. DbTypeOK' /\ TablesTypeOK'
      BY <2>5, <3>2 DEF DbTypeOK, TablesTypeOK, dbVars
    <3>4. PathInv'
      BY <2>5, LeaveTx DEF Return, LocalTypeOK, InTx
    <3> QED  BY <3>1, <3>3, <3>4, TypeInvNext
  <2> QED  BY <1>1, <2>1, <2>2, <2>3, <2>4, <2>5 DEF StatementError
<1>2. CASE LostReply(h)
  <2>1. CASE /\ idem' = [idem EXCEPT ![Key(h)].status = "IN_PROGRESS"]
             /\ Goto(h, "select")
             /\ UNCHANGED << dbVars, req, snap, newBal, resp, transfers, answers >>
    <3>1. LocalTypeOK' /\ DbTypeOK'
      BY <2>1 DEF LocalTypeOK, Goto, PCs, DbTypeOK, dbVars
    <3>2. TablesTypeOK'
      BY <2>1 DEF TablesTypeOK, IdemRow
    <3>3. PathInv'
      BY <2>1, LeaveTx DEF Goto, LocalTypeOK, InTx
    <3> QED  BY <3>1, <3>2, <3>3, TypeInvNext
  <2>2. CASE pc[h] = "commit" /\ CommitRows(h) /\ Conclude(h, 400, 0)
    <3>1. DbTypeOK' /\ TablesTypeOK'
      BY <2>2, CommitRowsType
    <3>2. LocalTypeOK'
      BY <2>2, ConcludeType
    <3>3. PathInv'
      BY <2>2, LeaveTx DEF Conclude, LocalTypeOK, InTx
    <3> QED  BY <3>1, <3>2, <3>3, TypeInvNext
  <2> QED  BY <1>2, <2>1, <2>2 DEF LostReply
<1>3. CASE Abandon(h)
  <2>1. LocalTypeOK'
    BY <1>3, ReturnType DEF Abandon
  <2>2. DbTypeOK' /\ TablesTypeOK'
    BY <1>3, ReleaseType DEF Abandon, DbTypeOK, TablesTypeOK
  <2>3. PathInv'
    BY <1>3, LeaveTx DEF Abandon, Return, LocalTypeOK, InTx
  <2> QED  BY <2>1, <2>2, <2>3, TypeInvNext
<1>4. CASE DeadlockAbort(h)
  BY <1>4, FailType DEF DeadlockAbort
<1> QED
  BY <1>1, <1>2, <1>3, <1>4 DEF Failure

\* Every step preserves TypeInv.
LEMMA TypeStep == TypeInv /\ [Next]_vars => TypeInv'
<1> SUFFICES ASSUME TypeInv, [Next]_vars PROVE TypeInv'
  OBVIOUS
<1>1. ASSUME NEW h \in Handlers, TransferStep(h) PROVE TypeInv'
  BY <1>1, RequestStepType, ExecuteStepType, FailureType
  DEF TransferStep, HandlerStep, LockStep
<1>2. ASSUME NEW w \in Wallets, WalletStep(w), UNCHANGED transferVars PROVE TypeInv'
  BY <1>2, WalletStepType
<1>3. CASE UNCHANGED vars
  BY <1>3 DEF TypeInv, TypeOK, DbTypeOK, PathInv, vars, dbVars, transferVars, WellFormed,
     FirstWallet, SecondWallet, FirstLock, SecondLock, SourceWallet, DestWallet, SourceIsFirst
<1> QED
  BY <1>1, <1>2, <1>3 DEF Next

\* Every variable has its type in every reachable state; in particular, no
\* balance is negative or above MaxBigint (the column's CHECK and its BIGINT),
\* which is what ExecuteTransfer's validation and row locks are for.
THEOREM TypeCorrect == Spec => []TypeOK
<1>1. TypeInv => TypeOK
  BY DEF TypeInv
<1> QED
  BY <1>1, TypeInit, TypeStep, PTL DEF Spec

-----------------------------------------------------------------------------
\* A handler owns its key from the INSERT of TryAcquire to its last statement;
\* in PreCommit it has not moved money yet.
NotOwning == {"idle", "insert", "select"}
PreCommit == {"owner", "begin", "lock1", "lock2", "check", "write", "commit"}

\* The row of an owned key says IN_PROGRESS.
OwnerInProgress ==
    \A h \in Handlers : pc[h] \notin NotOwning => idem[Key(h)].status = "IN_PROGRESS"

\* No two handlers own one key.
OneOwner ==
    \A g, h \in Handlers :
        pc[g] \notin NotOwning /\ pc[h] \notin NotOwning /\ Key(g) = Key(h) => g = h

\* Before its commit, the owner of a key finds no transfer with that key.
OwnerNotYetPaid ==
    \A h \in Handlers :
        pc[h] \in PreCommit => \A i \in DOMAIN transfers : transfers[i].key # Key(h)

\* A key with a transfer has a row, so no INSERT can win it again.
PaidKeysKnown ==
    \A i \in DOMAIN transfers : idem[transfers[i].key].status # "ABSENT"

\* AtMostOncePerKey is not inductive: a second transfer is excluded because the
\* one owner of a key commits once and the key is never free again.
KeyInv ==
    OwnerInProgress /\ OneOwner /\ OwnerNotYetPaid /\ PaidKeysKnown /\ AtMostOncePerKey

\* The key of a transfer is a key.
LEMMA TransferKeyType ==
    ASSUME TablesTypeOK, NEW i \in DOMAIN transfers
    PROVE  transfers[i].key \in Keys
<1>1. transfers[i] \in TransferRow
  BY DEF TablesTypeOK
<1> QED  BY <1>1 DEF TransferRow

\* A step that leaves both tables alone, and by which a handler gives up its
\* key or goes on towards its commit, preserves KeyInv.
LEMMA KeyFrame ==
    ASSUME KeyInv, NEW h \in Handlers, UNCHANGED << idem, transfers >>,
           \A g \in Handlers \ {h} : pc'[g] = pc[g] /\ req'[g] = req[g],
           \/ pc'[h] \in NotOwning
           \/ /\ req'[h] = req[h] /\ pc[h] \notin NotOwning
              /\ pc'[h] \in PreCommit => pc[h] \in PreCommit
    PROVE  KeyInv'
<1> USE DEF KeyInv
<1>1. OwnerInProgress'
  BY DEF OwnerInProgress, Key
<1>2. OneOwner'
  BY DEF OneOwner, Key
<1>3. OwnerNotYetPaid'
  BY DEF OwnerNotYetPaid, Key, NotOwning, PreCommit
<1>4. PaidKeysKnown' /\ AtMostOncePerKey'
  BY DEF PaidKeysKnown, AtMostOncePerKey
<1> QED  BY <1>1, <1>2, <1>3, <1>4

\* The INSERT of TryAcquire makes the handler the one owner of a key without
\* a transfer.
LEMMA KeyAcquire ==
    ASSUME TypeInv, KeyInv, NEW h \in Handlers, pc[h] = "insert",
           idem[Key(h)].status = "ABSENT",
           idem' = [idem EXCEPT ![Key(h)].status = "IN_PROGRESS"],
           UNCHANGED << req, transfers >>,
           NEW l \in {"owner", "select"}, Goto(h, l)
    PROVE  KeyInv'
<1> USE DEF KeyInv
<1> LocalTypeOK /\ TablesTypeOK
  BY TypeOKParts DEF TypeInv
<1>0. Key(h) \in Keys
  BY KeyType
<1>1. /\ idem'[Key(h)].status = "IN_PROGRESS"
      /\ \A k \in Keys : k # Key(h) => idem'[k] = idem[k]
  BY <1>0 DEF TablesTypeOK, IdemRow
<1>2. \A g \in Handlers : pc[g] \notin NotOwning => Key(g) # Key(h)
  BY DEF OwnerInProgress
<1>3. \A g \in Handlers : Key(g) \in Keys /\ Key(g)' = Key(g)
  BY KeyType DEF Key
<1>4. pc' = [pc EXCEPT ![h] = l] /\ pc \in [Handlers -> PCs]
  BY DEF Goto, LocalTypeOK
<1>5. OwnerInProgress'
  BY <1>1, <1>3, <1>4 DEF OwnerInProgress, NotOwning
<1>6. OneOwner'
  BY <1>2, <1>3, <1>4 DEF OneOwner, NotOwning
<1>7. \A i \in DOMAIN transfers : transfers[i].key \in Keys
  BY TransferKeyType
<1>8. \A i \in DOMAIN transfers : transfers[i].key # Key(h)
  BY DEF PaidKeysKnown
<1>9. OwnerNotYetPaid'
  BY <1>3, <1>4, <1>8 DEF OwnerNotYetPaid, PreCommit
<1>10. PaidKeysKnown' /\ AtMostOncePerKey'
  BY <1>1, <1>7, <1>8 DEF PaidKeysKnown, AtMostOncePerKey
<1> QED  BY <1>5, <1>6, <1>9, <1>10

\* Complete writes the row of the one owner, who then owns nothing.
LEMMA KeyComplete ==
    ASSUME TypeInv, KeyInv, NEW h \in Handlers, Complete(h)
    PROVE  KeyInv'
<1> USE DEF KeyInv
<1> LocalTypeOK /\ TablesTypeOK
  BY TypeOKParts DEF TypeInv
<1>0. Key(h) \in Keys
  BY KeyType
<1>1. /\ idem'[Key(h)].status = "COMPLETED"
      /\ \A k \in Keys : k # Key(h) => idem'[k] = idem[k]
  BY <1>0 DEF TablesTypeOK, Complete
<1>2. pc[h] \notin NotOwning /\ pc'[h] = "idle"
  BY DEF Complete, Return, NotOwning, LocalTypeOK
<1>3. \A g \in Handlers \ {h} : pc'[g] = pc[g] /\ Key(g)' = Key(g) /\ Key(g) \in Keys
  BY KeyType DEF Complete, Return, LocalTypeOK, Key
<1>4. OwnerInProgress'
  BY <1>1, <1>2, <1>3 DEF OwnerInProgress, OneOwner, NotOwning
<1>5. OneOwner'
  BY <1>2, <1>3 DEF OneOwner, NotOwning
<1>6. transfers' = transfers
  BY DEF Complete
<1>7. OwnerNotYetPaid'
  BY <1>2, <1>3, <1>6 DEF OwnerNotYetPaid, PreCommit
<1>8. \A i \in DOMAIN transfers : transfers[i].key \in Keys
  BY TransferKeyType
<1>9. PaidKeysKnown' /\ AtMostOncePerKey'
  BY <1>1, <1>6, <1>8 DEF PaidKeysKnown, AtMostOncePerKey
<1> QED  BY <1>4, <1>5, <1>7, <1>9

\* The commit adds the first and only transfer of its key.
LEMMA KeyCommit ==
    ASSUME TypeInv, KeyInv, NEW h \in Handlers, pc[h] = "commit", CommitRows(h),
           NEW c, NEW t, Conclude(h, c, t)
    PROVE  KeyInv'
<1> USE DEF KeyInv
<1> LocalTypeOK /\ TablesTypeOK
  BY TypeOKParts DEF TypeInv
<1>1. pc[h] \notin NotOwning /\ pc'[h] = "complete" /\ req' = req /\ idem' = idem
  BY DEF Conclude, CommitRows, LocalTypeOK, NotOwning
<1>2. \A g \in Handlers \ {h} : pc'[g] = pc[g]
  BY DEF Conclude, LocalTypeOK
<1>3. \A g \in Handlers : Key(g)' = Key(g)
  BY <1>1 DEF Key
<1>4. OwnerInProgress' /\ OneOwner'
  BY <1>1, <1>2, <1>3 DEF OwnerInProgress, OneOwner, NotOwning
<1>5. PICK r : r.key = Key(h) /\ transfers' = Append(transfers, r)
  BY DEF CommitRows
<1>6. /\ DOMAIN transfers' = DOMAIN transfers \cup {Len(transfers) + 1}
      /\ \A i \in DOMAIN transfers : transfers'[i] = transfers[i]
      /\ transfers'[Len(transfers) + 1].key = Key(h)
  BY <1>5 DEF TablesTypeOK
<1>7. \A i \in DOMAIN transfers : transfers[i].key # Key(h)
  BY DEF OwnerNotYetPaid, PreCommit
<1>8. OwnerNotYetPaid'
  <2> SUFFICES ASSUME NEW g \in Handlers, pc'[g] \in PreCommit,
                      NEW i \in DOMAIN transfers'
               PROVE  transfers'[i].key # Key(g)
    BY <1>3 DEF OwnerNotYetPaid
  <2>1. g # h /\ pc[g] \in PreCommit
    BY <1>1, <1>2 DEF PreCommit
  <2>2. Key(g) # Key(h)
    BY <1>1, <2>1 DEF OneOwner, PreCommit, NotOwning
  <2> QED  BY <1>6, <2>1, <2>2 DEF OwnerNotYetPaid
<1>9. PaidKeysKnown'
  BY <1>1, <1>6 DEF PaidKeysKnown, OwnerInProgress
<1>10. AtMostOncePerKey'
  BY <1>6, <1>7 DEF AtMostOncePerKey
<1> QED  BY <1>4, <1>8, <1>9, <1>10

\* The steps of a handler preserve KeyInv.
LEMMA KeyHandlerStep ==
    ASSUME TypeInv, KeyInv, NEW h \in Handlers, TransferStep(h)
    PROVE  KeyInv'
<1> USE DEF TypeInv
<1> LocalTypeOK
  BY TypeOKParts
<1>1. CASE HandleTransfer(h)
  BY <1>1, KeyFrame DEF HandleTransfer, Goto, LocalTypeOK, NotOwning
<1>2. CASE TryAcquireInsert(h)
  <2>1. CASE idem[Key(h)].status = "ABSENT"
    BY <1>2, <2>1, KeyAcquire DEF TryAcquireInsert
  <2>2. CASE idem[Key(h)].status # "ABSENT"
    BY <1>2, <2>2, KeyFrame DEF TryAcquireInsert, Goto, LocalTypeOK, NotOwning
  <2> QED  BY <2>1, <2>2
<1>3. CASE TryAcquireSelect(h)
  BY <1>3, KeyFrame DEF TryAcquireSelect, Return, LocalTypeOK, NotOwning
<1>4. CASE CheckOwner(h) \/ BeginTransfer(h)
  BY <1>4, KeyFrame
  DEF CheckOwner, BeginTransfer, Goto, Conclude, LocalTypeOK, NotOwning, PreCommit
<1>5. CASE LockFirst(h) \/ LockSecond(h) \/ Validate(h) \/ WriteRows(h)
  BY <1>5, KeyFrame
  DEF LockFirst, LockSecond, Validate, WriteRows, Goto, LocalTypeOK, NotOwning, PreCommit
<1>6. CASE Fail(h) /\ pc[h] \in InTx \cup {"begin"}
  BY <1>6, KeyFrame DEF Fail, Conclude, LocalTypeOK, InTx, NotOwning, PreCommit
<1>7. CASE Commit(h)
  BY <1>7, KeyCommit DEF Commit
<1>8. CASE Complete(h)
  BY <1>8, KeyComplete
<1>9. CASE StatementError(h)
  <2>1. CASE Fail(h)
    <3>1. pc[h] \in InTx \cup {"begin"}
      BY <1>9, <2>1 DEF StatementError, Fail, Goto, Return, Conclude, LocalTypeOK, InTx
    <3> QED  BY <1>6, <2>1, <3>1
  <2>2. CASE ~Fail(h)
    BY <1>9, <2>2, KeyFrame
    DEF StatementError, Goto, Return, Conclude, LocalTypeOK, NotOwning, PreCommit
  <2> QED  BY <2>1, <2>2
<1>10. CASE LostReply(h)
  BY <1>10, KeyAcquire, KeyCommit DEF LostReply
<1>11. CASE Abandon(h)
  BY <1>11, KeyFrame DEF Abandon, Return, LocalTypeOK, NotOwning
<1>12. CASE ReturnError(h)
  BY <1>6, <1>12 DEF ReturnError, InTx
<1>13. CASE DeadlockAbort(h)
  BY <1>6, <1>13 DEF DeadlockAbort, WaitCycle, WaitsFor, InTx
<1>14. CASE HandlerStep(h)
  BY <1>14, <1>2, <1>3, <1>4, <1>5, <1>7, <1>8, <1>12 DEF HandlerStep
<1>15. CASE Failure(h)
  BY <1>15, <1>9, <1>10, <1>11, <1>13 DEF Failure
<1> QED
  BY <1>1, <1>5, <1>14, <1>15 DEF TransferStep, LockStep

\* Every step preserves KeyInv.
LEMMA KeyStep == TypeInv /\ KeyInv /\ [Next]_vars => KeyInv'
<1> SUFFICES ASSUME TypeInv, KeyInv, [Next]_vars PROVE KeyInv'
  OBVIOUS
<1>1. ASSUME NEW h \in Handlers, TransferStep(h) PROVE KeyInv'
  BY <1>1, KeyHandlerStep
<1>2. CASE UNCHANGED transferVars
  BY <1>2 DEF KeyInv, OwnerInProgress, OneOwner, OwnerNotYetPaid, PaidKeysKnown,
     AtMostOncePerKey, Key, transferVars
<1> QED
  BY <1>1, <1>2 DEF Next, vars

\* There are no owners and no transfers in the first state.
LEMMA KeyInit == Init => KeyInv
BY DEF Init, TransferInit, KeyInv, OwnerInProgress, OneOwner, OwnerNotYetPaid, PaidKeysKnown,
   AtMostOncePerKey, Key, NotOwning, PreCommit

\* However often requests are repeated and interleaved, and whatever fails, the
\* key of idempotency_keys admits at most one transfer.
THEOREM NoDoubleTransfer == Spec => []AtMostOncePerKey
<1>1. KeyInv => AtMostOncePerKey
  BY DEF KeyInv
<1> QED
  BY <1>1, TypeInit, TypeStep, KeyInit, KeyStep, PTL DEF Spec

-----------------------------------------------------------------------------
\* The first row is locked by h, and still is what h has read.
FirstHeld(h) ==
    /\ rowLock[FirstWallet(h)] = h
    /\ status[FirstWallet(h)] # "ABSENT"
    /\ snap[h].first = RowOf(FirstWallet(h))

\* The same for the second row.
SecondHeld(h) ==
    /\ rowLock[SecondWallet(h)] = h
    /\ status[SecondWallet(h)] # "ABSENT"
    /\ snap[h].second = RowOf(SecondWallet(h))

\* The two new balances are computed from the current ones.
BalancesComputed(h) ==
    /\ newBal[h].source = balance[SourceWallet(h)] - req[h].amount
    /\ newBal[h].dest = balance[DestWallet(h)] + req[h].amount

\* h has no other lock.
HoldsOnlyThese(h) ==
    \A w \in Wallets :
        rowLock[w] = h => \/ pc[h] \in HasFirst /\ w = FirstWallet(h)
                          \/ pc[h] \in HasBoth /\ w = SecondWallet(h)

\* What handler h knows and holds, by how far it has got.
LockInvOf(h) ==
    /\ pc[h] \in HasFirst => FirstHeld(h)
    /\ pc[h] \in HasBoth => SecondHeld(h)
    /\ pc[h] \in {"write", "commit"} => Validated(h)
    /\ pc[h] = "commit" => BalancesComputed(h)
    /\ HoldsOnlyThese(h)

\* The invariant of the locks: what was read FOR UPDATE is still true.
LockInv == \A h \in Handlers : LockInvOf(h)

\* A step that changes neither g nor the rows that g has locked preserves
\* what g knows.
LEMMA LockFrame ==
    ASSUME TypeInv, NEW g \in Handlers, LockInvOf(g),
           pc'[g] = pc[g], req'[g] = req[g], snap'[g] = snap[g], newBal'[g] = newBal[g],
           \A w \in Wallets : rowLock'[w] = g <=> rowLock[w] = g,
           \A w \in Wallets : rowLock[w] = g /\ status[w] # "ABSENT" =>
                                balance'[w] = balance[w] /\ status'[w] = status[w]
    PROVE  LockInvOf(g)'
<1> LocalTypeOK /\ PathInv
  BY TypeOKParts DEF TypeInv
<1>1. /\ FirstWallet(g)' = FirstWallet(g) /\ SecondWallet(g)' = SecondWallet(g)
      /\ SourceWallet(g)' = SourceWallet(g) /\ DestWallet(g)' = DestWallet(g)
      /\ SourceIsFirst(g)' = SourceIsFirst(g)
  BY DEF FirstWallet, SecondWallet, FirstLock, SecondLock, SourceWallet, DestWallet, SourceIsFirst
<1>2. /\ pc[g] \in HasFirst => FirstWallet(g) \in Wallets
      /\ pc[g] \in HasBoth => SecondWallet(g) \in Wallets
  BY DEF PathInv
<1>3. pc'[g] \in HasFirst => FirstHeld(g)'
  BY <1>1, <1>2 DEF LockInvOf, FirstHeld, RowOf
<1>4. pc'[g] \in HasBoth => SecondHeld(g)'
  BY <1>1, <1>2 DEF LockInvOf, SecondHeld, RowOf
<1>5. pc'[g] \in {"write", "commit"} => Validated(g)'
  BY <1>1 DEF LockInvOf, Validated, SourceRow, DestRow
<1>6. pc'[g] = "commit" => BalancesComputed(g)'
  <2> SUFFICES ASSUME pc[g] = "commit" PROVE BalancesComputed(g)'
    OBVIOUS
  <2>1. /\ rowLock[FirstWallet(g)] = g /\ status[FirstWallet(g)] # "ABSENT"
        /\ rowLock[SecondWallet(g)] = g /\ status[SecondWallet(g)] # "ABSENT"
        /\ FirstWallet(g) \in Wallets /\ SecondWallet(g) \in Wallets
    BY <1>2 DEF LockInvOf, FirstHeld, SecondHeld, HasFirst, HasBoth
  <2>2. /\ balance'[SourceWallet(g)] = balance[SourceWallet(g)]
        /\ balance'[DestWallet(g)] = balance[DestWallet(g)]
    BY <2>1 DEF SourceWallet, DestWallet
  <2> QED  BY <1>1, <2>2 DEF LockInvOf, BalancesComputed
<1>7. HoldsOnlyThese(g)'
  BY <1>1 DEF LockInvOf, HoldsOnlyThese
<1> QED  BY <1>3, <1>4, <1>5, <1>6, <1>7 DEF LockInvOf

\* A handler outside its transaction knows and needs nothing.
LEMMA LockOutside ==
    ASSUME NEW h \in Handlers, pc'[h] \notin HasFirst, \A w \in Wallets : rowLock'[w] # h
    PROVE  LockInvOf(h)'
BY DEF LockInvOf, HoldsOnlyThese, HasFirst, HasBoth

\* A handler that has not locked its first row holds no lock.
LEMMA NothingHeld ==
    ASSUME NEW h \in Handlers, LockInvOf(h), pc[h] \notin HasFirst
    PROVE  \A w \in Wallets : rowLock[w] # h
BY DEF LockInvOf, HoldsOnlyThese, HasFirst, HasBoth

\* The local state of the other handlers is left alone.
OthersIdle(h) ==
    \A g \in Handlers \ {h} :
        pc'[g] = pc[g] /\ req'[g] = req[g] /\ snap'[g] = snap[g] /\ newBal'[g] = newBal[g]

\* Steps outside the transaction preserve LockInv.
LEMMA LockQuiet ==
    ASSUME TypeInv, LockInv, NEW h \in Handlers, UNCHANGED dbVars, OthersIdle(h),
           pc[h] \notin HasFirst, pc'[h] \notin HasFirst
    PROVE  LockInv'
<1>1. LockInvOf(h)'
  BY LockOutside, NothingHeld DEF LockInv, dbVars
<1>2. ASSUME NEW g \in Handlers \ {h} PROVE LockInvOf(g)'
  BY <1>2, LockFrame DEF LockInv, OthersIdle, dbVars
<1> QED  BY <1>1, <1>2 DEF LockInv

\* So do a rollback and every other end of a transaction without effect.
LEMMA LockRelease ==
    ASSUME TypeInv, LockInv, NEW h \in Handlers, ReleaseLocks(h), OthersIdle(h),
           UNCHANGED << balance, status >>, pc'[h] \notin HasFirst
    PROVE  LockInv'
<1> DbTypeOK
  BY TypeOKParts DEF TypeInv
<1>1. LockInvOf(h)'
  BY LockOutside, ReleaseFrame, TransfersAssumption
<1>2. ASSUME NEW g \in Handlers \ {h} PROVE LockInvOf(g)'
  BY <1>2, LockFrame, ReleaseFrame, TransfersAssumption DEF LockInv, OthersIdle
<1> QED  BY <1>1, <1>2 DEF LockInv

\* A commit changes only rows that its handler has locked, so nobody else's
\* knowledge becomes stale.
LEMMA LockCommit ==
    ASSUME TypeInv, LockInv, NEW h \in Handlers, pc[h] = "commit", CommitRows(h),
           NEW c, NEW t, Conclude(h, c, t)
    PROVE  LockInv'
<1> DbTypeOK /\ LocalTypeOK /\ PathInv
  BY TypeOKParts DEF TypeInv
<1>0. ReleaseLocks(h) /\ status' = status
  BY DEF CommitRows
<1>1. LockInvOf(h)'
  BY <1>0, LockOutside, ReleaseFrame, TransfersAssumption DEF Conclude, LocalTypeOK, HasFirst
<1>2. ASSUME NEW g \in Handlers \ {h} PROVE LockInvOf(g)'
  <2>1. pc'[g] = pc[g] /\ req'[g] = req[g] /\ snap'[g] = snap[g] /\ newBal'[g] = newBal[g]
    BY <1>2 DEF Conclude, LocalTypeOK
  <2>2. /\ SourceWallet(h) \in Wallets /\ rowLock[SourceWallet(h)] = h
        /\ DestWallet(h) \in Wallets /\ rowLock[DestWallet(h)] = h
    BY Endpoints DEF LockInv, LockInvOf, FirstHeld, SecondHeld, HasFirst, HasBoth,
       SourceWallet, DestWallet
  <2>3. \A w \in Wallets : rowLock[w] = g => balance'[w] = balance[w]
    BY <1>2, <2>2 DEF CommitRows, DbTypeOK
  <2> QED  BY <1>0, <1>2, <2>1, <2>3, LockFrame, ReleaseFrame, TransfersAssumption DEF LockInv
<1> QED  BY <1>1, <1>2 DEF LockInv

\* Locking and reading the first row preserves LockInv.
LEMMA LockLockFirst ==
    ASSUME TypeInv, LockInv, NEW h \in Handlers, LockFirst(h)
    PROVE  LockInv'
<1> DbTypeOK /\ LocalTypeOK /\ PathInv
  BY TypeOKParts DEF TypeInv
<1>1. FirstWallet(h) \in Wallets /\ status[FirstWallet(h)] # "ABSENT"
  BY DEF LockFirst, RowExists, FirstWallet
<1>2. /\ rowLock'[FirstWallet(h)] = h
      /\ \A v \in Wallets \ {FirstWallet(h)} : rowLock'[v] = rowLock[v]
      /\ \A g \in Handlers \ {h} : \A v \in Wallets : rowLock'[v] = g <=> rowLock[v] = g
  BY <1>1, LockTaken, TransfersAssumption DEF LockFirst
<1>3. FirstWallet(h)' = FirstWallet(h) /\ UNCHANGED << balance, status >>
  BY DEF LockFirst, FirstWallet, FirstLock
<1>4. LockInvOf(h)'
  <2>1. pc'[h] = "lock2" /\ snap'[h].first = RowOf(FirstWallet(h))
    BY DEF LockFirst, Goto, LocalTypeOK
  <2>2. FirstHeld(h)'
    BY <1>1, <1>2, <1>3, <2>1 DEF FirstHeld, RowOf
  <2>3. HoldsOnlyThese(h)'
    <3>1. \A v \in Wallets : rowLock[v] # h
      BY NothingHeld DEF LockInv, LockFirst, HasFirst
    <3>2. \A v \in Wallets : rowLock'[v] = h => v = FirstWallet(h)'
      BY <1>2, <1>3, <3>1
    <3>3. pc'[h] \in HasFirst
      BY <2>1 DEF HasFirst
    <3> QED  BY <3>2, <3>3 DEF HoldsOnlyThese
  <2> QED  BY <2>1, <2>2, <2>3 DEF LockInvOf, HasBoth
<1>5. ASSUME NEW g \in Handlers \ {h} PROVE LockInvOf(g)'
  <2>1. pc'[g] = pc[g] /\ req'[g] = req[g] /\ snap'[g] = snap[g] /\ newBal'[g] = newBal[g]
    BY <1>5 DEF LockFirst, Goto, LocalTypeOK
  <2> QED  BY <1>2, <1>3, <1>5, <2>1, LockFrame DEF LockInv
<1> QED  BY <1>4, <1>5 DEF LockInv

\* Locking and reading the second row preserves LockInv.
LEMMA LockLockSecond ==
    ASSUME TypeInv, LockInv, NEW h \in Handlers, LockSecond(h)
    PROVE  LockInv'
<1> DbTypeOK /\ LocalTypeOK /\ PathInv
  BY TypeOKParts DEF TypeInv
<1>1. /\ SecondWallet(h) \in Wallets /\ status[SecondWallet(h)] # "ABSENT"
      /\ FirstWallet(h) \in Wallets
  BY DEF LockSecond, RowExists, SecondWallet, PathInv, HasFirst
<1>2. /\ rowLock'[SecondWallet(h)] = h
      /\ \A v \in Wallets \ {SecondWallet(h)} : rowLock'[v] = rowLock[v]
      /\ \A g \in Handlers \ {h} : \A v \in Wallets : rowLock'[v] = g <=> rowLock[v] = g
  BY <1>1, LockTaken, TransfersAssumption DEF LockSecond
<1>3. /\ SecondWallet(h)' = SecondWallet(h) /\ FirstWallet(h)' = FirstWallet(h)
      /\ UNCHANGED << balance, status >>
  BY DEF LockSecond, FirstWallet, SecondWallet, FirstLock, SecondLock
<1>4. LockInvOf(h)'
  <2>1. /\ pc[h] = "lock2" /\ pc'[h] = "check"
        /\ snap'[h].second = RowOf(SecondWallet(h)) /\ snap'[h].first = snap[h].first
    BY DEF LockSecond, Goto, LocalTypeOK
  <2>2. SecondHeld(h)'
    BY <1>1, <1>2, <1>3, <2>1 DEF SecondHeld, RowOf
  <2>3. FirstHeld(h)'
    <3>1. FirstHeld(h)
      BY <2>1 DEF LockInv, LockInvOf, HasFirst
    <3> QED  BY <1>1, <1>2, <1>3, <2>1, <3>1 DEF FirstHeld, RowOf
  <2>4. HoldsOnlyThese(h)'
    <3>1. \A v \in Wallets : rowLock[v] = h => v = FirstWallet(h)
      BY <2>1 DEF LockInv, LockInvOf, HoldsOnlyThese, HasFirst, HasBoth
    <3>2. \A v \in Wallets : rowLock'[v] = h => v = FirstWallet(h)' \/ v = SecondWallet(h)'
      BY <1>2, <1>3, <3>1
    <3>3. pc'[h] \in HasFirst /\ pc'[h] \in HasBoth
      BY <2>1 DEF HasFirst, HasBoth
    <3> QED  BY <3>2, <3>3 DEF HoldsOnlyThese
  <2> QED  BY <2>1, <2>2, <2>3, <2>4 DEF LockInvOf
<1>5. ASSUME NEW g \in Handlers \ {h} PROVE LockInvOf(g)'
  <2>1. pc'[g] = pc[g] /\ req'[g] = req[g] /\ snap'[g] = snap[g] /\ newBal'[g] = newBal[g]
    BY <1>5 DEF LockSecond, Goto, LocalTypeOK
  <2> QED  BY <1>2, <1>3, <1>5, <2>1, LockFrame DEF LockInv
<1> QED  BY <1>4, <1>5 DEF LockInv

\* Validation and the UPDATEs preserve LockInv.
LEMMA LockValidateWrite ==
    ASSUME TypeInv, LockInv, NEW h \in Handlers, Validate(h) \/ WriteRows(h)
    PROVE  LockInv'
<1> DbTypeOK /\ LocalTypeOK /\ PathInv
  BY TypeOKParts DEF TypeInv
<1>1. UNCHANGED << balance, status, rowLock, req, snap >>
  BY DEF Validate, WriteRows, dbVars
<1>2. LockInvOf(h)'
  <2>1. /\ pc[h] \in {"check", "write"} /\ pc'[h] \in {"write", "commit"}
        /\ pc'[h] = "commit" => pc[h] = "write" /\ WriteRows(h)
    BY DEF Validate, WriteRows, Goto, LocalTypeOK
  <2>2. FirstHeld(h) /\ SecondHeld(h) /\ HoldsOnlyThese(h)
    BY <2>1 DEF LockInv, LockInvOf, HasFirst, HasBoth
  <2>3. FirstHeld(h)' /\ SecondHeld(h)'
    BY <1>1, <2>2 DEF FirstHeld, SecondHeld, RowOf, FirstWallet, SecondWallet, FirstLock,
       SecondLock
  <2>4. HoldsOnlyThese(h)'
    BY <1>1, <2>1, <2>2 DEF HoldsOnlyThese, FirstWallet, SecondWallet, FirstLock, SecondLock,
       HasFirst, HasBoth
  <2>5. Validated(h)
    BY DEF Validate, WriteRows, LockInv, LockInvOf
  <2>6. Validated(h)'
    BY <1>1, <2>5 DEF Validated, SourceRow, DestRow, SourceWallet, DestWallet, SourceIsFirst,
       FirstWallet, SecondWallet, FirstLock, SecondLock
  <2>7. pc'[h] = "commit" => BalancesComputed(h)'
    <3> SUFFICES ASSUME WriteRows(h) PROVE BalancesComputed(h)'
      BY <2>1
    <3>1. newBal'[h] = [source |-> balance[SourceWallet(h)] - req[h].amount,
                        dest |-> balance[DestWallet(h)] + req[h].amount]
      BY DEF WriteRows, LocalTypeOK
    <3>2. SourceWallet(h)' = SourceWallet(h) /\ DestWallet(h)' = DestWallet(h)
      BY <1>1 DEF SourceWallet, DestWallet, SourceIsFirst, FirstWallet, SecondWallet,
         FirstLock, SecondLock
    <3> QED  BY <1>1, <3>1, <3>2 DEF BalancesComputed
  <2> QED  BY <2>3, <2>4, <2>6, <2>7 DEF LockInvOf
<1>3. ASSUME NEW g \in Handlers \ {h} PROVE LockInvOf(g)'
  <2>1. pc'[g] = pc[g] /\ req'[g] = req[g] /\ snap'[g] = snap[g] /\ newBal'[g] = newBal[g]
    BY <1>3 DEF Validate, WriteRows, Goto, LocalTypeOK
  <2> QED  BY <1>1, <1>3, <2>1, LockFrame DEF LockInv
<1> QED  BY <1>2, <1>3 DEF LockInv

\* The steps of a handler preserve LockInv.
LEMMA LockHandlerStep ==
    ASSUME TypeInv, LockInv, NEW h \in Handlers, TransferStep(h)
    PROVE  LockInv'
<1> LocalTypeOK
  BY TypeOKParts DEF TypeInv
<1>1. CASE HandleTransfer(h) \/ TryAcquireInsert(h)
  BY <1>1, LockQuiet DEF HandleTransfer, TryAcquireInsert, Goto, OthersIdle, LocalTypeOK, HasFirst
<1>2. CASE TryAcquireSelect(h) \/ Complete(h)
  BY <1>2, LockQuiet DEF TryAcquireSelect, Complete, Return, OthersIdle, LocalTypeOK, HasFirst
<1>3. CASE CheckOwner(h) \/ BeginTransfer(h)
  BY <1>3, LockQuiet
  DEF CheckOwner, BeginTransfer, Goto, Conclude, OthersIdle, LocalTypeOK, HasFirst
<1>4. CASE LockFirst(h) \/ LockSecond(h) \/ Validate(h) \/ WriteRows(h)
  BY <1>4, LockLockFirst, LockLockSecond, LockValidateWrite
<1>5. CASE Fail(h)
  BY <1>5, LockRelease DEF Fail, Conclude, OthersIdle, LocalTypeOK, HasFirst
<1>6. CASE Commit(h)
  BY <1>6, LockCommit DEF Commit
<1>7. CASE StatementError(h)
  <2>1. CASE ~Fail(h)
    BY <1>7, <2>1, LockQuiet
    DEF StatementError, Goto, Return, Conclude, OthersIdle, LocalTypeOK, HasFirst
  <2> QED  BY <1>5, <2>1
<1>8. CASE LostReply(h)
  <2>1. CASE pc[h] = "insert"
    BY <1>8, <2>1, LockQuiet DEF LostReply, Goto, OthersIdle, LocalTypeOK, HasFirst
  <2>2. CASE pc[h] = "commit"
    BY <1>8, <2>2, LockCommit DEF LostReply
  <2> QED  BY <1>8, <2>1, <2>2 DEF LostReply
<1>9. CASE Abandon(h)
  BY <1>9, LockRelease DEF Abandon, Return, OthersIdle, LocalTypeOK, HasFirst
<1>10. CASE ReturnError(h) \/ DeadlockAbort(h)
  BY <1>5, <1>10 DEF ReturnError, DeadlockAbort
<1>11. CASE HandlerStep(h)
  BY <1>11, <1>1, <1>2, <1>3, <1>4, <1>6, <1>10 DEF HandlerStep
<1>12. CASE Failure(h)
  BY <1>12, <1>7, <1>8, <1>9, <1>10 DEF Failure
<1> QED
  BY <1>1, <1>4, <1>11, <1>12 DEF TransferStep, LockStep

\* A status changes only while its row is not locked, and a wallet that is
\* created was locked by nobody.
LEMMA LockWalletStep ==
    ASSUME TypeInv, LockInv, NEW w \in Wallets, WalletStep(w), UNCHANGED transferVars
    PROVE  LockInv'
<1> DbTypeOK
  BY TypeOKParts DEF TypeInv
<1> SUFFICES ASSUME NEW g \in Handlers PROVE LockInvOf(g)'
  BY DEF LockInv
<1>1. rowLock' = rowLock /\ \A v \in Wallets \ {w} : balance'[v] = balance[v] /\ status'[v] = status[v]
  BY DEF WalletStep, CreateWallet, UpdateWalletStatus, DbTypeOK
<1>2. status[w] = "ABSENT" \/ rowLock[w] # g
  BY WalletsAssumption, TransfersAssumption DEF WalletStep, CreateWallet, UpdateWalletStatus
<1> QED  BY <1>1, <1>2, LockFrame DEF LockInv, transferVars

\* Every step preserves LockInv.
LEMMA LockStepInv == TypeInv /\ LockInv /\ [Next]_vars => LockInv'
<1> SUFFICES ASSUME TypeInv, LockInv, [Next]_vars PROVE LockInv'
  OBVIOUS
<1>1. ASSUME NEW h \in Handlers, TransferStep(h) PROVE LockInv'
  BY <1>1, LockHandlerStep
<1>2. ASSUME NEW w \in Wallets, WalletStep(w), UNCHANGED transferVars PROVE LockInv'
  BY <1>2, LockWalletStep
<1>3. CASE UNCHANGED vars
  <2> SUFFICES ASSUME NEW g \in Handlers PROVE LockInvOf(g)'
    BY DEF LockInv
  <2> QED  BY <1>3, LockFrame DEF LockInv, vars, dbVars, transferVars
<1> QED
  BY <1>1, <1>2, <1>3 DEF Next

\* No lock is held in the first state.
LEMMA LockInit == Init => LockInv
<1> SUFFICES ASSUME Init, NEW h \in Handlers PROVE LockInvOf(h)
  BY DEF LockInv
<1>1. \A w \in Wallets : rowLock[w] # h
  BY WalletsAssumption, TransfersAssumption DEF Init, DbInit
<1> QED  BY <1>1 DEF Init, TransferInit, LockInvOf, HoldsOnlyThese, HasFirst, HasBoth
-----------------------------------------------------------------------------
\* What was validated on locked rows still holds.
LEMMA ValidationFromLocks == TypeInv /\ LockInv => ValidationStillHolds
<1> SUFFICES ASSUME TypeInv, LockInv, NEW h \in Handlers, pc[h] \in {"write", "commit"}
             PROVE  /\ balance[SourceWallet(h)] >= req[h].amount
                    /\ status[SourceWallet(h)] = "ACTIVE"
                    /\ status[DestWallet(h)] = "ACTIVE"
  BY DEF ValidationStillHolds
<1>1. FirstHeld(h) /\ SecondHeld(h) /\ Validated(h)
  BY DEF LockInv, LockInvOf, HasFirst, HasBoth
<1> QED
  BY <1>1 DEF FirstHeld, SecondHeld, Validated, RowOf, SourceRow, DestRow, SourceWallet,
     DestWallet

\* From validation to commit, the two rows that ExecuteTransfer checked are as
\* it checked them: SELECT ... FOR UPDATE leaves no window between check and use.
THEOREM ValidationProtected == Spec => []ValidationStillHolds
BY ValidationFromLocks, TypeInit, TypeStep, LockInit, LockStepInv, PTL DEF Spec

-----------------------------------------------------------------------------
\* A commit moves the amount of its request between two accounts of the ledger.
LEMMA CommitNet ==
    ASSUME TypeInv, NEW h \in Handlers, pc[h] = "commit", CommitRows(h)
    PROVE  Net' = [Net EXCEPT ![SourceWallet(h)] = @ - req[h].amount,
                              ![DestWallet(h)] = @ + req[h].amount]
<1> DbTypeOK /\ LocalTypeOK /\ TablesTypeOK /\ PathInv
  BY TypeOKParts DEF TypeInv
<1>1. /\ SourceWallet(h) \in Accounts /\ DestWallet(h) \in Accounts
      /\ SourceWallet(h) # DestWallet(h) /\ req[h].amount \in Nat
  BY Endpoints DEF HasBoth, PathInv, Accounts
<1>2. req[h].currency \in Currencies /\ Len(transfers) + 1 \in Nat
  BY RequestType DEF TablesTypeOK
<1>3. PostLedger("TRANSFER", Len(transfers) + 1, SourceWallet(h), DestWallet(h),
                 req[h].amount, req[h].currency)
  BY DEF CommitRows
<1> QED  BY <1>1, <1>2, <1>3, NetPost

\* A commit moves the same amount in the balances and in the ledger, because
\* the balances it writes are computed from current ones.
LEMMA CommitMovesBoth ==
    ASSUME TypeInv, LockInv, NEW h \in Handlers, pc[h] = "commit", CommitRows(h)
    PROVE  /\ status' = status
           /\ \A w \in Wallets : balance'[w] - balance[w] = Net'[w] - Net[w]
           /\ \A w \in Wallets : status[w] = "ABSENT" => balance'[w] = balance[w]
<1> DbTypeOK /\ LocalTypeOK /\ PathInv
  BY TypeOKParts DEF TypeInv
<1> DEFINE s == SourceWallet(h)
           d == DestWallet(h)
           m == req[h].amount
<1>1. s \in Wallets /\ d \in Wallets /\ s # d /\ m \in Nat
  BY Endpoints DEF HasBoth, PathInv
<1>2. newBal[h].source = balance[s] - m /\ newBal[h].dest = balance[d] + m
  BY DEF LockInv, LockInvOf, BalancesComputed
<1>3. status[s] = "ACTIVE" /\ status[d] = "ACTIVE" /\ status' = status
  BY ValidationFromLocks DEF ValidationStillHolds, CommitRows
<1>4. balance' = [balance EXCEPT ![s] = newBal[h].source, ![d] = newBal[h].dest]
  BY DEF CommitRows
<1>5. Net' = [Net EXCEPT ![s] = @ - m, ![d] = @ + m]
  BY CommitNet
<1>6. s \in Accounts /\ d \in Accounts /\ Wallets \subseteq Accounts
  BY <1>1 DEF Accounts
<1> HIDE DEF s, d, m
<1>7. /\ balance'[s] = balance[s] - m /\ balance'[d] = balance[d] + m
      /\ \A w \in Wallets \ {s, d} : balance'[w] = balance[w]
  BY <1>1, <1>2, <1>4 DEF DbTypeOK
<1>8. /\ Net'[s] = Net[s] - m /\ Net'[d] = Net[d] + m
      /\ \A w \in Wallets \ {s, d} : Net'[w] = Net[w]
  BY <1>1, <1>5, <1>6, NetType
<1>9. balance \in [Wallets -> Int] /\ Net \in [Accounts -> Int]
  BY MaxBigintAssumption, NetType DEF DbTypeOK
<1>10. \A w \in Wallets : balance'[w] - balance[w] = Net'[w] - Net[w]
  BY <1>1, <1>6, <1>7, <1>8, <1>9
<1>11. \A w \in Wallets : status[w] = "ABSENT" => balance'[w] = balance[w]
  BY <1>3, <1>7
<1> QED  BY <1>3, <1>10, <1>11

\* So the books agree after it.
LEMMA BooksCommit ==
    ASSUME TypeInv, LockInv, BooksInv, NEW h \in Handlers, pc[h] = "commit", CommitRows(h)
    PROVE  BooksInv'
<1>1. DbTypeOK /\ DbTypeOK'
  BY CommitRowsType, TypeOKParts DEF TypeInv
<1>2. balance \in [Wallets -> Int] /\ balance' \in [Wallets -> Int] /\ Net \in [Accounts -> Int]
      /\ Net' \in [Accounts -> Int] /\ Wallets \subseteq Accounts
  <2>1. balance \in [Wallets -> Int] /\ balance' \in [Wallets -> Int]
    BY <1>1, MaxBigintAssumption DEF DbTypeOK
  <2>2. Net \in [Accounts -> Int] /\ Net' \in [Accounts -> Int]
    BY <1>1, NetType, NetTypeNext
  <2> QED  BY <2>1, <2>2 DEF Accounts
<1>3. BalanceMatchesLedger'
  <2> SUFFICES ASSUME NEW w \in Wallets PROVE balance'[w] = Net'[w]
    BY DEF BalanceMatchesLedger
  <2>1. balance'[w] - balance[w] = Net'[w] - Net[w] /\ balance[w] = Net[w]
    BY CommitMovesBoth DEF BooksInv, BalanceMatchesLedger
  <2>2. balance'[w] \in Int /\ balance[w] \in Int /\ Net'[w] \in Int /\ Net[w] \in Int
    BY <1>2
  <2> QED  BY <2>1, <2>2
<1>4. AbsentIsEmpty'
  BY CommitMovesBoth DEF BooksInv, AbsentIsEmpty
<1> QED  BY <1>3, <1>4 DEF BooksInv

\* Every other step of a handler leaves the books alone.
LEMMA BooksUntouched ==
    ASSUME NEW h \in Handlers, TransferStep(h)
    PROVE  \/ UNCHANGED << balance, status, ledger >>
           \/ pc[h] = "commit" /\ CommitRows(h)
<1> USE DEF dbVars
<1>1. CASE HandlerStep(h)
  BY <1>1 DEF HandlerStep, TryAcquireInsert, TryAcquireSelect, CheckOwner, BeginTransfer,
     Validate, WriteRows, ReturnError, Commit, Complete, Fail
<1>2. CASE LockStep(h)
  BY <1>2 DEF LockStep, LockFirst, LockSecond
<1>3. CASE Failure(h)
  BY <1>3 DEF Failure, StatementError, LostReply, Abandon, DeadlockAbort, Fail
<1>4. CASE HandleTransfer(h)
  BY <1>4 DEF HandleTransfer
<1> QED  BY <1>1, <1>2, <1>3, <1>4 DEF TransferStep

\* Every step preserves BooksInv.
LEMMA BooksStep == TypeInv /\ LockInv /\ BooksInv /\ [Next]_vars => BooksInv'
<1> SUFFICES ASSUME TypeInv, LockInv, BooksInv, [Next]_vars PROVE BooksInv'
  OBVIOUS
<1> DbTypeOK
  BY TypeOKParts DEF TypeInv
<1>1. ASSUME NEW h \in Handlers, TransferStep(h) PROVE BooksInv'
  <2>1. CASE UNCHANGED << balance, status, ledger >>
    BY <2>1, NetFrame DEF BooksInv, BalanceMatchesLedger, AbsentIsEmpty
  <2> QED  BY <1>1, <2>1, BooksUntouched, BooksCommit
<1>2. ASSUME NEW w \in Wallets, WalletStep(w) PROVE BooksInv'
  BY <1>2, BooksWalletStep
<1>3. CASE UNCHANGED vars
  BY <1>3, NetFrame DEF vars, dbVars, BooksInv, BalanceMatchesLedger, AbsentIsEmpty
<1> QED
  BY <1>1, <1>2, <1>3 DEF Next

\* The books agree in the first state.
LEMMA BooksInit == Init => BooksInv
BY BooksDbInit DEF Init

\* available_balance equals the net of the ledger entries of every wallet, at
\* every moment: ExecuteTransfer never writes one without the other.
THEOREM BooksAgree == Spec => []BalanceMatchesLedger
<1>1. BooksInv => BalanceMatchesLedger
  BY DEF BooksInv
<1> QED
  BY <1>1, TypeInit, TypeStep, LockInit, LockStepInv, BooksInit, BooksStep, PTL DEF Spec

-----------------------------------------------------------------------------
\* No step changes the balance of a wallet that is frozen before it: a freeze
\* cannot slip in between the status check and the commit of a transfer.
THEOREM FrozenIsSafe == Spec => FrozenUntouched
<1> DEFINE Touch == \A w \in Wallets : balance'[w] # balance[w] =>
                        status[w] = "ACTIVE" /\ status'[w] = "ACTIVE"
<1>1. TypeInv /\ LockInv /\ BooksInv /\ [Next]_vars => [Touch]_vars
  <2> SUFFICES ASSUME TypeInv, LockInv, BooksInv, Next PROVE Touch
    OBVIOUS
  <2> DbTypeOK /\ LocalTypeOK /\ PathInv
    BY TypeOKParts DEF TypeInv
  <2>1. ASSUME NEW h \in Handlers, TransferStep(h) PROVE Touch
    <3>1. CASE UNCHANGED << balance, status, ledger >>
      BY <3>1
    <3>2. CASE pc[h] = "commit" /\ CommitRows(h)
      <4>1. status[SourceWallet(h)] = "ACTIVE" /\ status[DestWallet(h)] = "ACTIVE"
        BY <3>2, ValidationFromLocks DEF ValidationStillHolds
      <4>2. SourceWallet(h) \in Wallets /\ DestWallet(h) \in Wallets
        BY <3>2, Endpoints DEF HasBoth
      <4>3. \A w \in Wallets \ {SourceWallet(h), DestWallet(h)} : balance'[w] = balance[w]
        BY <3>2, <4>2 DEF CommitRows, DbTypeOK
      <4> QED  BY <3>2, <4>1, <4>3 DEF CommitRows
    <3> QED  BY <2>1, <3>1, <3>2, BooksUntouched
  <2>2. ASSUME NEW w \in Wallets, WalletStep(w) PROVE Touch
    BY <2>2 DEF WalletStep, CreateWallet, UpdateWalletStatus, BooksInv, AbsentIsEmpty, DbTypeOK
  <2> QED  BY <2>1, <2>2 DEF Next
<1>2. FrozenUntouched <=> [][Touch]_vars
  BY DEF FrozenUntouched
<1> HIDE DEF Touch
<1> QED
  BY <1>1, <1>2, TypeInit, TypeStep, LockInit, LockStepInv, BooksInit, BooksStep, PTL DEF Spec
-----------------------------------------------------------------------------
\* With canonical ids a handler holds a wallet below the one it waits for.  So
\* whoever waits for handler g of a cycle holds a wallet below g's first one,
\* and no first wallet of the cycle is the least.
LEMMA NoCycle == CanonicalIds /\ TypeInv /\ LockInv => NoDeadlock
<1> SUFFICES ASSUME CanonicalIds, TypeInv, LockInv,
                    NEW S \in SUBSET Handlers, WaitCycle(S)
             PROVE  FALSE
  BY DEF NoDeadlock
<1> LocalTypeOK /\ PathInv
  BY TypeOKParts DEF TypeInv
<1>1. ASSUME NEW h \in S
      PROVE  /\ pc[h] = "lock2"
             /\ FirstWallet(h) \in Nat /\ SecondWallet(h) \in Wallets
             /\ FirstWallet(h) < SecondWallet(h)
  <2>1. PICK g \in S : WaitsFor(h, g)
    BY <1>1 DEF WaitCycle
  <2>2. pc[h] = "lock2" /\ SecondWallet(h) \in Wallets
    BY <2>1 DEF WaitsFor, RowExists, SecondWallet
  <2>3. WellFormed(h) /\ FirstWallet(h) \in Wallets
    BY <1>1, <2>2 DEF PathInv, InTx, HasFirst
  <2>4. /\ req[h].source \in IdStrings /\ req[h].dest \in IdStrings
        /\ req[h].source \in Nat /\ req[h].dest \in Nat
    BY <1>1, RequestType
  <2>5. FirstLock(h) \in IdStrings /\ SecondLock(h) \in IdStrings /\ FirstLock(h) < SecondLock(h)
    BY <2>3, <2>4 DEF FirstLock, SecondLock, WellFormed
  <2>6. FirstWallet(h) = FirstLock(h) /\ SecondWallet(h) = SecondLock(h)
    BY <2>2, <2>3, <2>5, WalletsAssumption DEF CanonicalIds, FirstWallet, SecondWallet
  <2>7. FirstLock(h) \in Nat
    BY <2>4 DEF FirstLock
  <2> QED  BY <2>2, <2>5, <2>6, <2>7
<1>2. ASSUME NEW g \in S
      PROVE  \E h \in S : FirstWallet(h) < FirstWallet(g)
  <2>1. PICK h \in S : WaitsFor(h, g)
    BY <1>2 DEF WaitCycle
  <2>2. rowLock[SecondWallet(h)] = g /\ SecondWallet(h) \in Wallets /\ pc[g] = "lock2"
    BY <1>1, <1>2, <2>1 DEF WaitsFor
  <2>3. SecondWallet(h) = FirstWallet(g)
    BY <1>2, <2>2 DEF LockInv, LockInvOf, HoldsOnlyThese, HasBoth
  <2> QED  BY <1>1, <2>1, <2>3
<1> DEFINE Firsts == {FirstWallet(h) : h \in S}
<1>3. Firsts \in SUBSET Nat /\ Firsts # {}
  BY <1>1 DEF WaitCycle
<1>4. PICK n \in Firsts : \A m \in Firsts : n <= m
  <2> HIDE DEF Firsts
  <2> QED  BY <1>3, LeastNatural
<1>5. PICK g \in S : n = FirstWallet(g)
  BY <1>4
<1>6. PICK h \in S : FirstWallet(h) < FirstWallet(g)
  BY <1>2
<1>7. FirstWallet(h) \in Firsts /\ FirstWallet(h) \in Nat /\ n \in Nat
  BY <1>1, <1>5, <1>6
<1> QED  BY <1>4, <1>5, <1>6, <1>7

\* If every wallet id is spelled in one way only, ordering the two locks by id
\* makes a cycle of waiting handlers impossible.  Without that assumption it is
\* possible: the instance of MCEngine has such cycles.
THEOREM DeadlockFree == CanonicalIds => (Spec => []NoDeadlock)
<1> SUFFICES ASSUME CanonicalIds PROVE Spec => []NoDeadlock
  OBVIOUS
<1>1. TypeInv /\ LockInv => NoDeadlock
  BY NoCycle
<1> QED
  BY <1>1, TypeInit, TypeStep, LockInit, LockStepInv, PTL DEF Spec

-----------------------------------------------------------------------------
\* A key that is COMPLETED keeps its stored response for ever, so all later
\* requests with that key get the same answer.
THEOREM CompletedIsFinal == Spec => CompletedNeverChanges
<1> DEFINE Kept == \A k \in Keys : idem[k].status = "COMPLETED" => idem'[k] = idem[k]
<1>1. TypeInv /\ KeyInv /\ [Next]_vars => [Kept]_vars
  <2> SUFFICES ASSUME TypeInv, KeyInv, Next PROVE Kept
    OBVIOUS
  <2> LocalTypeOK /\ TablesTypeOK
    BY TypeOKParts DEF TypeInv
  <2>1. CASE idem' = idem
    BY <2>1
  <2>2. ASSUME NEW h \in Handlers, TryAcquireInsert(h) \/ LostReply(h) PROVE Kept
    BY <2>2, KeyType DEF TryAcquireInsert, LostReply, CommitRows, TablesTypeOK
  <2>3. ASSUME NEW h \in Handlers, Complete(h) PROVE Kept
    <3>1. idem[Key(h)].status = "IN_PROGRESS"
      BY <2>3 DEF Complete, KeyInv, OwnerInProgress, NotOwning
    <3> QED  BY <2>3, <3>1 DEF Complete, TablesTypeOK
  <2>4. ASSUME NEW h \in Handlers, TransferStep(h) PROVE Kept
    <3>1. CASE HandlerStep(h)
      BY <2>1, <2>2, <2>3, <3>1 DEF HandlerStep, TryAcquireSelect, CheckOwner, BeginTransfer,
         Validate, WriteRows, ReturnError, Commit, CommitRows, Fail
    <3>2. CASE LockStep(h) \/ HandleTransfer(h)
      BY <2>1, <3>2 DEF LockStep, LockFirst, LockSecond, HandleTransfer
    <3>3. CASE Failure(h)
      BY <2>1, <2>2, <3>3 DEF Failure, StatementError, Abandon, DeadlockAbort, Fail
    <3> QED  BY <2>4, <3>1, <3>2, <3>3 DEF TransferStep
  <2>5. CASE UNCHANGED transferVars
    BY <2>1, <2>5 DEF transferVars
  <2> QED  BY <2>4, <2>5 DEF Next
<1>2. CompletedNeverChanges <=> [][Kept]_vars
  BY DEF CompletedNeverChanges
<1> HIDE DEF Kept
<1> QED
  BY <1>1, <1>2, TypeInit, TypeStep, KeyInit, KeyStep, PTL DEF Spec

-----------------------------------------------------------------------------
\* Requests name the wallet to debit by its canonical id.  firstWallet.ID ==
\* req.SourceWalletID needs no more than that to tell source and destination
\* apart, however the destination is spelled.
CanonicalSources == \A s \in Submissions : ParseUUID[s.source] \in {s.source, NoWallet}

\* Canonical ids include canonical sources.
LEMMA CanonicalIdsSources == CanonicalIds => CanonicalSources
BY TransfersAssumption DEF CanonicalIds, CanonicalSources

\* A handler then debits and credits the wallets it was asked to.
LEMMA CanonicalEndpoints ==
    ASSUME CanonicalSources, TypeInv, NEW h \in Handlers, pc[h] = "commit"
    PROVE  /\ SourceWallet(h) = ParseUUID[req[h].source]
           /\ DestWallet(h) = ParseUUID[req[h].dest]
<1> LocalTypeOK /\ PathInv
  BY TypeOKParts DEF TypeInv
<1> DEFINE s == req[h].source
           d == req[h].dest
<1>1. ParseUUID[s] \in Wallets /\ ParseUUID[d] \in Wallets
  BY Endpoints DEF HasBoth
<1>2. s \in Nat /\ d \in Nat /\ s # d /\ SourceWallet(h) # DestWallet(h)
  BY RequestType DEF PathInv, WellFormed, InTx
<1>3. ParseUUID[s] = s
  BY <1>1, WalletsAssumption DEF CanonicalSources, LocalTypeOK
<1>4. CASE FirstLock(h) = s
  BY <1>2, <1>3, <1>4 DEF SourceWallet, DestWallet, SourceIsFirst, FirstWallet, SecondWallet,
     SecondLock
<1>5. CASE FirstLock(h) = d
  BY <1>2, <1>3, <1>5 DEF SourceWallet, DestWallet, SourceIsFirst, FirstWallet, SecondWallet,
     SecondLock
<1> QED  BY <1>4, <1>5 DEF FirstLock

\* What a commit does, in terms of the request: all that Bank asks of it.
LEMMA CommitMoves ==
    ASSUME CanonicalSources, TypeInv, KeyInv, LockInv,
           NEW h \in Handlers, pc[h] = "commit", CommitRows(h),
           NEW s, s = ParseUUID[req[h].source], NEW d, d = ParseUUID[req[h].dest],
           NEW m, m = req[h].amount
    PROVE  /\ s \in Wallets /\ d \in Wallets /\ s # d
           /\ m \in 1 .. balance[s] /\ balance[d] + m <= MaxBigint
           /\ status[s] = "ACTIVE" /\ status[d] = "ACTIVE" /\ status' = status
           /\ CurrencyOf[s] = req[h].currency /\ CurrencyOf[d] = req[h].currency
           /\ \A i \in DOMAIN transfers : transfers[i].key # req[h].key
           /\ balance' = [balance EXCEPT ![s] = @ - m, ![d] = @ + m]
           /\ transfers' = Append(transfers, [key |-> req[h].key, source |-> s, dest |-> d,
                                              amount |-> m, currency |-> req[h].currency])
<1> DbTypeOK /\ LocalTypeOK /\ TablesTypeOK /\ PathInv
  BY TypeOKParts DEF TypeInv
<1>1. SourceWallet(h) = s /\ DestWallet(h) = d
  BY CanonicalEndpoints
<1>2. s \in Wallets /\ d \in Wallets /\ s # d /\ m \in Nat \ {0}
  BY <1>1, Endpoints DEF HasBoth, PathInv
<1>3. balance[s] >= m /\ status[s] = "ACTIVE" /\ status[d] = "ACTIVE"
  BY <1>1, ValidationFromLocks DEF ValidationStillHolds
<1>4. CurrencyOf[s] = req[h].currency /\ CurrencyOf[d] = req[h].currency
  BY <1>1 DEF LockInv, LockInvOf, Validated
<1>5. newBal[h].source = balance[s] - m /\ newBal[h].dest = balance[d] + m
  BY <1>1 DEF LockInv, LockInvOf, BalancesComputed
<1>6. balance[d] + m <= MaxBigint
  BY <1>5, MaxBigintAssumption DEF LocalTypeOK
<1>7. \A i \in DOMAIN transfers : transfers[i].key # req[h].key
  BY DEF KeyInv, OwnerNotYetPaid, PreCommit, Key
<1>8. balance' = [balance EXCEPT ![s] = @ - m, ![d] = @ + m]
  <2>1. balance' = [balance EXCEPT ![s] = balance[s] - m, ![d] = balance[d] + m]
    BY <1>1, <1>5 DEF CommitRows
  <2> QED  BY <1>2, <2>1 DEF DbTypeOK
<1>9. transfers' = Append(transfers, [key |-> req[h].key, source |-> s, dest |-> d,
                                      amount |-> m, currency |-> req[h].currency])
  BY DEF CommitRows, Key
<1>10. m \in 1 .. balance[s]
  BY <1>2, <1>3 DEF DbTypeOK
<1>11. status' = status
  BY DEF CommitRows
<1> QED
  BY <1>2, <1>3, <1>4, <1>6, <1>7, <1>8, <1>9, <1>10, <1>11

\* The commit of a handler is a Transfer of Bank for its request.
LEMMA CommitIsTransfer ==
    ASSUME CanonicalIds, TypeInv, KeyInv, LockInv,
           NEW h \in Handlers, pc[h] = "commit", CommitRows(h)
    PROVE  B!Transfer(req[h])
<1> LocalTypeOK /\ PathInv
  BY TypeOKParts DEF TypeInv
<1>1. ParseUUID[req[h].source] = req[h].source /\ ParseUUID[req[h].dest] = req[h].dest
  BY Endpoints, RequestType, WalletsAssumption DEF HasBoth, CanonicalIds
<1> QED
  BY <1>1, CanonicalIdsSources, CommitMoves DEF B!Transfer

\* Every other step of a handler is invisible to Bank.
LEMMA TransfersUntouched ==
    ASSUME NEW h \in Handlers, TransferStep(h)
    PROVE  \/ UNCHANGED << balance, status, transfers >>
           \/ pc[h] = "commit" /\ CommitRows(h)
<1> USE DEF dbVars
<1>1. CASE HandlerStep(h)
  BY <1>1 DEF HandlerStep, TryAcquireInsert, TryAcquireSelect, CheckOwner, BeginTransfer,
     Validate, WriteRows, ReturnError, Commit, Complete, Fail
<1>2. CASE LockStep(h)
  BY <1>2 DEF LockStep, LockFirst, LockSecond
<1>3. CASE Failure(h)
  BY <1>3 DEF Failure, StatementError, LostReply, Abandon, DeadlockAbort, Fail
<1>4. CASE HandleTransfer(h)
  BY <1>4 DEF HandleTransfer
<1> QED  BY <1>1, <1>2, <1>3, <1>4 DEF TransferStep

\* Every step is a step of Bank or a stutter.
LEMMA BankStep ==
    ASSUME CanonicalIds
    PROVE  TypeInv /\ KeyInv /\ LockInv /\ BooksInv /\ [Next]_vars => [B!Next]_(B!bankVars)
<1> SUFFICES ASSUME TypeInv, KeyInv, LockInv, BooksInv, [Next]_vars
             PROVE  [B!Next]_(B!bankVars)
  OBVIOUS
<1> DbTypeOK /\ LocalTypeOK
  BY TypeOKParts DEF TypeInv
<1> USE DEF B!bankVars
<1>1. ASSUME NEW h \in Handlers, TransferStep(h) PROVE [B!Next]_(B!bankVars)
  <2>1. CASE UNCHANGED << balance, status, transfers >>
    BY <2>1
  <2>2. CASE pc[h] = "commit" /\ CommitRows(h)
    <3>1. req[h] \in Submissions
      BY DEF LocalTypeOK
    <3> QED  BY <2>2, <3>1, CommitIsTransfer DEF B!Next
  <2> QED  BY <1>1, <2>1, <2>2, TransfersUntouched
<1>2. ASSUME NEW w \in Wallets, WalletStep(w), UNCHANGED transferVars PROVE B!Next
  <2>0. transfers' = transfers
    BY <1>2 DEF transferVars
  <2>1. CASE CreateWallet(w)
    <3>1. balance[w] = 0
      BY <2>1 DEF CreateWallet, BooksInv, AbsentIsEmpty
    <3>2. balance' = balance
      BY <2>1, <3>1 DEF CreateWallet, DbTypeOK
    <3>3. B!Open(w)
      BY <2>0, <2>1, <3>1, <3>2 DEF CreateWallet, B!Open
    <3> QED  BY <3>3 DEF B!Next
  <2>2. CASE UpdateWalletStatus(w, "FROZEN")
    BY <2>0, <2>2 DEF UpdateWalletStatus, B!Next, B!SetStatus
  <2>3. CASE UpdateWalletStatus(w, "ACTIVE")
    BY <2>0, <2>3 DEF UpdateWalletStatus, B!Next, B!SetStatus
  <2> QED  BY <1>2, <2>1, <2>2, <2>3 DEF WalletStep
<1>3. CASE UNCHANGED vars
  BY <1>3 DEF vars, dbVars, transferVars
<1> QED
  BY <1>1, <1>2, <1>3 DEF Next

\* The first states agree.
LEMMA BankInit == Init => B!Init
BY DEF Init, DbInit, TransferInit, B!Init

\* With canonical ids the engine implements Bank: seen from outside, each
\* committed transfer is one atomic, validated movement of money, done at most
\* once for a key.
THEOREM ImplementsBank == CanonicalIds => (Spec => BankSpec)
<1> SUFFICES ASSUME CanonicalIds PROVE Spec => BankSpec
  OBVIOUS
<1>1. TypeInv /\ KeyInv /\ LockInv /\ BooksInv /\ [Next]_vars => [B!Next]_(B!bankVars)
  BY BankStep
<1> QED
  BY <1>1, BankInit, TypeInit, TypeStep, KeyInit, KeyStep, LockInit, LockStepInv,
     BooksInit, BooksStep, PTL DEF Spec, BankSpec, B!Spec
=============================================================================

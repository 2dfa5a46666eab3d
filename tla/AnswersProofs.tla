--------------------------- MODULE AnswersProofs ---------------------------
(***************************************************************************)
(* Theorems about what Transfers tells its clients and what it writes down *)
(* for them, for any number of handlers, wallets, keys and requests.       *)
(* AnswerInv is about the responses, PostedInv about the rows a commit     *)
(* leaves in three tables, and RequestedInv about the requests behind them.*)
(* They rest on the invariants of TransfersProofs.                         *)
(***************************************************************************)
EXTENDS TransfersProofs

USE DEF NoWallet, PlatformAccount

\* Response r does not claim a transfer that key k does not have.
Made(k, r) ==
    r.code = 201 => r.transfer \in DOMAIN transfers /\ transfers[r.transfer].key = k

\* Response r does not deny a transfer that key k has.
NotMade(k, r) ==
    r.code # 201 => \A i \in DOMAIN transfers : transfers[i].key # k

\* A 201 is true in any case, a refusal only if no answer to a COMMIT is lost.
Honest(k, r) == Made(k, r) /\ ("ambiguous" \notin Faults => NotMade(k, r))

\* The responses that are about to be stored and sent, that are stored, and
\* that were sent.  The key of a response that was sent is owned by nobody any
\* more, stored or not: an error of Complete leaves it IN_PROGRESS for good.
PendingHonest ==
    \A h \in Handlers : pc[h] = "complete" => Honest(Key(h), resp[h])

StoredHonest ==
    \A k \in Keys : idem[k].status = "COMPLETED" => Honest(k, idem[k].resp)

SentHonest == \A a \in answers : Honest(a.request.key, a.resp)

AnsweredIsOver ==
    \A a \in answers :
        /\ idem[a.request.key].status # "ABSENT"
        /\ idem[a.request.key].status = "COMPLETED" => a.resp = idem[a.request.key].resp
        /\ \A h \in Handlers : pc[h] \notin NotOwning => Key(h) # a.request.key

\* SingleAnswerPerKey is inductive together with AnsweredIsOver, and
\* AnswersTruthful with the others.
AnswerInv ==
    PendingHonest /\ StoredHonest /\ SentHonest /\ AnsweredIsOver /\ SingleAnswerPerKey

\* The key of an answered request is a key.
LEMMA AnswerKeyType ==
    ASSUME TablesTypeOK, NEW a \in answers
    PROVE  a.request \in Submissions /\ a.request.key \in Keys /\ a.resp \in Response
<1>1. a \in [request : Submissions, resp : Response]
  BY DEF TablesTypeOK
<1> QED  BY <1>1, TransfersAssumption

\* There are no answers in the first state.
LEMMA AnswerInit == Init => AnswerInv
BY DEF Init, TransferInit, AnswerInv, PendingHonest, StoredHonest, SentHonest,
       AnsweredIsOver, SingleAnswerPerKey

\* A step that leaves the tables alone, by which a handler gives up its key or
\* goes on with it, and by which it gets at most a true response.
LEMMA AnswerFrame ==
    ASSUME AnswerInv, NEW h \in Handlers, UNCHANGED << idem, transfers, answers >>,
           \A g \in Handlers \ {h} :
                pc'[g] = pc[g] /\ req'[g] = req[g] /\ resp'[g] = resp[g],
           \/ pc'[h] \in NotOwning
           \/ req'[h] = req[h] /\ pc[h] \notin NotOwning,
           pc'[h] = "complete" => Honest(Key(h)', resp'[h])
    PROVE  AnswerInv'
<1> USE DEF AnswerInv
<1>1. \A k, r : Honest(k, r)' <=> Honest(k, r)
  BY DEF Honest, Made, NotMade
<1>2. PendingHonest'
  <2> SUFFICES ASSUME NEW g \in Handlers, pc'[g] = "complete"
               PROVE  Honest(Key(g), resp[g])'
    BY DEF PendingHonest
  <2>1. Honest(Key(g)', resp'[g])
    BY DEF PendingHonest, Key
  <2> QED  BY <2>1 DEF Honest, Made, NotMade
<1>3. StoredHonest' /\ SentHonest'
  BY <1>1 DEF StoredHonest, SentHonest
<1>4. AnsweredIsOver'
  BY DEF AnsweredIsOver, Key
<1>5. SingleAnswerPerKey'
  BY DEF SingleAnswerPerKey
<1> QED  BY <1>2, <1>3, <1>4, <1>5

\* The INSERT wins a key that nobody was answered for.
LEMMA AnswerAcquire ==
    ASSUME TypeInv, AnswerInv, NEW h \in Handlers, pc[h] = "insert",
           idem[Key(h)].status = "ABSENT",
           idem' = [idem EXCEPT ![Key(h)].status = "IN_PROGRESS"],
           UNCHANGED << req, resp, transfers, answers >>,
           NEW l \in {"owner", "select"}, Goto(h, l)
    PROVE  AnswerInv'
<1> USE DEF AnswerInv
<1> LocalTypeOK /\ TablesTypeOK
  BY TypeOKParts DEF TypeInv
<1>0. Key(h) \in Keys
  BY KeyType
<1>1. /\ idem'[Key(h)].status = "IN_PROGRESS"
      /\ \A k \in Keys : k # Key(h) => idem'[k] = idem[k]
  BY <1>0 DEF TablesTypeOK, IdemRow
<1>2. \A k, r : Honest(k, r)' <=> Honest(k, r)
  BY DEF Honest, Made, NotMade
<1>3. /\ \A g \in Handlers : Key(g)' = Key(g)
      /\ \A g \in Handlers \ {h} : pc'[g] = pc[g]
      /\ pc'[h] = l
  BY DEF Goto, LocalTypeOK, Key
<1>4. PendingHonest'
  <2> SUFFICES ASSUME NEW g \in Handlers, pc'[g] = "complete"
               PROVE  Honest(Key(g), resp[g])'
    BY DEF PendingHonest
  <2>1. Honest(Key(g), resp[g])
    BY <1>3 DEF PendingHonest
  <2> QED  BY <1>3, <2>1 DEF Honest, Made, NotMade
<1>5. StoredHonest'
  BY <1>1, <1>2 DEF StoredHonest
<1>6. SentHonest' /\ SingleAnswerPerKey'
  BY <1>2 DEF SentHonest, SingleAnswerPerKey
<1>7. \A a \in answers : a.request.key \in Keys /\ a.request.key # Key(h)
  BY AnswerKeyType DEF AnsweredIsOver
<1>8. AnsweredIsOver'
  BY <1>1, <1>3, <1>7 DEF AnsweredIsOver
<1> QED  BY <1>4, <1>5, <1>6, <1>8

\* A commit changes nothing about the responses for other keys.
LEMMA CommitKeepsHonest ==
    ASSUME TypeInv, NEW h \in Handlers, CommitRows(h), NEW k, k # Key(h), NEW r, Honest(k, r)
    PROVE  Honest(k, r)'
<1> TablesTypeOK
  BY TypeOKParts DEF TypeInv
<1>1. PICK row : row.key = Key(h) /\ transfers' = Append(transfers, row)
  BY DEF CommitRows
<1>2. /\ DOMAIN transfers' = DOMAIN transfers \cup {Len(transfers) + 1}
      /\ \A i \in DOMAIN transfers : transfers'[i] = transfers[i]
      /\ transfers'[Len(transfers) + 1].key = Key(h)
  BY <1>1 DEF TablesTypeOK
<1> QED  BY <1>2 DEF Honest, Made, NotMade

\* The commit, whose answer may be lost.
LEMMA AnswerCommit ==
    ASSUME TypeInv, KeyInv, AnswerInv, NEW h \in Handlers, pc[h] = "commit", CommitRows(h),
           \/ Conclude(h, 201, Len(transfers) + 1)
           \/ Conclude(h, 400, 0) /\ "ambiguous" \in Faults
    PROVE  AnswerInv'
<1> USE DEF AnswerInv
<1> LocalTypeOK /\ TablesTypeOK
  BY TypeOKParts DEF TypeInv
<1>1. pc[h] \notin NotOwning /\ pc'[h] = "complete" /\ req' = req
  BY DEF Conclude, LocalTypeOK, NotOwning
<1>2. idem' = idem /\ answers' = answers
  BY DEF CommitRows
<1>3. \A g \in Handlers \ {h} : pc'[g] = pc[g] /\ resp'[g] = resp[g]
  BY DEF Conclude, LocalTypeOK
<1>4. \A g \in Handlers : Key(g)' = Key(g)
  BY <1>1 DEF Key
<1>5. \A k, r : k # Key(h) /\ Honest(k, r) => Honest(k, r)'
  BY CommitKeepsHonest
<1>6. PICK row : row.key = Key(h) /\ transfers' = Append(transfers, row)
  BY DEF CommitRows
<1>7. Len(transfers) + 1 \in DOMAIN transfers' /\ transfers'[Len(transfers) + 1].key = Key(h)
  BY <1>6 DEF TablesTypeOK
<1>8. Honest(Key(h), resp[h])'
  <2>1. CASE resp'[h] = [code |-> 201, transfer |-> Len(transfers) + 1]
    BY <1>4, <1>7, <2>1 DEF Honest, Made, NotMade
  <2>2. CASE resp'[h] = [code |-> 400, transfer |-> 0] /\ "ambiguous" \in Faults
    BY <2>2 DEF Honest, Made, NotMade
  <2> QED  BY <2>1, <2>2 DEF Conclude, LocalTypeOK
<1>9. PendingHonest'
  <2> SUFFICES ASSUME NEW g \in Handlers, g # h, pc'[g] = "complete"
               PROVE  Honest(Key(g), resp[g])'
    BY <1>8 DEF PendingHonest
  <2>1. Key(g) # Key(h) /\ Honest(Key(g), resp[g])
    BY <1>1, <1>3 DEF KeyInv, OneOwner, NotOwning, PendingHonest
  <2>2. PICK k, r : k = Key(g) /\ r = resp[g]
    OBVIOUS
  <2>3. Honest(k, r)' /\ k = Key(g)' /\ r = resp'[g]
    BY <1>3, <1>4, <1>5, <2>1, <2>2
  <2> QED  BY <2>3 DEF Honest, Made, NotMade
<1>10. StoredHonest'
  BY <1>1, <1>2, <1>5 DEF StoredHonest, KeyInv, OwnerInProgress
<1>11. SentHonest'
  BY <1>1, <1>2, <1>5 DEF SentHonest, AnsweredIsOver
<1>12. AnsweredIsOver'
  BY <1>1, <1>2, <1>3, <1>4 DEF AnsweredIsOver
<1>13. SingleAnswerPerKey'
  BY <1>2 DEF SingleAnswerPerKey
<1> QED  BY <1>9, <1>10, <1>11, <1>12, <1>13

\* The response is sent, and stored unless Complete fails.
LEMMA AnswerSend ==
    ASSUME TypeInv, KeyInv, AnswerInv, NEW h \in Handlers, pc[h] = "complete",
           Answer(h, resp[h]), Return(h), UNCHANGED transfers,
           \/ UNCHANGED idem
           \/ idem' = [idem EXCEPT ![Key(h)] = [status |-> "COMPLETED", resp |-> resp[h]]]
    PROVE  AnswerInv'
<1> USE DEF AnswerInv
<1> LocalTypeOK /\ TablesTypeOK
  BY TypeOKParts DEF TypeInv
<1> DEFINE new == [request |-> req[h], resp |-> resp[h]]
<1>0. Key(h) \in Keys /\ new.request.key = Key(h) /\ new.resp = resp[h]
  BY KeyType DEF Key
<1>1. answers' = answers \cup {new}
  BY DEF Answer
<1>2. pc[h] \notin NotOwning /\ pc'[h] = "idle"
  BY DEF Return, NotOwning, LocalTypeOK
<1>3. \A g \in Handlers \ {h} : pc'[g] = pc[g] /\ resp'[g] = resp[g] /\ Key(g)' = Key(g)
  BY DEF Return, LocalTypeOK, Key
<1>4. \A k, r : Honest(k, r)' <=> Honest(k, r)
  BY DEF Honest, Made, NotMade
<1>5. Honest(Key(h), resp[h])
  BY DEF PendingHonest
<1>6. idem[Key(h)].status = "IN_PROGRESS"
  BY <1>2 DEF KeyInv, OwnerInProgress
<1>7. \A g \in Handlers \ {h} : pc[g] \notin NotOwning => Key(g) # Key(h)
  BY <1>2 DEF KeyInv, OneOwner
<1>8. \A a \in answers : a.request.key \in Keys /\ a.request.key # Key(h)
  BY <1>2, AnswerKeyType DEF AnsweredIsOver
<1>9. /\ \A k \in Keys : k # Key(h) => idem'[k] = idem[k]
      /\ idem'[Key(h)].status \in {"IN_PROGRESS", "COMPLETED"}
      /\ idem'[Key(h)].status = "COMPLETED" => idem'[Key(h)].resp = resp[h]
  BY <1>0, <1>6 DEF TablesTypeOK
<1>10. PendingHonest'
  <2> SUFFICES ASSUME NEW g \in Handlers, pc'[g] = "complete"
               PROVE  Honest(Key(g), resp[g])'
    BY DEF PendingHonest
  <2>1. g # h /\ Honest(Key(g), resp[g])
    BY <1>2, <1>3 DEF PendingHonest
  <2> QED  BY <1>3, <2>1 DEF Honest, Made, NotMade
<1> HIDE DEF new
<1>11. StoredHonest'
  BY <1>4, <1>5, <1>9 DEF StoredHonest
<1>12. SentHonest'
  BY <1>0, <1>1, <1>4, <1>5 DEF SentHonest
<1>13. AnsweredIsOver'
  BY <1>0, <1>1, <1>2, <1>3, <1>7, <1>8, <1>9 DEF AnsweredIsOver, NotOwning
<1>14. SingleAnswerPerKey'
  BY <1>0, <1>1, <1>8 DEF SingleAnswerPerKey
<1> QED  BY <1>10, <1>11, <1>12, <1>13, <1>14

\* A completed key is answered with what is stored.
LEMMA AnswerSelect ==
    ASSUME TypeInv, KeyInv, AnswerInv, NEW h \in Handlers, TryAcquireSelect(h)
    PROVE  AnswerInv'
<1> USE DEF AnswerInv
<1> LocalTypeOK /\ TablesTypeOK
  BY TypeOKParts DEF TypeInv
<1> DEFINE new == [request |-> req[h], resp |-> idem[Key(h)].resp]
<1>0. Key(h) \in Keys /\ new.request.key = Key(h) /\ new.resp = idem[Key(h)].resp
  BY KeyType DEF Key
<1>1. pc'[h] = "idle" /\ UNCHANGED << idem, transfers >>
  BY DEF TryAcquireSelect, Return, LocalTypeOK
<1>2. \A g \in Handlers \ {h} :
          pc'[g] = pc[g] /\ req'[g] = req[g] /\ resp'[g] = resp[g] /\ Key(g)' = Key(g)
  BY DEF TryAcquireSelect, Return, LocalTypeOK, Key
<1>3. CASE UNCHANGED answers
  BY <1>1, <1>2, <1>3, AnswerFrame DEF NotOwning
<1>4. CASE idem[Key(h)].status = "COMPLETED" /\ answers' = answers \cup {new}
  <2>1. \A k, r : Honest(k, r)' <=> Honest(k, r)
    BY <1>1 DEF Honest, Made, NotMade
  <2>2. PendingHonest'
    <3> SUFFICES ASSUME NEW g \in Handlers, pc'[g] = "complete"
                 PROVE  Honest(Key(g), resp[g])'
      BY DEF PendingHonest
    <3>1. g # h /\ Honest(Key(g), resp[g])
      BY <1>1, <1>2 DEF PendingHonest
    <3> QED  BY <1>1, <1>2, <3>1 DEF Honest, Made, NotMade
  <2>3. StoredHonest'
    BY <1>1, <2>1 DEF StoredHonest
  <2>4. \A g \in Handlers : pc[g] \notin NotOwning => Key(g) # Key(h)
    BY <1>4 DEF KeyInv, OwnerInProgress
  <2> HIDE DEF new
  <2>5. SentHonest'
    BY <1>0, <1>4, <2>1 DEF SentHonest, StoredHonest
  <2>6. AnsweredIsOver'
    BY <1>0, <1>1, <1>2, <1>4, <2>4 DEF AnsweredIsOver, NotOwning
  <2>7. SingleAnswerPerKey'
    BY <1>0, <1>4 DEF SingleAnswerPerKey, AnsweredIsOver
  <2> QED  BY <2>2, <2>3, <2>5, <2>6, <2>7
<1> QED  BY <1>3, <1>4 DEF TryAcquireSelect, Answer

\* A refusal before the commit is true.
LEMMA AnswerRefuse ==
    ASSUME TypeInv, KeyInv, AnswerInv, NEW h \in Handlers, pc[h] \in PreCommit,
           NEW c \in {400, 403}, Conclude(h, c, 0), UNCHANGED << idem, transfers, answers >>
    PROVE  AnswerInv'
<1> LocalTypeOK
  BY TypeOKParts DEF TypeInv
<1>1. resp'[h] = [code |-> c, transfer |-> 0] /\ req' = req /\ Key(h)' = Key(h)
  BY DEF Conclude, LocalTypeOK, Key
<1>2. Honest(Key(h)', resp'[h])
  BY <1>1 DEF Honest, Made, NotMade, KeyInv, OwnerNotYetPaid
<1> QED
  BY <1>1, <1>2, AnswerFrame DEF Conclude, LocalTypeOK, PreCommit, NotOwning

\* The steps of a handler preserve AnswerInv.
LEMMA AnswerHandlerStep ==
    ASSUME TypeInv, KeyInv, AnswerInv, NEW h \in Handlers, TransferStep(h)
    PROVE  AnswerInv'
<1> LocalTypeOK
  BY TypeOKParts DEF TypeInv
<1>1. CASE HandleTransfer(h)
  BY <1>1, AnswerFrame DEF HandleTransfer, Goto, LocalTypeOK, NotOwning
<1>2. CASE TryAcquireInsert(h)
  <2>1. CASE idem[Key(h)].status = "ABSENT"
    BY <1>2, <2>1, AnswerAcquire DEF TryAcquireInsert
  <2>2. CASE idem[Key(h)].status # "ABSENT"
    BY <1>2, <2>2, AnswerFrame DEF TryAcquireInsert, Goto, LocalTypeOK, NotOwning
  <2> QED  BY <2>1, <2>2
<1>3. CASE Fail(h) /\ pc[h] \in InTx \cup {"begin"}
  BY <1>3, AnswerRefuse DEF Fail, InTx, PreCommit
<1>4. CASE CheckOwner(h) \/ BeginTransfer(h)
  <2>1. CASE Conclude(h, 403, 0) \/ Conclude(h, 400, 0)
    BY <1>4, <2>1, AnswerRefuse DEF CheckOwner, BeginTransfer, PreCommit
  <2>2. CASE Goto(h, "begin") \/ Goto(h, "lock1")
    <3>1. UNCHANGED << req, resp, idem, transfers, answers >> \/ Conclude(h, 403, 0)
             \/ Conclude(h, 400, 0)
      BY <1>4 DEF CheckOwner, BeginTransfer
    <3>2. pc'[h] \in {"begin", "lock1"} /\ pc[h] \in {"owner", "begin"}
      BY <1>4, <2>2 DEF CheckOwner, BeginTransfer, Goto, LocalTypeOK
    <3>3. \A g \in Handlers \ {h} : pc'[g] = pc[g]
      BY <2>2 DEF Goto, LocalTypeOK
    <3> QED  BY <2>1, <3>1, <3>2, <3>3, AnswerFrame DEF NotOwning
  <2> QED  BY <1>4, <2>1, <2>2 DEF CheckOwner, BeginTransfer
<1>5. CASE LockFirst(h) \/ LockSecond(h) \/ Validate(h) \/ WriteRows(h)
  BY <1>5, AnswerFrame
  DEF LockFirst, LockSecond, Validate, WriteRows, Goto, LocalTypeOK, NotOwning
<1>6. CASE Commit(h)
  BY <1>6, AnswerCommit DEF Commit
<1>7. CASE Complete(h)
  BY <1>7, AnswerSend DEF Complete
<1>8. CASE StatementError(h)
  <2>1. CASE pc[h] = "insert"
    BY <1>8, <2>1, AnswerFrame DEF StatementError, Goto, LocalTypeOK, NotOwning
  <2>2. CASE pc[h] = "select"
    BY <1>8, <2>2, AnswerFrame DEF StatementError, Return, LocalTypeOK, NotOwning
  <2>3. CASE pc[h] = "owner"
    BY <1>8, <2>3, AnswerRefuse DEF StatementError, PreCommit
  <2>4. CASE pc[h] \in InTx \cup {"begin"}
    BY <1>3, <1>8, <2>4 DEF StatementError, InTx
  <2>5. CASE pc[h] = "complete"
    BY <1>8, <2>5, AnswerSend DEF StatementError
  <2> QED  BY <1>8, <2>1, <2>2, <2>3, <2>4, <2>5 DEF StatementError, InTx
<1>9. CASE LostReply(h)
  BY <1>9, AnswerAcquire, AnswerCommit DEF LostReply
<1>10. CASE Abandon(h)
  BY <1>10, AnswerFrame DEF Abandon, Return, LocalTypeOK, NotOwning
<1>11. CASE ReturnError(h)
  BY <1>3, <1>11 DEF ReturnError, InTx
<1>12. CASE DeadlockAbort(h)
  BY <1>3, <1>12 DEF DeadlockAbort, WaitCycle, WaitsFor, InTx
<1>13. CASE HandlerStep(h)
  BY <1>2, <1>4, <1>5, <1>6, <1>7, <1>11, <1>13, AnswerSelect DEF HandlerStep
<1>14. CASE Failure(h)
  BY <1>8, <1>9, <1>10, <1>12, <1>14 DEF Failure
<1> QED
  BY <1>1, <1>5, <1>13, <1>14 DEF TransferStep, LockStep

\* Every step preserves AnswerInv.
LEMMA AnswerStep == TypeInv /\ KeyInv /\ AnswerInv /\ [Next]_vars => AnswerInv'
<1> SUFFICES ASSUME TypeInv, KeyInv, AnswerInv, [Next]_vars PROVE AnswerInv'
  OBVIOUS
<1>1. ASSUME NEW h \in Handlers, TransferStep(h) PROVE AnswerInv'
  BY <1>1, AnswerHandlerStep
<1>2. CASE UNCHANGED transferVars
  BY <1>2 DEF AnswerInv, PendingHonest, StoredHonest, SentHonest, AnsweredIsOver,
     SingleAnswerPerKey, Honest, Made, NotMade, Key, transferVars
<1> QED
  BY <1>1, <1>2 DEF Next, vars

\* However often a request is repeated, with whatever interleaving and failures,
\* two final answers to its key never differ, even if storing the response failed.
THEOREM OneAnswerPerKey == Spec => []SingleAnswerPerKey
<1>1. AnswerInv => SingleAnswerPerKey
  BY DEF AnswerInv
<1> QED
  BY <1>1, TypeInit, TypeStep, KeyInit, KeyStep, AnswerInit, AnswerStep, PTL DEF Spec

\* Unless the answer to a statement is lost, what clients are told and what
\* idempotency_keys stores is true and stays true: a 201 names a committed
\* transfer of the key, and after a 400 or 403 none is ever made for it.
THEOREM AnswersAreTrue == "ambiguous" \notin Faults => (Spec => []AnswersTruthful)
<1> SUFFICES ASSUME "ambiguous" \notin Faults PROVE Spec => []AnswersTruthful
  OBVIOUS
<1>1. \A k, r : Honest(k, r) => TruthAbout(k, r)
  BY DEF Honest, Made, NotMade, TruthAbout
<1>2. AnswerInv => AnswersTruthful
  BY <1>1 DEF AnswerInv, StoredHonest, SentHonest, AnswersTruthful
<1> QED
  BY <1>2, TypeInit, TypeStep, KeyInit, KeyStep, AnswerInit, AnswerStep, PTL DEF Spec

-----------------------------------------------------------------------------
\* No entry of the ledger or of the outbox refers to a transfer yet to come.
RefsKnown ==
    /\ \A n \in DOMAIN ledger :
          ledger[n].type = "TRANSFER" => ledger[n].ref \in DOMAIN transfers
    /\ \A n \in DOMAIN outbox :
          outbox[n].topic = "transfer.events" => outbox[n].ref \in DOMAIN transfers

\* PostedAsRequested is inductive together with it.
PostedInv == RefsKnown /\ PostedAsRequested

\* The commit adds one row to each of the three tables, which refer to each other.
LEMMA PostedCommit ==
    ASSUME CanonicalSources, TypeInv, PostedInv, NEW h \in Handlers, pc[h] = "commit",
           CommitRows(h)
    PROVE  PostedInv'
<1> DbTypeOK /\ LocalTypeOK /\ TablesTypeOK /\ PathInv
  BY TypeOKParts DEF TypeInv
<1> DEFINE N == Len(transfers) + 1
           L == Len(ledger) + 1
           O == Len(outbox) + 1
<1>1. /\ SourceWallet(h) = ParseUUID[req[h].source]
      /\ DestWallet(h) = ParseUUID[req[h].dest]
  BY CanonicalEndpoints
<1> DEFINE row == [key |-> Key(h), source |-> ParseUUID[req[h].source],
                   dest |-> ParseUUID[req[h].dest], amount |-> req[h].amount,
                   currency |-> req[h].currency]
           txn == [type |-> "TRANSFER", ref |-> N, debit |-> SourceWallet(h),
                   credit |-> DestWallet(h), amount |-> req[h].amount,
                   currency |-> req[h].currency]
           event == [topic |-> "transfer.events", ref |-> N]
<1>2. /\ transfers' = Append(transfers, row)
      /\ ledger' = Append(ledger, txn)
      /\ outbox' = Append(outbox, event)
  BY DEF CommitRows, PostLedger, InsertEvent
<1>3. /\ txn.type = "TRANSFER" /\ txn.ref = N
      /\ txn.debit = row.source /\ txn.credit = row.dest /\ txn.amount = row.amount
      /\ txn.currency = row.currency
      /\ event.topic = "transfer.events" /\ event.ref = N
  BY <1>1
<1> HIDE DEF row, txn, event
<1>4. /\ N \in Nat /\ N \notin DOMAIN transfers
      /\ DOMAIN transfers' = DOMAIN transfers \cup {N}
      /\ \A i \in DOMAIN transfers : transfers'[i] = transfers[i]
      /\ transfers'[N] = row
  BY <1>2 DEF TablesTypeOK
<1>5. /\ L \notin DOMAIN ledger /\ DOMAIN ledger' = DOMAIN ledger \cup {L}
      /\ \A i \in DOMAIN ledger : ledger'[i] = ledger[i]
      /\ ledger'[L] = txn
  BY <1>2 DEF DbTypeOK
<1>6. /\ O \notin DOMAIN outbox /\ DOMAIN outbox' = DOMAIN outbox \cup {O}
      /\ \A i \in DOMAIN outbox : outbox'[i] = outbox[i]
      /\ outbox'[O] = event
  BY <1>2 DEF DbTypeOK
<1> HIDE DEF N, L, O
<1>7. RefsKnown'
  BY <1>3, <1>4, <1>5, <1>6 DEF PostedInv, RefsKnown
<1>8. ASSUME NEW i \in DOMAIN transfers'
      PROVE  \E j \in DOMAIN ledger' :
                /\ \A n \in DOMAIN ledger' :
                      ledger'[n].type = "TRANSFER" /\ ledger'[n].ref = i <=> n = j
                /\ ledger'[j].debit = transfers'[i].source
                /\ ledger'[j].credit = transfers'[i].dest
                /\ ledger'[j].amount = transfers'[i].amount
                /\ ledger'[j].currency = transfers'[i].currency
  <2>1. CASE i = N
    <3>1. \A n \in DOMAIN ledger : ~(ledger[n].type = "TRANSFER" /\ ledger[n].ref = N)
      BY <1>4 DEF PostedInv, RefsKnown
    <3> QED  BY <1>3, <1>4, <1>5, <2>1, <3>1
  <2>2. CASE i # N
    <3>1. i \in DOMAIN transfers /\ transfers'[i] = transfers[i]
      BY <1>4, <2>2
    <3>2. PICK j \in DOMAIN ledger :
            /\ \A n \in DOMAIN ledger :
                  ledger[n].type = "TRANSFER" /\ ledger[n].ref = i <=> n = j
            /\ ledger[j].debit = transfers[i].source
            /\ ledger[j].credit = transfers[i].dest
            /\ ledger[j].amount = transfers[i].amount
            /\ ledger[j].currency = transfers[i].currency
      BY <3>1 DEF PostedInv, PostedAsRequested
    <3> QED  BY <1>3, <1>5, <2>2, <3>1, <3>2
  <2> QED  BY <2>1, <2>2
<1>9. ASSUME NEW i \in DOMAIN transfers'
      PROVE  \E j \in DOMAIN outbox' : \A n \in DOMAIN outbox' :
                outbox'[n].topic = "transfer.events" /\ outbox'[n].ref = i <=> n = j
  <2>1. CASE i = N
    <3>1. \A n \in DOMAIN outbox : ~(outbox[n].topic = "transfer.events" /\ outbox[n].ref = N)
      BY <1>4 DEF PostedInv, RefsKnown
    <3> QED  BY <1>3, <1>6, <2>1, <3>1
  <2>2. CASE i # N
    <3>1. i \in DOMAIN transfers
      BY <1>4, <2>2
    <3>2. PICK j \in DOMAIN outbox : \A n \in DOMAIN outbox :
                outbox[n].topic = "transfer.events" /\ outbox[n].ref = i <=> n = j
      BY <3>1 DEF PostedInv, PostedAsRequested
    <3> QED  BY <1>3, <1>6, <2>2, <3>2
  <2> QED  BY <2>1, <2>2
<1> QED
  BY <1>7, <1>8, <1>9 DEF PostedInv, PostedAsRequested

\* Every other step of a handler leaves the three tables alone.
LEMMA PostingsUntouched ==
    ASSUME NEW h \in Handlers, TransferStep(h)
    PROVE  \/ UNCHANGED << ledger, outbox, transfers >>
           \/ pc[h] = "commit" /\ CommitRows(h)
<1> USE DEF dbVars
<1>1. CASE HandlerStep(h)
  BY <1>1 DEF HandlerStep, TryAcquireInsert, TryAcquireSelect, CheckOwner, BeginTransfer,
     Validate, WriteRows, ReturnError, Commit, Complete, Fail
<1>2. CASE LockStep(h)
  BY <1>2 DEF LockStep, LockFirst, LockSecond
<1>3. CASE Failure(h)
  BY <1>3 DEF Failure, StatementError, LostReply, Abandon, DeadlockAbort, Fail
<1>4. CASE HandleTransfer(h)
  BY <1>4 DEF HandleTransfer
<1> QED  BY <1>1, <1>2, <1>3, <1>4 DEF TransferStep

\* Every step preserves PostedInv.
LEMMA PostedStep ==
    ASSUME CanonicalSources
    PROVE  TypeInv /\ PostedInv /\ [Next]_vars => PostedInv'
<1> SUFFICES ASSUME TypeInv, PostedInv, [Next]_vars PROVE PostedInv'
  OBVIOUS
<1>1. CASE UNCHANGED << ledger, outbox, transfers >>
  BY <1>1 DEF PostedInv, RefsKnown, PostedAsRequested
<1>2. ASSUME NEW h \in Handlers, TransferStep(h) PROVE PostedInv'
  BY <1>1, <1>2, PostingsUntouched, PostedCommit
<1>3. ASSUME NEW w \in Wallets, WalletStep(w), UNCHANGED transferVars PROVE PostedInv'
  BY <1>1, <1>3 DEF WalletStep, CreateWallet, UpdateWalletStatus, transferVars
<1>4. CASE UNCHANGED vars
  BY <1>1, <1>4 DEF vars, dbVars, transferVars
<1> QED
  BY <1>2, <1>3, <1>4 DEF Next

\* No row refers to another in the first state.
LEMMA PostedInit == Init => PostedInv
BY DEF Init, DbInit, TransferInit, PostedInv, RefsKnown, PostedAsRequested

\* With canonical sources, every transfer has its one ledger transaction, between
\* the wallets and over the amount of the request, and its one outbox event:
\* whatever fails, and whoever is concurrent, the three tables agree.
THEOREM PostedOnceAsRequested == CanonicalSources => (Spec => []PostedAsRequested)
<1> SUFFICES ASSUME CanonicalSources PROVE Spec => []PostedAsRequested
  OBVIOUS
<1>1. Init => PostedInv
  BY PostedInit
<1>2. TypeInv /\ PostedInv /\ [Next]_vars => PostedInv'
  BY PostedStep
<1>3. PostedInv => PostedAsRequested
  BY DEF PostedInv
<1> QED
  BY <1>1, <1>2, <1>3, TypeInit, TypeStep, PTL DEF Spec

-----------------------------------------------------------------------------
\* Every transfer was asked for, as it is written down, by a caller who may
\* debit its source, with an amount and a currency that the service accepts.
EveryTransferRequested ==
    \A i \in DOMAIN transfers :
        \E s \in Submissions : Entitled(s) /\ transfers[i] = RowFor(s)

\* A handler past the ownership check serves the wallet's owner or the system.
OwnerChecked ==
    \A h \in Handlers :
        pc[h] \in PreCommit \ {"owner"} =>
            /\ ParseUUID[req[h].source] \in Wallets
            /\ \/ Owner[ParseUUID[req[h].source]] = req[h].caller
               \/ req[h].caller \in SystemUsers

\* EveryTransferRequested is inductive together with it.
RequestedInv == OwnerChecked /\ EveryTransferRequested

\* A step of h after which it has passed the check only if it had before.
LEMMA OwnerFrame ==
    ASSUME OwnerChecked, NEW h \in Handlers,
           \A g \in Handlers \ {h} : pc'[g] = pc[g] /\ req'[g] = req[g],
           pc'[h] \in PreCommit \ {"owner"} =>
                pc[h] \in PreCommit \ {"owner"} /\ req'[h] = req[h]
    PROVE  OwnerChecked'
BY DEF OwnerChecked

\* Only CheckOwner lets a handler pass.
LEMMA OwnerStep ==
    ASSUME TypeInv, OwnerChecked, NEW h \in Handlers, TransferStep(h)
    PROVE  OwnerChecked'
<1> LocalTypeOK
  BY TypeOKParts DEF TypeInv
<1> USE DEF LocalTypeOK, PreCommit
<1>1. CASE Return(h) \/ \E c, t : Conclude(h, c, t)
  BY <1>1, OwnerFrame DEF Return, Conclude
<1>2. CASE CheckOwner(h)
  <2>1. CASE Goto(h, "begin") /\ RowExists(req[h].source)
    BY <1>2, <2>1 DEF CheckOwner, Goto, Conclude, RowExists, OwnerChecked
  <2> QED  BY <1>1, <1>2, <2>1 DEF CheckOwner
<1>3. CASE HandleTransfer(h) \/ TryAcquireInsert(h)
  BY <1>3, OwnerFrame DEF HandleTransfer, TryAcquireInsert, Goto
<1>4. CASE LockFirst(h) \/ LockSecond(h) \/ Validate(h) \/ WriteRows(h)
  BY <1>4, OwnerFrame DEF LockFirst, LockSecond, Validate, WriteRows, Goto
<1>5. CASE BeginTransfer(h)
  <2>1. CASE Goto(h, "lock1") /\ req' = req
    BY <1>5, <2>1, OwnerFrame DEF BeginTransfer, Goto
  <2> QED  BY <1>1, <1>5, <2>1 DEF BeginTransfer
<1>6. CASE StatementError(h) \/ LostReply(h)
  <2>1. CASE Goto(h, "select") /\ req' = req
    BY <2>1, OwnerFrame DEF Goto
  <2> QED  BY <1>1, <1>6, <2>1 DEF StatementError, LostReply, Fail
<1>7. CASE HandlerStep(h)
  BY <1>1, <1>2, <1>3, <1>4, <1>5, <1>7
  DEF HandlerStep, TryAcquireSelect, ReturnError, Commit, Complete, Fail
<1>8. CASE Failure(h)
  BY <1>1, <1>6, <1>8 DEF Failure, Abandon, DeadlockAbort, Fail
<1> QED
  BY <1>3, <1>4, <1>7, <1>8 DEF TransferStep, LockStep

\* What a handler commits is what it was asked for.
LEMMA RequestedCommit ==
    ASSUME TypeInv, LockInv, RequestedInv, NEW h \in Handlers, pc[h] = "commit",
           CommitRows(h)
    PROVE  EveryTransferRequested'
<1> LocalTypeOK /\ TablesTypeOK /\ PathInv
  BY TypeOKParts DEF TypeInv
<1>1. req[h] \in Submissions
  BY DEF LocalTypeOK
<1>2. /\ ParseUUID[req[h].source] \in Wallets /\ ParseUUID[req[h].dest] \in Wallets
      /\ req[h].source # req[h].dest /\ req[h].amount > 0
  BY Endpoints DEF HasBoth, PathInv, InTx, WellFormed
<1>3. \/ Owner[ParseUUID[req[h].source]] = req[h].caller
      \/ req[h].caller \in SystemUsers
  BY DEF RequestedInv, OwnerChecked, PreCommit
<1>4. /\ CurrencyOf[ParseUUID[req[h].source]] = req[h].currency
      /\ CurrencyOf[ParseUUID[req[h].dest]] = req[h].currency
  <2>1. /\ CurrencyOf[SourceWallet(h)] = req[h].currency
        /\ CurrencyOf[DestWallet(h)] = req[h].currency
    BY DEF LockInv, LockInvOf, Validated
  <2>2. {SourceWallet(h), DestWallet(h)} = {ParseUUID[req[h].source], ParseUUID[req[h].dest]}
    BY DEF SourceWallet, DestWallet, FirstWallet, SecondWallet, FirstLock, SecondLock
  <2> QED  BY <2>1, <2>2
<1>5. Entitled(req[h])
  BY <1>2, <1>3, <1>4 DEF Entitled
<1>6. transfers' = Append(transfers, RowFor(req[h]))
  BY DEF CommitRows, RowFor, Key
<1>7. /\ DOMAIN transfers' = DOMAIN transfers \cup {Len(transfers) + 1}
      /\ \A i \in DOMAIN transfers : transfers'[i] = transfers[i]
      /\ transfers'[Len(transfers) + 1] = RowFor(req[h])
  BY <1>6 DEF TablesTypeOK
<1>8. ASSUME NEW i \in DOMAIN transfers'
      PROVE  \E s \in Submissions : Entitled(s) /\ transfers'[i] = RowFor(s)
  <2>1. CASE i \in DOMAIN transfers
    BY <1>7, <2>1 DEF RequestedInv, EveryTransferRequested
  <2>2. CASE i = Len(transfers) + 1
    BY <1>1, <1>5, <1>7, <2>2
  <2> QED  BY <1>7, <2>1, <2>2
<1> QED
  BY <1>8 DEF EveryTransferRequested, Entitled, RowFor

\* Every step preserves RequestedInv.
LEMMA RequestedStep == TypeInv /\ LockInv /\ RequestedInv /\ [Next]_vars => RequestedInv'
<1> SUFFICES ASSUME TypeInv, LockInv, RequestedInv, [Next]_vars PROVE RequestedInv'
  OBVIOUS
<1>1. ASSUME NEW h \in Handlers, TransferStep(h) PROVE RequestedInv'
  <2>1. OwnerChecked'
    BY <1>1, OwnerStep DEF RequestedInv
  <2>2. CASE transfers' = transfers
    BY <2>1, <2>2 DEF RequestedInv, EveryTransferRequested
  <2> QED  BY <1>1, <2>1, <2>2, PostingsUntouched, RequestedCommit DEF RequestedInv
<1>2. CASE UNCHANGED transferVars
  BY <1>2 DEF transferVars, RequestedInv, OwnerChecked, EveryTransferRequested
<1> QED
  BY <1>1, <1>2 DEF Next, vars

\* Nothing is requested yet in the first state.
LEMMA RequestedInit == Init => RequestedInv
BY DEF Init, TransferInit, RequestedInv, OwnerChecked, EveryTransferRequested, PreCommit

\* What the ledger says of transfers, the rows of transfers say, and the requests
\* behind them.
LEMMA MovedFromPosted ==
    PostedInv /\ RequestedInv /\ AtMostOncePerKey => MovedAsAsked
<1> SUFFICES ASSUME PostedInv, RequestedInv, AtMostOncePerKey,
                    NEW n \in DOMAIN ledger, ledger[n].type = "TRANSFER"
             PROVE  /\ \E s \in Submissions :
                          /\ Entitled(s) /\ transfers[ledger[n].ref] = RowFor(s)
                          /\ ledger[n].debit = ParseUUID[s.source]
                          /\ ledger[n].credit = ParseUUID[s.dest]
                          /\ ledger[n].amount = s.amount
                          /\ ledger[n].currency = s.currency
                    /\ \A m \in DOMAIN ledger \ {n} : ledger[m].type = "TRANSFER" =>
                          transfers[ledger[m].ref].key # transfers[ledger[n].ref].key
  BY DEF MovedAsAsked
<1>1. PICK i \in DOMAIN transfers : i = ledger[n].ref
  BY DEF PostedInv, RefsKnown
<1>2. PICK j \in DOMAIN ledger :
         /\ \A k \in DOMAIN ledger : ledger[k].type = "TRANSFER" /\ ledger[k].ref = i <=> k = j
         /\ ledger[j].debit = transfers[i].source
         /\ ledger[j].credit = transfers[i].dest
         /\ ledger[j].amount = transfers[i].amount
         /\ ledger[j].currency = transfers[i].currency
  BY DEF PostedInv, PostedAsRequested
<1>3. n = j
  BY <1>1, <1>2
<1>4. PICK s \in Submissions : Entitled(s) /\ transfers[i] = RowFor(s)
  BY DEF RequestedInv, EveryTransferRequested
<1>5. /\ transfers[i].source = ParseUUID[s.source] /\ transfers[i].dest = ParseUUID[s.dest]
      /\ transfers[i].amount = s.amount /\ transfers[i].currency = s.currency
  BY <1>4 DEF RowFor
<1>6. ASSUME NEW m \in DOMAIN ledger \ {n}, ledger[m].type = "TRANSFER"
      PROVE  transfers[ledger[m].ref].key # transfers[i].key
  <2>1. ledger[m].ref \in DOMAIN transfers
    BY <1>6 DEF PostedInv, RefsKnown
  <2>2. ledger[m].ref # i
    BY <1>2, <1>3, <1>6
  <2> QED  BY <2>1, <2>2 DEF AtMostOncePerKey
<1> QED  BY <1>1, <1>2, <1>3, <1>4, <1>5, <1>6

\* With canonical sources no money moves that its owner, or the system, did not
\* ask to move, nor twice for one key: neither an interleaving nor a failure
\* makes ExecuteTransfer debit or credit by anything but the request whose
\* ownership, amount and currency were checked.
THEOREM MoneyMovesAsAsked == CanonicalSources => (Spec => []MovedAsAsked)
<1> SUFFICES ASSUME CanonicalSources PROVE Spec => []MovedAsAsked
  OBVIOUS
<1>1. Init => PostedInv
  BY PostedInit
<1>2. TypeInv /\ PostedInv /\ [Next]_vars => PostedInv'
  BY PostedStep
<1>3. KeyInv => AtMostOncePerKey
  BY DEF KeyInv
<1> QED
  BY <1>1, <1>2, <1>3, MovedFromPosted, TypeInit, TypeStep, LockInit, LockStepInv,
     RequestedInit, RequestedStep, KeyInit, KeyStep, PTL DEF Spec

\* Clients do not use the key of a request that may succeed for another transfer.
KeysNameTransfers ==
    \A s, t \in Submissions : s.key = t.key /\ Entitled(s) => RowFor(t) = RowFor(s)

\* If clients do not reuse keys, a client that is told 201 had the transfer made
\* that it asked for, whoever else sent requests and whichever of its own
\* repetitions was the one to run.
THEOREM AnswersAreForTheAsker == KeysNameTransfers => (Spec => []AnswersAreOwn)
<1> SUFFICES ASSUME KeysNameTransfers PROVE Spec => []AnswersAreOwn
  OBVIOUS
<1>1. TypeInv /\ AnswerInv /\ RequestedInv => AnswersAreOwn
  <2> SUFFICES ASSUME TypeInv, AnswerInv, RequestedInv, NEW a \in answers, a.resp.code = 201
               PROVE  LET t == transfers[a.resp.transfer]
                      IN  << t.source, t.dest, t.amount, t.currency >>
                            = << ParseUUID[a.request.source], ParseUUID[a.request.dest],
                                 a.request.amount, a.request.currency >>
    BY DEF AnswersAreOwn
  <2> TablesTypeOK
    BY TypeOKParts DEF TypeInv
  <2> DEFINE i == a.resp.transfer
  <2>1. i \in DOMAIN transfers /\ transfers[i].key = a.request.key
    BY DEF AnswerInv, SentHonest, Honest, Made
  <2>2. PICK s \in Submissions : Entitled(s) /\ transfers[i] = RowFor(s)
    BY <2>1 DEF RequestedInv, EveryTransferRequested
  <2>3. s.key = a.request.key /\ a.request \in Submissions
    BY <2>1, <2>2, AnswerKeyType DEF RowFor
  <2>4. transfers[i] = RowFor(a.request)
    BY <2>2, <2>3 DEF KeysNameTransfers
  <2> QED  BY <2>4 DEF RowFor
<1> QED
  BY <1>1, TypeInit, TypeStep, KeyInit, KeyStep, LockInit, LockStepInv, AnswerInit, AnswerStep,
     RequestedInit, RequestedStep, PTL DEF Spec
=============================================================================

---------------------------- MODULE OutboxProofs ----------------------------
(***************************************************************************)
(* Theorems about Outbox, for any number of rows and workers, any limits   *)
(* and all failures.  OutboxInv adds to the types that a worker on its way *)
(* to an UPDATE has a row in hand and, if it will mark it as published,    *)
(* that the row's record is in the topic.  RetryInv weighs the attempts    *)
(* of a row against the workers that may still add to them.                *)
(***************************************************************************)
EXTENDS Outbox, SequenceTheorems, FiniteSetTheorems, TLAPS

\* Where a worker has a row in hand.
Busy == {"publish", "markPublished", "markFailed"}

\* A busy worker has a row; the one it will mark as published was delivered.
InHand ==
    \A w \in Workers :
        /\ wpc[w] \in Busy => batch[w] # << >>
        /\ wpc[w] = "markPublished" => copies[Head(batch[w])] > 0

\* PublishedWasDelivered is inductive together with it.
OutboxInv == OutboxTypeOK /\ InHand /\ PublishedWasDelivered

\* The first state satisfies the invariant.
LEMMA OutboxInvInit == OutboxInit => OutboxInv
BY OutboxAssumption
DEF OutboxInit, OutboxInv, OutboxTypeOK, InHand, PublishedWasDelivered,
    RowStatus, WorkerPCs, Busy

\* The row in hand is a row.
LEMMA RowInHand ==
    ASSUME OutboxTypeOK, InHand, NEW w \in Workers, wpc[w] \in Busy
    PROVE  /\ batch[w] \in Seq(Rows) /\ batch[w] # << >>
           /\ Head(batch[w]) \in Rows /\ Tail(batch[w]) \in Seq(Rows)
<1>1. batch[w] \in Seq(Rows) /\ batch[w] # << >>
  BY DEF OutboxTypeOK, InHand
<1> QED  BY <1>1

\* Batches are not empty.
LEMMA BatchType ==
    ASSUME NEW b \in Batches
    PROVE  b \in Seq(Rows) /\ b # << >>
<1>1. PICK n \in 1 .. BatchLimit : b \in [1 .. n -> Rows]
  BY DEF Batches
<1>2. n \in Nat \ {0}
  BY OutboxAssumption
<1>3. b \in Seq(Rows) /\ Len(b) = n
  BY <1>1, <1>2
<1> QED  BY <1>2, <1>3

\* Something is left of a sequence of more than one element.
LEMMA LongTail ==
    ASSUME NEW S, NEW s \in Seq(S), Len(s) > 1
    PROVE  Tail(s) # << >>
<1>1. Tail(s) \in Seq(S) /\ Len(Tail(s)) = Len(s) - 1
  OBVIOUS
<1>2. Len(Tail(s)) # 0
  BY <1>1
<1>3. Len(<< >>) = 0
  BY EmptySeq
<1> QED  BY <1>2, <1>3, Zenon

\* A worker that is done with a row has the rest of its batch in hand.
LEMMA NextRowType ==
    ASSUME OutboxTypeOK, InHand, NEW w \in Workers, wpc[w] \in Busy, NextRow(w)
    PROVE  /\ batch' \in [Workers -> Seq(Rows)]
           /\ wpc' \in [Workers -> WorkerPCs]
           /\ wpc'[w] \in {"publish", "tick"}
           /\ wpc'[w] = "publish" => batch'[w] # << >>
           /\ \A v \in Workers \ {w} : wpc'[v] = wpc[v] /\ batch'[v] = batch[v]
<1>1. batch[w] \in Seq(Rows) /\ Tail(batch[w]) \in Seq(Rows)
  BY RowInHand
<1>2. Len(batch[w]) > 1 => Tail(batch[w]) # << >>
  BY <1>1, LongTail
<1> QED  BY <1>1, <1>2 DEF NextRow, OutboxTypeOK, WorkerPCs

\* Delivering a record makes its copies more than 0 and no other's fewer.
LEMMA DeliverCounts ==
    ASSUME OutboxTypeOK, InHand, NEW w \in Workers, wpc[w] \in Busy, Deliver(w)
    PROVE  /\ copies' \in [Rows -> 0 .. CopiesBound]
           /\ copies'[Head(batch[w])] > 0
           /\ \A r \in Rows : copies[r] > 0 => copies'[r] > 0
<1> DEFINE r == Head(batch[w])
<1>1. r \in Rows
  BY RowInHand
<1>2. /\ copies \in [Rows -> 0 .. CopiesBound]
      /\ copies' = [copies EXCEPT ![r] = IF @ < CopiesBound THEN @ + 1 ELSE @]
  BY DEF Deliver, OutboxTypeOK
<1>3. CopiesBound \in Nat \ {0}
  BY OutboxAssumption
<1> HIDE DEF r
<1>4. /\ copies' \in [Rows -> 0 .. CopiesBound]
      /\ copies'[r] > 0
      /\ \A q \in Rows : copies[q] > 0 => copies'[q] > 0
  BY <1>1, <1>2, <1>3
<1> QED  BY <1>4 DEF r

\* The steps that leave the table alone.
LEMMA WorkerOnly ==
    ASSUME OutboxInv, NEW w \in Workers, UNCHANGED << rowStatus, attempts, due, copies >>,
           OutboxTypeOK',
           \A v \in Workers \ {w} : wpc'[v] = wpc[v] /\ batch'[v] = batch[v],
           wpc'[w] \in Busy => batch'[w] # << >>,
           wpc'[w] # "markPublished"
    PROVE  OutboxInv'
BY DEF OutboxInv, InHand, PublishedWasDelivered

\* The steps of Publish.
LEMMA PublishStep ==
    ASSUME OutboxInv, NEW w \in Workers,
           Publish(w) \/ PublishError(w) \/ PublishAmbiguous(w)
    PROVE  OutboxInv'
<1> USE DEF OutboxInv
<1>1. wpc[w] = "publish" /\ wpc[w] \in Busy
  BY DEF Publish, PublishError, PublishAmbiguous, Busy
<1>2. CASE PublishError(w)
  <2>1. OutboxTypeOK'
    BY <1>2 DEF PublishError, OutboxTypeOK, WorkerPCs
  <2> QED  BY <1>1, <1>2, <2>1, WorkerOnly DEF PublishError, InHand, OutboxTypeOK
<1>3. CASE Publish(w) \/ PublishAmbiguous(w)
  <2>1. /\ Deliver(w) /\ UNCHANGED << rowStatus, attempts, due, batch >>
        /\ \E l \in {"markPublished", "markFailed"} : wpc' = [wpc EXCEPT ![w] = l]
    BY <1>3 DEF Publish, PublishAmbiguous
  <2>2. /\ copies' \in [Rows -> 0 .. CopiesBound]
        /\ copies'[Head(batch[w])] > 0
        /\ \A r \in Rows : copies[r] > 0 => copies'[r] > 0
    BY <1>1, <2>1, DeliverCounts
  <2>3. OutboxTypeOK'
    BY <2>1, <2>2 DEF OutboxTypeOK, WorkerPCs
  <2>4. InHand'
    <3> SUFFICES ASSUME NEW v \in Workers
                 PROVE  /\ wpc'[v] \in Busy => batch'[v] # << >>
                        /\ wpc'[v] = "markPublished" => copies'[Head(batch'[v])] > 0
      BY DEF InHand
    <3>1. CASE v = w
      BY <1>1, <2>1, <2>2, <3>1 DEF InHand
    <3>2. CASE v # w
      <4>1. wpc'[v] = wpc[v] /\ batch'[v] = batch[v]
        BY <2>1, <3>2 DEF OutboxTypeOK
      <4>2. wpc[v] = "markPublished" => Head(batch[v]) \in Rows
        BY RowInHand DEF Busy
      <4> QED  BY <2>2, <4>1, <4>2 DEF InHand
    <3> QED  BY <3>1, <3>2
  <2> QED  BY <2>1, <2>2, <2>3, <2>4 DEF PublishedWasDelivered
<1> QED  BY <1>2, <1>3

\* The UPDATEs, whether they take effect or not.
LEMMA MarkStep ==
    ASSUME OutboxInv, NEW w \in Workers, MarkPublished(w) \/ MarkFailed(w) \/ MarkError(w)
    PROVE  OutboxInv'
<1> USE DEF OutboxInv
<1> DEFINE r == Head(batch[w])
<1>1. wpc[w] \in Busy /\ NextRow(w) /\ UNCHANGED copies
  BY DEF MarkPublished, MarkFailed, MarkError, Busy
<1>2. r \in Rows
  BY <1>1, RowInHand
<1>3. /\ batch' \in [Workers -> Seq(Rows)]
      /\ wpc' \in [Workers -> WorkerPCs]
      /\ wpc'[w] \in {"publish", "tick"}
      /\ wpc'[w] = "publish" => batch'[w] # << >>
      /\ \A v \in Workers \ {w} : wpc'[v] = wpc[v] /\ batch'[v] = batch[v]
  BY <1>1, NextRowType
<1>4. InHand'
  BY <1>1, <1>3 DEF InHand, Busy
<1>5. CASE MarkPublished(w)
  <2>1. copies[r] > 0
    BY <1>5 DEF MarkPublished, InHand
  <2>2. OutboxTypeOK'
    BY <1>1, <1>2, <1>3, <1>5 DEF MarkPublished, OutboxTypeOK, RowStatus
  <2>3. PublishedWasDelivered'
    BY <1>1, <1>2, <1>5, <2>1 DEF MarkPublished, OutboxTypeOK, PublishedWasDelivered
  <2> QED  BY <1>4, <2>2, <2>3
<1>6. CASE MarkFailed(w)
  <2>1. /\ rowStatus' = [rowStatus EXCEPT ![r] = FailedStatus(attempts[r])]
        /\ attempts' = [attempts EXCEPT ![r] = @ + 1]
        /\ due' = [due EXCEPT ![r] = FALSE]
    BY <1>6 DEF MarkFailed
  <2>2. FailedStatus(attempts[r]) \in {"FAILED", "PENDING"}
    BY DEF FailedStatus
  <2>3. OutboxTypeOK'
    <3>1. rowStatus' \in [Rows -> RowStatus]
      BY <1>2, <2>1, <2>2 DEF OutboxTypeOK, RowStatus
    <3>2. attempts' \in [Rows -> Nat] /\ due' \in [Rows -> BOOLEAN]
      BY <1>2, <2>1 DEF OutboxTypeOK
    <3>3. copies' \in [Rows -> 0 .. CopiesBound]
      BY <1>1 DEF OutboxTypeOK
    <3> QED  BY <1>3, <3>1, <3>2, <3>3 DEF OutboxTypeOK
  <2>4. PublishedWasDelivered'
    BY <1>1, <1>2, <2>1, <2>2 DEF OutboxTypeOK, PublishedWasDelivered
  <2> QED  BY <1>4, <2>3, <2>4
<1>7. CASE MarkError(w)
  BY <1>1, <1>3, <1>4, <1>7 DEF MarkError, OutboxTypeOK, PublishedWasDelivered
<1> QED  BY <1>5, <1>6, <1>7

\* The steps of a process that do not deal with a row.
LEMMA ProcessStep ==
    ASSUME OutboxInv, NEW w \in Workers,
           \/ StartWorker(w) \/ StartWithoutKafka(w) \/ FetchPendingEvents(w) \/ Crash(w)
    PROVE  OutboxInv'
<1> USE DEF OutboxInv
<1>1. CASE StartWorker(w) \/ StartWithoutKafka(w)
  <2>1. OutboxTypeOK'
    BY <1>1 DEF StartWorker, StartWithoutKafka, OutboxTypeOK, WorkerPCs
  <2> QED
    BY <1>1, <2>1, WorkerOnly DEF StartWorker, StartWithoutKafka, OutboxTypeOK, Busy
<1>2. CASE FetchPendingEvents(w)
  <2>1. PICK b \in Batches : batch' = [batch EXCEPT ![w] = b]
    BY <1>2 DEF FetchPendingEvents
  <2>2. b \in Seq(Rows) /\ b # << >>
    BY BatchType
  <2>3. OutboxTypeOK'
    BY <1>2, <2>1, <2>2 DEF FetchPendingEvents, OutboxTypeOK, WorkerPCs
  <2> QED
    BY <1>2, <2>1, <2>2, <2>3, WorkerOnly DEF FetchPendingEvents, OutboxTypeOK
<1>3. CASE Crash(w)
  <2>1. OutboxTypeOK'
    BY <1>3 DEF Crash, OutboxTypeOK, WorkerPCs
  <2> QED  BY <1>3, <2>1, WorkerOnly DEF Crash, OutboxTypeOK, Busy
<1> QED  BY <1>1, <1>2, <1>3

\* Every step preserves the invariant.
LEMMA OutboxInvStep == OutboxInv /\ [OutboxNext]_outboxVars => OutboxInv'
<1> SUFFICES ASSUME OutboxInv, [OutboxNext]_outboxVars PROVE OutboxInv'
  OBVIOUS
<1>1. CASE UNCHANGED outboxVars
  BY <1>1 DEF outboxVars, OutboxInv, OutboxTypeOK, InHand, PublishedWasDelivered
<1>2. ASSUME NEW r \in Rows, InsertRow(r) \/ RetryTime(r) PROVE OutboxInv'
  BY <1>2 DEF InsertRow, RetryTime, OutboxInv, OutboxTypeOK, InHand, RowStatus,
              PublishedWasDelivered
<1>3. ASSUME NEW w \in Workers, WorkerStep(w) \/ WorkerFailure(w) PROVE OutboxInv'
  BY <1>3, PublishStep, MarkStep, ProcessStep DEF WorkerStep, WorkerFailure
<1> QED
  BY <1>1, <1>2, <1>3, ProcessStep DEF OutboxNext

\* The outbox never claims a delivery that did not happen: whatever fails, and
\* however many workers race for a row, MarkPublished comes only after Publish
\* has returned without an error.
THEOREM PublishedIsDelivered == OutboxSpec => []PublishedWasDelivered
<1>1. OutboxInv => PublishedWasDelivered
  BY DEF OutboxInv
<1> QED
  BY OutboxInvInit, OutboxInvStep, <1>1, PTL DEF OutboxSpec

\* The types are kept: in particular no UPDATE is for a row that no batch holds.
THEOREM OutboxTypeCorrect == OutboxSpec => []OutboxTypeOK
<1>1. OutboxInv => OutboxTypeOK
  BY DEF OutboxInv
<1> QED
  BY OutboxInvInit, OutboxInvStep, <1>1, PTL DEF OutboxSpec

-----------------------------------------------------------------------------
\* Row r is in no worker's hands.
Free(r) == \A w \in Workers : r \notin ToSet(batch[w])

\* The rows of a batch that has lost its head were in it before.
LEMMA TailRows ==
    ASSUME NEW b \in Seq(Rows), b # << >>
    PROVE  Head(b) \in ToSet(b) /\ ToSet(Tail(b)) \subseteq ToSet(b)
<1>1. Len(b) \in Nat /\ Len(b) # 0 /\ DOMAIN b = 1 .. Len(b)
  BY EmptySeq
<1>2. Head(b) = b[1] /\ 1 \in DOMAIN b
  BY <1>1
<1>3. /\ DOMAIN Tail(b) = 1 .. Len(b) - 1
      /\ \A i \in DOMAIN Tail(b) : i + 1 \in DOMAIN b /\ Tail(b)[i] = b[i + 1]
  BY <1>1
<1> QED  BY <1>2, <1>3 DEF ToSet

\* The settled row r, in no worker's hands, is left alone by every step: the
\* SELECT passes it by, and the UPDATEs are for rows of a batch.
LEMMA SettledStep ==
    ASSUME OutboxInv, [OutboxNext]_outboxVars, NEW r \in Rows, Settled(r), Free(r)
    PROVE  Settled(r)' /\ Free(r)'
<1> USE DEF OutboxInv
<1>1. CASE UNCHANGED outboxVars
  BY <1>1 DEF outboxVars, Settled, Free
<1>2. ASSUME NEW q \in Rows, InsertRow(q) \/ RetryTime(q) PROVE Settled(r)' /\ Free(r)'
  <2>1. q # r /\ UNCHANGED batch /\ rowStatus'[r] = rowStatus[r]
    BY <1>2 DEF InsertRow, RetryTime, Settled, OutboxTypeOK
  <2> QED  BY <2>1 DEF Settled, Free
<1>3. ASSUME NEW w \in Workers,
             \/ StartWorker(w) \/ StartWithoutKafka(w) \/ Publish(w)
             \/ PublishError(w) \/ PublishAmbiguous(w)
      PROVE  Settled(r)' /\ Free(r)'
  <2>1. UNCHANGED << rowStatus, batch >>
    BY <1>3 DEF StartWorker, StartWithoutKafka, Publish, PublishError, PublishAmbiguous
  <2> QED  BY <2>1 DEF Settled, Free
<1>4. ASSUME NEW w \in Workers, FetchPendingEvents(w) PROVE Settled(r)' /\ Free(r)'
  <2>1. PICK b \in Batches : IsOldest(b) /\ batch' = [batch EXCEPT ![w] = b]
    BY <1>4 DEF FetchPendingEvents
  <2>2. r \notin ToSet(b)
    BY <2>1 DEF IsOldest, Fetchable, Settled
  <2>3. \A v \in Workers : batch'[v] = b \/ batch'[v] = batch[v]
    BY <2>1 DEF OutboxTypeOK
  <2>4. rowStatus' = rowStatus
    BY <1>4 DEF FetchPendingEvents
  <2> QED  BY <2>2, <2>3, <2>4 DEF Settled, Free
<1>5. ASSUME NEW w \in Workers, Crash(w) PROVE Settled(r)' /\ Free(r)'
  <2>1. ToSet(<< >>) = {}
    BY EmptySeq DEF ToSet
  <2>2. \A v \in Workers : batch'[v] = << >> \/ batch'[v] = batch[v]
    BY <1>5 DEF Crash, OutboxTypeOK
  <2>3. rowStatus' = rowStatus
    BY <1>5 DEF Crash
  <2> QED  BY <2>1, <2>2, <2>3 DEF Settled, Free
<1>6. ASSUME NEW w \in Workers, MarkPublished(w) \/ MarkFailed(w) \/ MarkError(w)
      PROVE  Settled(r)' /\ Free(r)'
  <2>1. wpc[w] \in Busy /\ NextRow(w)
    BY <1>6 DEF MarkPublished, MarkFailed, MarkError, Busy
  <2>2. /\ batch[w] \in Seq(Rows) /\ batch[w] # << >>
        /\ Head(batch[w]) \in ToSet(batch[w])
        /\ ToSet(Tail(batch[w])) \subseteq ToSet(batch[w])
    BY <2>1, RowInHand, TailRows
  <2>3. Head(batch[w]) # r
    BY <2>2 DEF Free
  <2>4. rowStatus'[r] = rowStatus[r]
    BY <1>6, <2>3 DEF MarkPublished, MarkFailed, MarkError, OutboxTypeOK
  <2>5. \A v \in Workers : batch'[v] = batch[v] \/ (v = w /\ batch'[v] = Tail(batch[w]))
    BY <2>1 DEF NextRow, OutboxTypeOK
  <2> QED  BY <2>2, <2>4, <2>5 DEF Settled, Free
<1> QED
  BY <1>1, <1>2, <1>3, <1>4, <1>5, <1>6 DEF OutboxNext, WorkerStep, WorkerFailure

\* A settled event that no worker holds is settled for good, however many
\* workers there are and whatever fails: only an UPDATE that was decided while
\* the row was still in a batch can bring it back.
THEOREM SettledForGood == OutboxSpec => SettledStays
<1> SUFFICES ASSUME NEW r \in Rows
             PROVE  OutboxSpec => [](Settled(r) /\ Free(r) => []Settled(r))
  BY DEF SettledStays, Free
<1>1. OutboxInv /\ [OutboxNext]_outboxVars /\ Settled(r) /\ Free(r) => (Settled(r) /\ Free(r))'
  BY SettledStep
<1> QED
  BY OutboxInvInit, OutboxInvStep, <1>1, PTL DEF OutboxSpec

-----------------------------------------------------------------------------
(* Retries. *)

Holders(r) == {w \in Workers : r \in ToSet(batch[w])}

\* No row is twice in a batch.  A row with more attempts than MaxAttempts is
\* open no more, and each worker that still holds it can count once.
RetryInv ==
    /\ \A w \in Workers : \A i, j \in DOMAIN batch[w] : i < j => batch[w][i] < batch[w][j]
    /\ \A r \in Rows :
          attempts[r] > MaxAttempts =>
              /\ rowStatus[r] \in {"PUBLISHED", "FAILED"}
              /\ attempts[r] + Cardinality(Holders(r)) <= MaxAttempts + Cardinality(Workers)

\* Some of the workers hold a row.
LEMMA HoldersFinite ==
    ASSUME NEW r
    PROVE  /\ IsFiniteSet(Holders(r)) /\ Cardinality(Holders(r)) \in Nat
           /\ Cardinality(Holders(r)) <= Cardinality(Workers) /\ Cardinality(Workers) \in Nat
<1>1. IsFiniteSet(Workers) /\ Holders(r) \in SUBSET Workers
  BY OutboxAssumption DEF Holders
<1>2. IsFiniteSet(Holders(r)) /\ Cardinality(Holders(r)) <= Cardinality(Workers)
  BY <1>1, FS_Subset
<1> QED  BY <1>1, <1>2, FS_CardinalityType

\* What is left of a sorted batch is sorted, and does not have the row again that
\* was its head.
LEMMA SortedTail ==
    ASSUME NEW b \in Seq(Rows), b # << >>, \A i, j \in DOMAIN b : i < j => b[i] < b[j]
    PROVE  /\ \A i, j \in DOMAIN Tail(b) : i < j => Tail(b)[i] < Tail(b)[j]
           /\ Head(b) \notin ToSet(Tail(b))
<1>1. Len(b) \in Nat /\ Len(b) # 0 /\ DOMAIN b = 1 .. Len(b)
  BY EmptySeq
<1>2. Head(b) = b[1] /\ 1 \in DOMAIN b
  BY <1>1
<1>3. /\ DOMAIN Tail(b) = 1 .. Len(b) - 1
      /\ \A i \in DOMAIN Tail(b) :
            i \in Nat /\ 1 < i + 1 /\ i + 1 \in DOMAIN b /\ Tail(b)[i] = b[i + 1]
  BY <1>1
<1>4. ASSUME NEW i \in DOMAIN Tail(b), NEW j \in DOMAIN Tail(b), i < j
      PROVE  Tail(b)[i] < Tail(b)[j]
  BY <1>3, <1>4
<1>5. ASSUME NEW i \in DOMAIN Tail(b) PROVE b[1] # Tail(b)[i]
  <2>1. b[1] < Tail(b)[i]
    BY <1>2, <1>3
  <2>2. b[1] \in Nat /\ Tail(b)[i] \in Nat
    <3>1. \A n \in DOMAIN b : b[n] \in Rows
      BY <1>1
    <3>2. \A n \in DOMAIN b : b[n] \in Nat
      BY <3>1, OutboxAssumption
    <3> QED  BY <1>2, <1>3, <3>2
  <2> QED  BY <2>1, <2>2
<1> QED  BY <1>2, <1>4, <1>5 DEF ToSet

\* Batches change in three ways: one is fetched, or lost, or loses its first row.
LEMMA BatchKinds ==
    ASSUME OutboxInv, [OutboxNext]_outboxVars
    PROVE  \/ UNCHANGED batch
           \/ \E w \in Workers, b \in Batches : IsOldest(b) /\ batch' = [batch EXCEPT ![w] = b]
           \/ \E w \in Workers : batch' = [batch EXCEPT ![w] = << >>]
           \/ \E w \in Workers : wpc[w] \in Busy /\ batch' = [batch EXCEPT ![w] = Tail(batch[w])]
BY DEF OutboxNext, outboxVars, InsertRow, RetryTime, StartWorker, StartWithoutKafka, WorkerStep,
       WorkerFailure, FetchPendingEvents, Publish, PublishError, PublishAmbiguous, MarkPublished,
       MarkFailed, MarkError, Crash, NextRow, Busy

\* Batches stay sorted.
LEMMA BatchesSorted ==
    ASSUME OutboxInv, RetryInv, [OutboxNext]_outboxVars, NEW v \in Workers
    PROVE  \A i, j \in DOMAIN batch'[v] : i < j => batch'[v][i] < batch'[v][j]
<1> USE DEF OutboxInv
<1>0. \A i, j \in DOMAIN batch[v] : i < j => batch[v][i] < batch[v][j]
  BY DEF RetryInv
<1>1. CASE UNCHANGED batch
  BY <1>0, <1>1
<1>2. ASSUME NEW w \in Workers, NEW b \in Batches, IsOldest(b), batch' = [batch EXCEPT ![w] = b]
      PROVE  \A i, j \in DOMAIN batch'[v] : i < j => batch'[v][i] < batch'[v][j]
  <2>1. batch'[v] = b \/ batch'[v] = batch[v]
    BY <1>2 DEF OutboxTypeOK
  <2>2. \A i, j \in DOMAIN b : i < j => b[i] < b[j]
    BY <1>2 DEF IsOldest
  <2> QED  BY <1>0, <2>1, <2>2
<1>3. ASSUME NEW w \in Workers, batch' = [batch EXCEPT ![w] = << >>]
      PROVE  \A i, j \in DOMAIN batch'[v] : i < j => batch'[v][i] < batch'[v][j]
  <2>1. batch'[v] = << >> \/ batch'[v] = batch[v]
    BY <1>3 DEF OutboxTypeOK
  <2>2. DOMAIN << >> = {}
    BY EmptySeq
  <2> QED  BY <1>0, <2>1, <2>2
<1>4. ASSUME NEW w \in Workers, wpc[w] \in Busy, batch' = [batch EXCEPT ![w] = Tail(batch[w])]
      PROVE  \A i, j \in DOMAIN batch'[v] : i < j => batch'[v][i] < batch'[v][j]
  <2>1. CASE v = w
    <3>1. batch[v] \in Seq(Rows) /\ batch[v] # << >>
      BY <1>4, <2>1, RowInHand
    <3>2. batch'[v] = Tail(batch[v])
      BY <1>4, <2>1 DEF OutboxTypeOK
    <3> QED  BY <1>0, <3>1, <3>2, SortedTail
  <2>2. CASE v # w
    BY <1>0, <1>4, <2>2 DEF OutboxTypeOK
  <2> QED  BY <2>1, <2>2
<1> QED  BY <1>1, <1>2, <1>3, <1>4, BatchKinds

\* Only the SELECT gives a worker another row, and it selects open ones.
LEMMA HoldersShrink ==
    ASSUME OutboxInv, [OutboxNext]_outboxVars, NEW r \in Rows, rowStatus[r] # "PENDING"
    PROVE  Holders(r)' \subseteq Holders(r)
<1> USE DEF OutboxInv
<1> SUFFICES ASSUME NEW v \in Workers, r \in ToSet(batch'[v]) PROVE r \in ToSet(batch[v])
  BY DEF Holders
<1>1. CASE UNCHANGED batch
  BY <1>1
<1>2. ASSUME NEW w \in Workers, NEW b \in Batches, IsOldest(b), batch' = [batch EXCEPT ![w] = b]
      PROVE  r \in ToSet(batch[v])
  <2>1. batch'[v] = b \/ batch'[v] = batch[v]
    BY <1>2 DEF OutboxTypeOK
  <2>2. r \notin ToSet(b)
    BY <1>2 DEF IsOldest, Fetchable
  <2> QED  BY <2>1, <2>2
<1>3. ASSUME NEW w \in Workers, batch' = [batch EXCEPT ![w] = << >>]
      PROVE  r \in ToSet(batch[v])
  <2>1. batch'[v] = << >> \/ batch'[v] = batch[v]
    BY <1>3 DEF OutboxTypeOK
  <2>2. ToSet(<< >>) = {}
    BY EmptySeq DEF ToSet
  <2> QED  BY <2>1, <2>2
<1>4. ASSUME NEW w \in Workers, wpc[w] \in Busy, batch' = [batch EXCEPT ![w] = Tail(batch[w])]
      PROVE  r \in ToSet(batch[v])
  <2>1. batch'[v] = batch[v] \/ (v = w /\ batch'[v] = Tail(batch[v]))
    BY <1>4 DEF OutboxTypeOK
  <2>2. batch[w] \in Seq(Rows) /\ batch[w] # << >>
    BY <1>4, RowInHand
  <2>3. ToSet(Tail(batch[w])) \subseteq ToSet(batch[w])
    BY <2>2, TailRows
  <2> QED  BY <2>1, <2>3
<1> QED  BY <1>1, <1>2, <1>3, <1>4, BatchKinds

\* The worker that counts a failure does not hold the row any more.
LEMMA FailureCounted ==
    ASSUME OutboxInv, RetryInv, NEW w \in Workers, MarkFailed(w),
           NEW r \in Rows, Head(batch[w]) = r
    PROVE  w \in Holders(r) /\ w \notin Holders(r)'
<1> USE DEF OutboxInv
<1>1. wpc[w] \in Busy /\ batch' = [batch EXCEPT ![w] = Tail(batch[w])]
  BY DEF MarkFailed, NextRow, Busy
<1>2. batch[w] \in Seq(Rows) /\ batch[w] # << >>
  BY <1>1, RowInHand
<1>3. \A i, j \in DOMAIN batch[w] : i < j => batch[w][i] < batch[w][j]
  BY DEF RetryInv
<1>4. r \in ToSet(batch[w]) /\ r \notin ToSet(Tail(batch[w]))
  BY <1>2, <1>3, TailRows, SortedTail
<1>5. batch'[w] = Tail(batch[w])
  BY <1>1 DEF OutboxTypeOK
<1> QED  BY <1>4, <1>5 DEF Holders

\* Every step preserves the balance of attempts and holders.
LEMMA RetryStep == OutboxInv /\ RetryInv /\ [OutboxNext]_outboxVars => RetryInv'
<1> SUFFICES ASSUME OutboxInv, RetryInv, [OutboxNext]_outboxVars PROVE RetryInv'
  OBVIOUS
<1> USE DEF OutboxInv
<1>0. MaxAttempts \in Nat
  BY OutboxAssumption
<1>1. ASSUME NEW r \in Rows, attempts'[r] > MaxAttempts
      PROVE  /\ rowStatus'[r] \in {"PUBLISHED", "FAILED"}
             /\ attempts'[r] + Cardinality(Holders(r)') <= MaxAttempts + Cardinality(Workers)
  <2> DEFINE H == Holders(r)
             K == Holders(r)'
  <2>1. /\ IsFiniteSet(H) /\ Cardinality(H) \in Nat /\ Cardinality(H) <= Cardinality(Workers)
        /\ Cardinality(Workers) \in Nat /\ attempts[r] \in Nat
    BY HoldersFinite DEF OutboxTypeOK
  <2>2. CASE \E w \in Workers : MarkFailed(w) /\ Head(batch[w]) = r
    <3>1. PICK w \in Workers : MarkFailed(w) /\ Head(batch[w]) = r
      BY <2>2
    <3>2. w \in H /\ w \notin K
      BY <3>1, FailureCounted
    <3>3. /\ attempts'[r] = attempts[r] + 1
          /\ rowStatus'[r] = FailedStatus(attempts[r])
      BY <3>1 DEF MarkFailed, OutboxTypeOK
    <3>4. attempts[r] >= MaxAttempts /\ rowStatus'[r] = "FAILED"
      BY <1>0, <1>1, <2>1, <3>3 DEF FailedStatus
    <3>5. K \subseteq Workers
      BY DEF Holders
    <3>6. CASE attempts[r] > MaxAttempts
      <4>1. /\ attempts[r] + Cardinality(H) <= MaxAttempts + Cardinality(Workers)
            /\ rowStatus[r] # "PENDING"
        BY <3>6 DEF RetryInv
      <4>2. K \subseteq H
        BY <4>1, HoldersShrink
      <4> HIDE DEF H, K
      <4>3. K \in SUBSET (H \ {w})
        BY <3>2, <4>2
      <4>4. IsFiniteSet(H \ {w}) /\ Cardinality(H \ {w}) = Cardinality(H) - 1
        BY <2>1, <3>2, FS_RemoveElement
      <4>5. IsFiniteSet(K) /\ Cardinality(K) <= Cardinality(H \ {w})
        BY <4>3, <4>4, FS_Subset
      <4>6. Cardinality(K) \in Nat
        BY <4>5, FS_CardinalityType
      <4>7. attempts'[r] + Cardinality(K) <= MaxAttempts + Cardinality(Workers)
        BY <1>0, <2>1, <3>3, <4>1, <4>4, <4>5, <4>6
      <4> QED  BY <3>4, <4>7 DEF K
    <3>7. CASE attempts[r] = MaxAttempts
      <4> HIDE DEF H, K
      <4>1. K \in SUBSET (Workers \ {w}) /\ IsFiniteSet(Workers)
        BY <3>2, <3>5, OutboxAssumption
      <4>2. IsFiniteSet(Workers \ {w}) /\ Cardinality(Workers \ {w}) = Cardinality(Workers) - 1
        BY <4>1, FS_RemoveElement
      <4>3. IsFiniteSet(K) /\ Cardinality(K) <= Cardinality(Workers \ {w})
        BY <4>1, <4>2, FS_Subset
      <4>4. Cardinality(K) \in Nat
        BY <4>3, FS_CardinalityType
      <4>5. attempts'[r] + Cardinality(K) <= MaxAttempts + Cardinality(Workers)
        BY <1>0, <2>1, <3>3, <3>7, <4>2, <4>3, <4>4
      <4> QED  BY <3>4, <4>5 DEF K
    <3> QED  BY <1>0, <2>1, <3>4, <3>6, <3>7
  <2>3. CASE ~ \E w \in Workers : MarkFailed(w) /\ Head(batch[w]) = r
    <3>1. /\ attempts'[r] = attempts[r]
          /\ rowStatus[r] \in {"PUBLISHED", "FAILED"} => rowStatus'[r] \in {"PUBLISHED", "FAILED"}
      <4>1. ASSUME NEW w \in Workers, MarkFailed(w) PROVE Head(batch[w]) # r
        BY <2>3, <4>1
      <4>2. ASSUME NEW w \in Workers, MarkFailed(w)
            PROVE  attempts'[r] = attempts[r] /\ rowStatus'[r] = rowStatus[r]
        BY <4>1, <4>2 DEF MarkFailed, OutboxTypeOK
      <4>3. ASSUME NEW w \in Workers, MarkPublished(w)
            PROVE  attempts'[r] = attempts[r] /\ rowStatus'[r] \in {rowStatus[r], "PUBLISHED"}
        BY <4>3 DEF MarkPublished, OutboxTypeOK
      <4>4. ASSUME NEW q \in Rows, InsertRow(q) \/ RetryTime(q)
            PROVE  /\ attempts' = attempts
                   /\ rowStatus[r] \in {"PUBLISHED", "FAILED"} => rowStatus'[r] = rowStatus[r]
        BY <4>4 DEF InsertRow, RetryTime, OutboxTypeOK
      <4> QED
        BY <4>2, <4>3, <4>4
        DEF OutboxNext, outboxVars, StartWorker, StartWithoutKafka, WorkerStep, WorkerFailure,
            FetchPendingEvents, Publish, PublishError, PublishAmbiguous, MarkError, Crash
    <3>2. /\ rowStatus[r] \in {"PUBLISHED", "FAILED"}
          /\ attempts[r] + Cardinality(H) <= MaxAttempts + Cardinality(Workers)
      BY <1>1, <3>1 DEF RetryInv
    <3>3. K \in SUBSET H
      BY <3>2, HoldersShrink
    <3> HIDE DEF H, K
    <3>4. IsFiniteSet(K) /\ Cardinality(K) <= Cardinality(H)
      BY <2>1, <3>3, FS_Subset
    <3>5. Cardinality(K) \in Nat
      BY <3>4, FS_CardinalityType
    <3>6. attempts'[r] + Cardinality(K) <= MaxAttempts + Cardinality(Workers)
      BY <1>0, <2>1, <3>1, <3>2, <3>4, <3>5
    <3> QED  BY <3>1, <3>2, <3>6 DEF K
  <2> QED  BY <2>2, <2>3
<1> QED  BY <1>1, BatchesSorted DEF RetryInv

\* However many workers race for a row, its attempts end: a row is fetched only
\* while it is open, and once its attempts exceed MaxAttempts no failure opens
\* it again, only those workers that hold it still count theirs.
THEOREM RetriesEnd == OutboxSpec => []RetriesBounded
<1>1. OutboxInit => RetryInv
  <2>1. DOMAIN << >> = {}
    BY EmptySeq
  <2> QED  BY <2>1, OutboxAssumption DEF OutboxInit, RetryInv
<1>2. OutboxInv /\ RetryInv => RetriesBounded
  <2> SUFFICES ASSUME OutboxInv, RetryInv, NEW r \in Rows
               PROVE  attempts[r] <= MaxAttempts + Cardinality(Workers)
    BY DEF RetriesBounded
  <2>1. Cardinality(Holders(r)) \in Nat /\ Cardinality(Workers) \in Nat
    BY HoldersFinite
  <2>2. attempts[r] \in Nat /\ MaxAttempts \in Nat
    BY OutboxAssumption DEF OutboxInv, OutboxTypeOK
  <2>3. attempts[r] > MaxAttempts =>
            attempts[r] + Cardinality(Holders(r)) <= MaxAttempts + Cardinality(Workers)
    BY DEF RetryInv
  <2> QED  BY <2>1, <2>2, <2>3
<1> QED
  BY OutboxInvInit, OutboxInvStep, <1>1, <1>2, RetryStep, PTL DEF OutboxSpec
=============================================================================

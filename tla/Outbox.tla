------------------------------- MODULE Outbox -------------------------------
(***************************************************************************)
(* The transactional outbox: internal/outbox/repository.go and worker.go,  *)
(* internal/kafka/producer.go, and the part of internal/server/server.go   *)
(* that starts a worker, in any number of API processes that share the     *)
(* table outbox_events.                                                    *)
(*                                                                         *)
(* Rows are named by their rank in created_at order.  created_at is the    *)
(* start of the inserting transaction, so rows may appear in any order.    *)
(* next_retry_at is compared with the clock only, so it is abstracted to   *)
(* whether it has come.                                                    *)
(***************************************************************************)
EXTENDS Integers, Sequences, SequencesExt, FiniteSets

CONSTANTS
    Rows,           \* the rows of outbox_events
    Workers,        \* API processes, each with at most one outbox worker
    BatchLimit,     \* the limit processBatch gives FetchPendingEvents
    MaxAttempts,    \* the constant in MarkFailed
    CopiesBound,    \* copies of a record are counted up to this number
    OutboxFaults    \* failures considered, a subset of OutboxFaultKinds

\* "nokafka": the broker does not answer when a process starts.  "publish":
\* a record is not delivered and Publish says so.  "ambiguous": it is
\* delivered and Publish returns an error.  "update": an UPDATE of the row
\* fails.  "crash": a process stops at any point and is started again.
OutboxFaultKinds == {"nokafka", "publish", "ambiguous", "update", "crash"}

ASSUME OutboxAssumption ==
    /\ Rows \subseteq Nat
    /\ IsFiniteSet(Workers)
    /\ BatchLimit \in Nat \ {0}
    /\ MaxAttempts \in Nat
    /\ CopiesBound \in Nat \ {0}
    /\ OutboxFaults \subseteq OutboxFaultKinds

VARIABLES
    rowStatus,  \* outbox_events.status, or "ABSENT"
    attempts,   \* outbox_events.attempts
    due,        \* whether next_retry_at <= NOW()
    wpc,        \* where each process's worker is
    batch,      \* the rows it has fetched and not dealt with, first one first
    copies      \* history: how often each row's record is in its topic

outboxVars == << rowStatus, attempts, due, wpc, batch, copies >>

RowStatus == {"ABSENT", "PENDING", "PUBLISHED", "FAILED"}
WorkerPCs == {"down", "disabled", "tick", "publish", "markPublished", "markFailed"}

\* Every variable holds a value of the shape the code gives it.
OutboxTypeOK ==
    /\ rowStatus \in [Rows -> RowStatus]
    /\ attempts \in [Rows -> Nat]
    /\ due \in [Rows -> BOOLEAN]
    /\ wpc \in [Workers -> WorkerPCs]
    /\ batch \in [Workers -> Seq(Rows)]
    /\ copies \in [Rows -> 0 .. CopiesBound]

OutboxInit ==
    /\ rowStatus = [r \in Rows |-> "ABSENT"]
    /\ attempts = [r \in Rows |-> 0]
    /\ due = [r \in Rows |-> FALSE]
    /\ wpc = [w \in Workers |-> "down"]
    /\ batch = [w \in Workers |-> << >>]
    /\ copies = [r \in Rows |-> 0]

-----------------------------------------------------------------------------
\* The transaction of a transfer or of a payment commits with its event.
InsertRow(r) ==
    /\ rowStatus[r] = "ABSENT"
    /\ rowStatus' = [rowStatus EXCEPT ![r] = "PENDING"]
    /\ due' = [due EXCEPT ![r] = TRUE]
    /\ UNCHANGED << attempts, wpc, batch, copies >>

\* Time passes until next_retry_at.
RetryTime(r) ==
    /\ ~due[r]
    /\ rowStatus[r] = "PENDING"
    /\ due' = [due EXCEPT ![r] = TRUE]
    /\ UNCHANGED << rowStatus, attempts, wpc, batch, copies >>

\* NewServer starts the worker if NewProducer reaches the broker, and runs
\* without one otherwise.
StartWorker(w) ==
    /\ wpc[w] = "down"
    /\ wpc' = [wpc EXCEPT ![w] = "tick"]
    /\ UNCHANGED << rowStatus, attempts, due, batch, copies >>

StartWithoutKafka(w) ==
    /\ "nokafka" \in OutboxFaults
    /\ wpc[w] = "down"
    /\ wpc' = [wpc EXCEPT ![w] = "disabled"]
    /\ UNCHANGED << rowStatus, attempts, due, batch, copies >>

\* Mutant: the query does not look at the status.
FetchableAnyStatus == {r \in Rows : rowStatus[r] # "ABSENT" /\ due[r]}

\* Mutant: the query selects the rows that were never tried.
FetchableUntried == {r \in Rows : rowStatus[r] = "PENDING" /\ attempts[r] = 0}

\* The WHERE clause of FetchPendingEvents.
Fetchable == {r \in Rows : rowStatus[r] = "PENDING" /\ due[r]}

Batches == UNION {[1 .. n -> Rows] : n \in 1 .. BatchLimit}

\* ORDER BY created_at and LIMIT.
IsOldest(b) ==
    /\ \A i, j \in DOMAIN b : i < j => b[i] < b[j]
    /\ ToSet(b) \subseteq Fetchable
    /\ \A r \in Fetchable \ ToSet(b) : Len(b) = BatchLimit /\ b[Len(b)] < r

\* One SELECT outside any transaction: no row stays locked.  A batch without
\* rows, and a query that fails, leave the worker waiting for the next tick.
FetchPendingEvents(w) ==
    /\ wpc[w] = "tick"
    /\ \E b \in Batches : IsOldest(b) /\ batch' = [batch EXCEPT ![w] = b]
    /\ wpc' = [wpc EXCEPT ![w] = "publish"]
    /\ UNCHANGED << rowStatus, attempts, due, copies >>

-----------------------------------------------------------------------------
(* processBatch, for the first row of what is left of the batch. *)

Deliver(w) ==
    copies' = [copies EXCEPT ![Head(batch[w])] = IF @ < CopiesBound THEN @ + 1 ELSE @]

Publish(w) ==
    /\ wpc[w] = "publish"
    /\ Deliver(w)
    /\ wpc' = [wpc EXCEPT ![w] = "markPublished"]
    /\ UNCHANGED << rowStatus, attempts, due, batch >>

\* Mutant: the error is logged and the row is marked all the same.
PublishErrorIgnored(w) ==
    /\ "publish" \in OutboxFaults
    /\ wpc[w] = "publish"
    /\ wpc' = [wpc EXCEPT ![w] = "markPublished"]
    /\ UNCHANGED << rowStatus, attempts, due, batch, copies >>

PublishError(w) ==
    /\ "publish" \in OutboxFaults
    /\ wpc[w] = "publish"
    /\ wpc' = [wpc EXCEPT ![w] = "markFailed"]
    /\ UNCHANGED << rowStatus, attempts, due, batch, copies >>

PublishAmbiguous(w) ==
    /\ "ambiguous" \in OutboxFaults
    /\ wpc[w] = "publish"
    /\ Deliver(w)
    /\ wpc' = [wpc EXCEPT ![w] = "markFailed"]
    /\ UNCHANGED << rowStatus, attempts, due, batch >>

\* The loop goes on to the next row, or processBatch returns.
NextRow(w) ==
    /\ batch' = [batch EXCEPT ![w] = Tail(@)]
    /\ wpc' = [wpc EXCEPT ![w] = IF Len(batch[w]) > 1 THEN "publish" ELSE "tick"]

\* The UPDATE is for the id alone, whatever the row's status is by now.
MarkPublished(w) ==
    /\ wpc[w] = "markPublished"
    /\ rowStatus' = [rowStatus EXCEPT ![Head(batch[w])] = "PUBLISHED"]
    /\ NextRow(w)
    /\ UNCHANGED << attempts, due, copies >>

\* Mutant: a status no query knows.
FailedStatusUnknown(n) == IF n >= MaxAttempts THEN "FAILED" ELSE "RETRY"

\* Mutant: the CASE compares with =.
FailedStatusExact(n) == IF n = MaxAttempts THEN "FAILED" ELSE "PENDING"

\* The CASE of MarkFailed, which sees the attempts before this one.
FailedStatus(n) == IF n >= MaxAttempts THEN "FAILED" ELSE "PENDING"

MarkFailed(w) ==
    /\ wpc[w] = "markFailed"
    /\ LET r == Head(batch[w])
       IN  /\ rowStatus' = [rowStatus EXCEPT ![r] = FailedStatus(attempts[r])]
           /\ attempts' = [attempts EXCEPT ![r] = @ + 1]
           /\ due' = [due EXCEPT ![r] = FALSE]
    /\ NextRow(w)
    /\ UNCHANGED copies

\* An error of either UPDATE is logged or ignored, and the row is left as it is.
MarkError(w) ==
    /\ "update" \in OutboxFaults
    /\ wpc[w] \in {"markPublished", "markFailed"}
    /\ NextRow(w)
    /\ UNCHANGED << rowStatus, attempts, due, copies >>

\* The process stops and with it the batch in its memory.
Crash(w) ==
    /\ "crash" \in OutboxFaults
    /\ wpc[w] # "down"
    /\ wpc' = [wpc EXCEPT ![w] = "down"]
    /\ batch' = [batch EXCEPT ![w] = << >>]
    /\ UNCHANGED << rowStatus, attempts, due, copies >>

-----------------------------------------------------------------------------
WorkerStep(w) ==
    FetchPendingEvents(w) \/ Publish(w) \/ MarkPublished(w) \/ MarkFailed(w)

WorkerFailure(w) == PublishError(w) \/ PublishAmbiguous(w) \/ MarkError(w) \/ Crash(w)

OutboxNext ==
    \/ \E r \in Rows : InsertRow(r) \/ RetryTime(r)
    \/ \E w \in Workers :
          \/ StartWorker(w)
          \/ StartWithoutKafka(w)
          \/ WorkerStep(w)
          \/ WorkerFailure(w)

OutboxSpec == OutboxInit /\ [][OutboxNext]_outboxVars

\* Time passes, a process that is down is started, and its worker goes on
\* with its tick, its batch and its UPDATEs; of Publish only that it returns.
OutboxFairSpec ==
    /\ OutboxSpec
    /\ \A r \in Rows : WF_outboxVars(RetryTime(r))
    /\ \A w \in Workers :
          /\ WF_outboxVars(StartWorker(w) \/ StartWithoutKafka(w))
          /\ WF_outboxVars(WorkerStep(w) \/ PublishError(w) \/ PublishAmbiguous(w))

-----------------------------------------------------------------------------
(* Properties. *)

(* Publish waits for the broker "to guarantee delivery before updating
   Outbox": a row is PUBLISHED only if its record is in the topic, whatever
   fails and however many workers there are. *)
PublishedWasDelivered == \A r \in Rows : rowStatus[r] = "PUBLISHED" => copies[r] > 0

(* Retries end although workers race for a row: MarkFailed of one that has the
   row in hand when another gives it up counts once more, may even come after
   a MarkPublished, and never opens the row for another round. *)
RetriesBounded == \A r \in Rows : attempts[r] <= MaxAttempts + Cardinality(Workers)

(* "Hard failure after 5 attempts": no row that was refused MaxAttempts times is
   tried again. *)
HardFailureAfterMaxAttempts ==
    \A r \in Rows : attempts[r] >= MaxAttempts => rowStatus[r] # "PENDING"

Settled(r) == rowStatus[r] \in {"PUBLISHED", "FAILED"}

(* A row that is PUBLISHED or FAILED and that no worker has in hand stays
   settled for good, although an UPDATE decided earlier may bring back one
   that another worker still holds. *)
SettledStays ==
    \A r \in Rows :
        [](Settled(r) /\ (\A w \in Workers : r \notin ToSet(batch[w])) => []Settled(r))

(* Every event is settled in the end, however often Publish fails, if from
   some time on no process stops and no UPDATE fails; unless no process has a
   worker, because the broker did not answer when it started. *)
EveryEventSettles ==
    (<>[][\A w \in Workers : ~Crash(w) /\ ~MarkError(w)]_outboxVars) =>
        \A r \in Rows :
            rowStatus[r] = "PENDING" ~> Settled(r) \/ \A w \in Workers : wpc[w] = "disabled"

(* No row is in the batches of two workers. *)
NoSharedRow ==
    \A v, w \in Workers : v # w => ToSet(batch[v]) \cap ToSet(batch[w]) = {}
=============================================================================

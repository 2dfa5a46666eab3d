----------------------------- MODULE Transfers -----------------------------
(***************************************************************************)
(* The transfer engine: internal/transfers/handler.go (HandleTransfer),    *)
(* internal/transfers/service.go (ExecuteTransfer) and                     *)
(* internal/idempotency/repository.go (TryAcquire, Complete), run by any   *)
(* number of concurrent HTTP handlers against the tables of Database.      *)
(*                                                                         *)
(* One step is one SQL statement, or a run of statements of one            *)
(* transaction that no other session can observe or delay.  Row versions   *)
(* written by a transaction (newBal) become visible when it commits.       *)
(*                                                                         *)
(* The wallet ids of a request are strings: IdStrings holds their ranks in *)
(* Go's string order, and ParseUUID is PostgreSQL's reading of them, which *)
(* accepts several spellings of one UUID and prints only the canonical one.*)
(***************************************************************************)
EXTENDS Database

CONSTANTS
    Handlers,       \* HTTP handler goroutines
    Keys,           \* Idempotency-Key header values
    SystemUsers,    \* users whose role is SYSTEM
    IdStrings,      \* spellings of wallet ids that requests use
    ParseUUID,      \* the wallet a spelling denotes, or NoWallet
    Submissions     \* the requests clients send, and send again

NoWallet == 0

ASSUME TransfersAssumption ==
    /\ Handlers \subseteq Sessions
    /\ Wallets \subseteq IdStrings
    /\ IdStrings \subseteq Nat
    /\ ParseUUID \in [IdStrings -> Wallets \cup {NoWallet}]
    /\ \A w \in Wallets : ParseUUID[w] = w
    /\ Submissions \subseteq [key : Keys, caller : Users, source : IdStrings,
                              dest : IdStrings, amount : Int, currency : Currencies]
    /\ Submissions # {}

VARIABLES
    pc,         \* where each handler is
    req,        \* the request each handler serves
    snap,       \* rows read by the two SELECT ... FOR UPDATE
    newBal,     \* balances written by the open transaction
    resp,       \* response code and transfer each handler is about to give
    idem,       \* table idempotency_keys
    transfers,  \* table transfers, oldest first
    answers     \* history: the final answers sent to clients

handlerVars == << pc, req, snap, newBal, resp >>
transferVars == << pc, req, snap, newBal, resp, idem, transfers, answers >>
vars == << dbVars, transferVars >>

NoRequest == CHOOSE s \in Submissions : TRUE
NoRow == [balance |-> 0, status |-> "ABSENT"]
NoSnap == [first |-> NoRow, second |-> NoRow]
NoBal == [source |-> 0, dest |-> 0]
NoResp == [code |-> 0, transfer |-> 0]

PCs == {"idle", "insert", "select", "owner", "begin", "lock1", "lock2",
        "check", "write", "commit", "complete"}
Row == [balance : 0 .. MaxBigint, status : WalletStatus]
Response == [code : {0, 201, 400, 403}, transfer : Nat]
IdemRow == [status : {"ABSENT", "IN_PROGRESS", "COMPLETED"}, resp : Response]
TransferRow == [key : Keys, source : Wallets, dest : Wallets,
                amount : Nat, currency : Currencies]

\* Every variable holds a value of the shape the code gives it; balances stay
\* within 0 .. MaxBigint, as the column's CHECK and its BIGINT type require.
TypeOK ==
    /\ DbTypeOK
    /\ pc \in [Handlers -> PCs]
    /\ req \in [Handlers -> Submissions]
    /\ snap \in [Handlers -> [first : Row, second : Row]]
    /\ newBal \in [Handlers -> [source : 0 .. MaxBigint, dest : 0 .. MaxBigint]]
    /\ resp \in [Handlers -> Response]
    /\ idem \in [Keys -> IdemRow]
    /\ transfers \in Seq(TransferRow)
    /\ answers \subseteq [request : Submissions, resp : Response]

TransferInit ==
    /\ pc = [h \in Handlers |-> "idle"]
    /\ req = [h \in Handlers |-> NoRequest]
    /\ snap = [h \in Handlers |-> NoSnap]
    /\ newBal = [h \in Handlers |-> NoBal]
    /\ resp = [h \in Handlers |-> NoResp]
    /\ idem = [k \in Keys |-> [status |-> "ABSENT", resp |-> NoResp]]
    /\ transfers = << >>
    /\ answers = {}

Init == DbInit /\ TransferInit

-----------------------------------------------------------------------------
(* What a handler computes from its request and the rows it has read. *)

Key(h) == req[h].key

\* Mutant: lock the source first, then the destination.
FirstLockUnordered(h) == req[h].source

\* firstLock and secondLock: the two id strings in Go's string order.
FirstLock(h) == IF req[h].source > req[h].dest THEN req[h].dest ELSE req[h].source
SecondLock(h) == IF FirstLock(h) = req[h].source THEN req[h].dest ELSE req[h].source

FirstWallet(h) == ParseUUID[FirstLock(h)]
SecondWallet(h) == ParseUUID[SecondLock(h)]

\* Mutant: the first locked wallet is taken for the source.
SourceIsFirstAlways(h) == TRUE

\* firstWallet.ID == req.SourceWalletID compares the canonical spelling that
\* the database returned with the spelling of the request.
SourceIsFirst(h) == FirstWallet(h) = req[h].source

SourceWallet(h) == IF SourceIsFirst(h) THEN FirstWallet(h) ELSE SecondWallet(h)
DestWallet(h) == IF SourceIsFirst(h) THEN SecondWallet(h) ELSE FirstWallet(h)
SourceRow(h) == IF SourceIsFirst(h) THEN snap[h].first ELSE snap[h].second
DestRow(h) == IF SourceIsFirst(h) THEN snap[h].second ELSE snap[h].first

\* SELECT ... WHERE id = $1 finds a row for this spelling.
RowExists(s) == ParseUUID[s] \in Wallets /\ status[ParseUUID[s]] # "ABSENT"

RowOf(w) == [balance |-> balance[w], status |-> status[w]]

\* ExecuteTransfer's checks of the request alone.
WellFormed(h) == req[h].source # req[h].dest /\ req[h].amount > 0

\* Mutant: the destination's status is not looked at.
ValidatedSourceOnly(h) ==
    /\ SourceRow(h).status = "ACTIVE"
    /\ CurrencyOf[SourceWallet(h)] = req[h].currency
    /\ CurrencyOf[DestWallet(h)] = req[h].currency
    /\ SourceRow(h).balance >= req[h].amount

\* ExecuteTransfer's checks of the two locked rows.
Validated(h) ==
    /\ SourceRow(h).status = "ACTIVE"
    /\ DestRow(h).status = "ACTIVE"
    /\ CurrencyOf[SourceWallet(h)] = req[h].currency
    /\ CurrencyOf[DestWallet(h)] = req[h].currency
    /\ SourceRow(h).balance >= req[h].amount

\* Mutant: additions to a balance may exceed the column's range.
WritableUnbounded(h) == SourceWallet(h) # DestWallet(h)

\* The two UPDATEs, the INSERT into transfers with its CHECK that the wallets
\* differ, and CreateTransaction all succeed.
Writable(h) ==
    /\ SourceWallet(h) # DestWallet(h)
    /\ balance[SourceWallet(h)] - req[h].amount >= 0
    /\ balance[DestWallet(h)] + req[h].amount <= MaxBigint
    /\ Accepted(DoubleEntry(SourceWallet(h), DestWallet(h),
                            req[h].amount, req[h].currency))

-----------------------------------------------------------------------------
(* Ways a step can leave a handler. *)

Goto(h, label) == pc' = [pc EXCEPT ![h] = label]

\* The handler returns; its local state is gone.
Return(h) ==
    /\ pc' = [pc EXCEPT ![h] = "idle"]
    /\ req' = [req EXCEPT ![h] = NoRequest]
    /\ snap' = [snap EXCEPT ![h] = NoSnap]
    /\ newBal' = [newBal EXCEPT ![h] = NoBal]
    /\ resp' = [resp EXCEPT ![h] = NoResp]

\* The handler goes on to Complete with this response.
Conclude(h, code, transfer) ==
    /\ pc' = [pc EXCEPT ![h] = "complete"]
    /\ resp' = [resp EXCEPT ![h] = [code |-> code, transfer |-> transfer]]
    /\ snap' = [snap EXCEPT ![h] = NoSnap]
    /\ newBal' = [newBal EXCEPT ![h] = NoBal]
    /\ UNCHANGED req

\* Mutant: no deferred Rollback.
FailHoldingLocks(h) ==
    /\ Conclude(h, 400, 0)
    /\ UNCHANGED << dbVars, idem, transfers, answers >>

\* Mutant: the error is returned without a call of Complete.
FailWithoutComplete(h) ==
    /\ Return(h)
    /\ ReleaseLocks(h)
    /\ UNCHANGED << balance, status, ledger, outbox, idem, transfers, answers >>

\* ExecuteTransfer returns an error: the deferred Rollback runs and the
\* handler prepares a 400.
Fail(h) ==
    /\ Conclude(h, 400, 0)
    /\ ReleaseLocks(h)
    /\ UNCHANGED << balance, status, ledger, outbox, idem, transfers, answers >>

Answer(h, r) == answers' = answers \cup {[request |-> req[h], resp |-> r]}
-----------------------------------------------------------------------------
(* HandleTransfer. *)

\* A request with claims, a key and a decodable body arrives; one without
\* any of them is answered before it can change anything.
HandleTransfer(h) ==
    /\ pc[h] = "idle"
    /\ \E s \in Submissions : req' = [req EXCEPT ![h] = s]
    /\ Goto(h, "insert")
    /\ UNCHANGED << dbVars, snap, newBal, resp, idem, transfers, answers >>

\* Mutant: INSERT ... ON CONFLICT DO UPDATE, which takes over the key.
TryAcquireUpsert(h) ==
    /\ pc[h] = "insert"
    /\ idem' = [idem EXCEPT ![Key(h)].status = "IN_PROGRESS"]
    /\ Goto(h, "owner")
    /\ UNCHANGED << dbVars, req, snap, newBal, resp, transfers, answers >>

\* TryAcquire's INSERT: the first to insert the key owns it.
TryAcquireInsert(h) ==
    /\ pc[h] = "insert"
    /\ IF idem[Key(h)].status = "ABSENT"
       THEN /\ idem' = [idem EXCEPT ![Key(h)].status = "IN_PROGRESS"]
            /\ Goto(h, "owner")
       ELSE /\ UNCHANGED idem
            /\ Goto(h, "select")
    /\ UNCHANGED << dbVars, req, snap, newBal, resp, transfers, answers >>

\* TryAcquire's SELECT: a completed key gives the stored response; one in
\* progress a 409, and a missing one a 500, which are not final answers.
TryAcquireSelect(h) ==
    /\ pc[h] = "select"
    /\ IF idem[Key(h)].status = "COMPLETED"
       THEN Answer(h, idem[Key(h)].resp)
       ELSE UNCHANGED answers
    /\ Return(h)
    /\ UNCHANGED << dbVars, idem, transfers >>

\* Mutant: any wallet that exists may be debited by anybody.
CheckOwnerExists(h) ==
    /\ pc[h] = "owner"
    /\ IF RowExists(req[h].source)
       THEN /\ Goto(h, "begin")
            /\ UNCHANGED << req, snap, newBal, resp >>
       ELSE Conclude(h, 403, 0)
    /\ UNCHANGED << dbVars, idem, transfers, answers >>

\* GetWalletByID and the ownership check.
CheckOwner(h) ==
    /\ pc[h] = "owner"
    /\ IF /\ RowExists(req[h].source)
          /\ \/ Owner[ParseUUID[req[h].source]] = req[h].caller
             \/ req[h].caller \in SystemUsers
       THEN /\ Goto(h, "begin")
            /\ UNCHANGED << req, snap, newBal, resp >>
       ELSE Conclude(h, 403, 0)
    /\ UNCHANGED << dbVars, idem, transfers, answers >>

\* Complete stores the response, and the handler sends it.
Complete(h) ==
    /\ pc[h] = "complete"
    /\ idem' = [idem EXCEPT ![Key(h)] = [status |-> "COMPLETED", resp |-> resp[h]]]
    /\ Answer(h, resp[h])
    /\ Return(h)
    /\ UNCHANGED << dbVars, transfers >>

-----------------------------------------------------------------------------
(* ExecuteTransfer. *)

BeginTransfer(h) ==
    /\ pc[h] = "begin"
    /\ IF WellFormed(h)
       THEN /\ Goto(h, "lock1")
            /\ UNCHANGED << req, snap, newBal, resp >>
       ELSE Conclude(h, 400, 0)
    /\ UNCHANGED << dbVars, idem, transfers, answers >>

\* Mutant: the row is read without being locked.
ReadFirst(h) ==
    /\ pc[h] = "lock1"
    /\ RowExists(FirstLock(h))
    /\ snap' = [snap EXCEPT ![h].first = RowOf(FirstWallet(h))]
    /\ Goto(h, "lock2")
    /\ UNCHANGED << dbVars, req, newBal, resp, idem, transfers, answers >>

LockFirst(h) ==
    /\ pc[h] = "lock1"
    /\ RowExists(FirstLock(h))
    /\ CanLock(h, FirstWallet(h))
    /\ rowLock' = [rowLock EXCEPT ![FirstWallet(h)] = h]
    /\ snap' = [snap EXCEPT ![h].first = RowOf(FirstWallet(h))]
    /\ Goto(h, "lock2")
    /\ UNCHANGED << balance, status, ledger, outbox >>
    /\ UNCHANGED << req, newBal, resp, idem, transfers, answers >>

LockSecond(h) ==
    /\ pc[h] = "lock2"
    /\ RowExists(SecondLock(h))
    /\ CanLock(h, SecondWallet(h))
    /\ rowLock' = [rowLock EXCEPT ![SecondWallet(h)] = h]
    /\ snap' = [snap EXCEPT ![h].second = RowOf(SecondWallet(h))]
    /\ Goto(h, "check")
    /\ UNCHANGED << balance, status, ledger, outbox >>
    /\ UNCHANGED << req, newBal, resp, idem, transfers, answers >>

Validate(h) ==
    /\ pc[h] = "check"
    /\ Validated(h)
    /\ Goto(h, "write")
    /\ UNCHANGED << dbVars, req, snap, newBal, resp, idem, transfers, answers >>

\* The UPDATEs are relative to the row's current balance.
WriteRows(h) ==
    /\ pc[h] = "write"
    /\ Writable(h)
    /\ newBal' = [newBal EXCEPT ![h] =
                    [source |-> balance[SourceWallet(h)] - req[h].amount,
                     dest |-> balance[DestWallet(h)] + req[h].amount]]
    /\ Goto(h, "commit")
    /\ UNCHANGED << dbVars, req, snap, resp, idem, transfers, answers >>

\* A wallet that is not there, a failed check, a violated constraint.
ReturnError(h) ==
    /\ \/ pc[h] = "lock1" /\ ~RowExists(FirstLock(h))
       \/ pc[h] = "lock2" /\ ~RowExists(SecondLock(h))
       \/ pc[h] = "check" /\ ~Validated(h)
       \/ pc[h] = "write" /\ ~Writable(h)
    /\ Fail(h)

\* Mutant: the INSERT into transfers lists its columns in the wrong order.
CommitRowsSwapped(h) ==
    /\ balance' = [balance EXCEPT ![SourceWallet(h)] = newBal[h].source,
                                  ![DestWallet(h)] = newBal[h].dest]
    /\ transfers' = Append(transfers,
                           [key |-> Key(h),
                            source |-> ParseUUID[req[h].dest],
                            dest |-> ParseUUID[req[h].source],
                            amount |-> req[h].amount,
                            currency |-> req[h].currency])
    /\ PostLedger("TRANSFER", Len(transfers) + 1, SourceWallet(h), DestWallet(h),
                  req[h].amount, req[h].currency)
    /\ InsertEvent("transfer.events", Len(transfers) + 1)
    /\ ReleaseLocks(h)
    /\ UNCHANGED << status, idem, answers >>

\* All the rows of the transaction become visible at once.
CommitRows(h) ==
    /\ balance' = [balance EXCEPT ![SourceWallet(h)] = newBal[h].source,
                                  ![DestWallet(h)] = newBal[h].dest]
    /\ transfers' = Append(transfers,
                           [key |-> Key(h),
                            source |-> ParseUUID[req[h].source],
                            dest |-> ParseUUID[req[h].dest],
                            amount |-> req[h].amount,
                            currency |-> req[h].currency])
    /\ PostLedger("TRANSFER", Len(transfers) + 1, SourceWallet(h), DestWallet(h),
                  req[h].amount, req[h].currency)
    /\ InsertEvent("transfer.events", Len(transfers) + 1)
    /\ ReleaseLocks(h)
    /\ UNCHANGED << status, idem, answers >>

\* Mutant: tx.Commit is not called, and the deferred Rollback undoes the rows.
CommitForgotten(h) ==
    /\ pc[h] = "commit"
    /\ ReleaseLocks(h)
    /\ UNCHANGED << balance, status, ledger, outbox, idem, transfers, answers >>
    /\ Conclude(h, 201, Len(transfers) + 1)

Commit(h) ==
    /\ pc[h] = "commit"
    /\ CommitRows(h)
    /\ Conclude(h, 201, Len(transfers) + 1)

-----------------------------------------------------------------------------
(* Failures. *)

\* The statement at hand fails without an effect.
StatementError(h) ==
    /\ "error" \in Faults
    /\ \/ /\ pc[h] = "insert"
          /\ Goto(h, "select")
          /\ UNCHANGED << dbVars, req, snap, newBal, resp, idem, transfers, answers >>
       \/ /\ pc[h] = "select"
          /\ Return(h)
          /\ UNCHANGED << dbVars, idem, transfers, answers >>
       \/ /\ pc[h] = "owner"
          /\ Conclude(h, 403, 0)
          /\ UNCHANGED << dbVars, idem, transfers, answers >>
       \/ /\ pc[h] \in {"begin", "lock1", "lock2", "write", "commit"}
          /\ Fail(h)
       \/ /\ pc[h] = "complete"      \* _ = Complete(...): the error is ignored
          /\ Answer(h, resp[h])
          /\ Return(h)
          /\ UNCHANGED << dbVars, idem, transfers >>

\* The statement takes effect, but the handler sees an error.
LostReply(h) ==
    /\ "ambiguous" \in Faults
    /\ \/ /\ pc[h] = "insert"
          /\ idem[Key(h)].status = "ABSENT"
          /\ idem' = [idem EXCEPT ![Key(h)].status = "IN_PROGRESS"]
          /\ Goto(h, "select")
          /\ UNCHANGED << dbVars, req, snap, newBal, resp, transfers, answers >>
       \/ /\ pc[h] = "commit"
          /\ CommitRows(h)
          /\ Conclude(h, 400, 0)

\* The handler never runs again; the server rolls its transaction back.
Abandon(h) ==
    /\ "abandon" \in Faults
    /\ pc[h] # "idle"
    /\ Return(h)
    /\ ReleaseLocks(h)
    /\ UNCHANGED << balance, status, ledger, outbox, idem, transfers, answers >>

\* Handler h has the first lock and waits for the second, which g holds.
WaitsFor(h, g) ==
    /\ pc[h] = "lock2"
    /\ RowExists(SecondLock(h))
    /\ g # h
    /\ rowLock[SecondWallet(h)] = g

\* The handlers of S wait for each other and for nobody else.
WaitCycle(S) ==
    /\ S # {}
    /\ \A h \in S : \E g \in S : WaitsFor(h, g)
    /\ \A g \in S : \E h \in S : WaitsFor(h, g)

\* PostgreSQL's deadlock detector ends one transaction of a cycle.
DeadlockAbort(h) ==
    /\ \E S \in SUBSET Handlers : h \in S /\ WaitCycle(S)
    /\ Fail(h)

-----------------------------------------------------------------------------
LockStep(h) == LockFirst(h) \/ LockSecond(h)

\* The steps of a handler that has its request and meets no failure.
HandlerStep(h) ==
    \/ TryAcquireInsert(h) \/ TryAcquireSelect(h) \/ CheckOwner(h)
    \/ BeginTransfer(h) \/ Validate(h) \/ WriteRows(h) \/ ReturnError(h)
    \/ Commit(h) \/ Complete(h)

Failure(h) == StatementError(h) \/ LostReply(h) \/ Abandon(h) \/ DeadlockAbort(h)

TransferStep(h) == HandleTransfer(h) \/ HandlerStep(h) \/ LockStep(h) \/ Failure(h)

Next ==
    \/ \E h \in Handlers : TransferStep(h)
    \/ \E w \in Wallets : WalletStep(w) /\ UNCHANGED transferVars

Spec == Init /\ [][Next]_vars

\* A goroutine runs until its handler returns; PostgreSQL queues the sessions
\* that wait for a row, so one that keeps asking for a lock that keeps being
\* released gets it; and its detector breaks every cycle.
FairSpec ==
    /\ Spec
    /\ \A h \in Handlers : /\ WF_vars(HandlerStep(h))
                           /\ SF_vars(LockStep(h))
                           /\ WF_vars(DeadlockAbort(h))
-----------------------------------------------------------------------------
(* Properties. *)

\* Every spelling of a wallet id in the requests is the canonical one.
CanonicalIds == \A s \in IdStrings : ParseUUID[s] \in {s, NoWallet}

(* However often a request is sent, and however its handlers interleave or
   fail, table transfers holds at most one row for an idempotency key. *)
AtMostOncePerKey ==
    \A i, j \in DOMAIN transfers : transfers[i].key = transfers[j].key => i = j

(* Each row of transfers has exactly one ledger transaction, which debits the
   wallet the request names as source and credits the one it names as
   destination, and exactly one outbox event. *)
PostedAsRequested ==
    \A i \in DOMAIN transfers :
        /\ \E j \in DOMAIN ledger :
              /\ \A n \in DOMAIN ledger : ledger[n].type = "TRANSFER" /\ ledger[n].ref = i <=> n = j
              /\ ledger[j].debit = transfers[i].source
              /\ ledger[j].credit = transfers[i].dest
              /\ ledger[j].amount = transfers[i].amount
              /\ ledger[j].currency = transfers[i].currency
        /\ \E j \in DOMAIN outbox :
              \A n \in DOMAIN outbox : outbox[n].topic = "transfer.events" /\ outbox[n].ref = i <=> n = j

\* Request s passes the checks of HandleTransfer and ExecuteTransfer that depend
\* on it and on what never changes about its two wallets.
Entitled(s) ==
    /\ ParseUUID[s.source] \in Wallets /\ ParseUUID[s.dest] \in Wallets
    /\ Owner[ParseUUID[s.source]] = s.caller \/ s.caller \in SystemUsers
    /\ s.source # s.dest /\ s.amount > 0
    /\ CurrencyOf[ParseUUID[s.source]] = s.currency
    /\ CurrencyOf[ParseUUID[s.dest]] = s.currency

\* The row of transfers that request s asks for.
RowFor(s) ==
    [key |-> s.key, source |-> ParseUUID[s.source], dest |-> ParseUUID[s.dest],
     amount |-> s.amount, currency |-> s.currency]

(* Money moves only as somebody entitled to it asked: every ledger transaction
   of a transfer debits and credits the wallets, by the amount and in the
   currency, of one request of the source's owner or of the system, and no two
   of them are for the same idempotency key. *)
MovedAsAsked ==
    \A n \in DOMAIN ledger : ledger[n].type = "TRANSFER" =>
        LET i == ledger[n].ref IN
        /\ \E s \in Submissions :
              /\ Entitled(s) /\ transfers[i] = RowFor(s)
              /\ ledger[n].debit = ParseUUID[s.source]
              /\ ledger[n].credit = ParseUUID[s.dest]
              /\ ledger[n].amount = s.amount
              /\ ledger[n].currency = s.currency
        /\ \A m \in DOMAIN ledger \ {n} : ledger[m].type = "TRANSFER" =>
              transfers[ledger[m].ref].key # transfers[i].key

(* What ExecuteTransfer checked on the rows it read is still so when it
   writes: no other session has spent the balance or frozen a wallet. *)
ValidationStillHolds ==
    \A h \in Handlers :
        pc[h] \in {"write", "commit"} =>
            /\ balance[SourceWallet(h)] >= req[h].amount
            /\ status[SourceWallet(h)] = "ACTIVE"
            /\ status[DestWallet(h)] = "ACTIVE"

(* Locking in the order of the id strings prevents deadlocks: handlers never
   wait for each other in a circle. *)
NoDeadlock == \A S \in SUBSET Handlers : ~WaitCycle(S)

(* All final answers to one key are the same answer. *)
SingleAnswerPerKey ==
    \A a, b \in answers : a.request.key = b.request.key => a.resp = b.resp

\* Response r tells the truth about key k.
TruthAbout(k, r) ==
    IF r.code = 201
    THEN r.transfer \in DOMAIN transfers /\ transfers[r.transfer].key = k
    ELSE \A i \in DOMAIN transfers : transfers[i].key # k

(* A 201 names a transfer of its key that has been committed, and a 400 or 403
   means that no money moved for the key, nor will it. *)
AnswersTruthful ==
    /\ \A a \in answers : TruthAbout(a.request.key, a.resp)
    /\ \A k \in Keys : idem[k].status = "COMPLETED" => TruthAbout(k, idem[k].resp)

(* A client told 201 had the transfer made that it asked for, provided that no
   other request that can succeed was sent with its key: the handler stores the
   payload and never compares it. *)
AnswersAreOwn ==
    \A a \in answers :
        a.resp.code = 201 =>
            LET t == transfers[a.resp.transfer] IN
            << t.source, t.dest, t.amount, t.currency >>
                = << ParseUUID[a.request.source], ParseUUID[a.request.dest],
                     a.request.amount, a.request.currency >>

\* Handler h has inserted key k and not yet completed it.
Owns(h, k) == Key(h) = k /\ pc[h] \notin {"idle", "insert", "select"}

(* A key that is answered with "request is currently in progress" has a
   handler that is working on it. *)
InProgressHasOwner ==
    \A k \in Keys : idem[k].status = "IN_PROGRESS" => \E h \in Handlers : Owns(h, k)

(* A stored response is never overwritten, nor is its key freed. *)
CompletedNeverChanges ==
    [][\A k \in Keys : idem[k].status = "COMPLETED" => idem'[k] = idem[k]]_vars

(* No balance moves while its wallet is frozen, although freezing runs
   concurrently with transfers that checked the status earlier. *)
FrozenUntouched ==
    [][\A w \in Wallets : balance'[w] # balance[w] =>
            status[w] = "ACTIVE" /\ status'[w] = "ACTIVE"]_vars

(* Every request that a handler takes on is eventually over. *)
EveryRequestEnds == \A h \in Handlers : pc[h] # "idle" ~> pc[h] = "idle"

(* Without failures, a key in progress is eventually completed, so a client
   that repeats its request on 409 gets an answer in the end. *)
KeysComplete ==
    \A k \in Keys : idem[k].status = "IN_PROGRESS" ~> idem[k].status = "COMPLETED"

\* The engine implements the abstract bank, state by state.
B == INSTANCE Bank

(* Clients see transfers that happen in one step each and follow the rules of
   module Bank. *)
BankSpec == B!Spec
=============================================================================

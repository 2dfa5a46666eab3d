# A TLA+ model of go-wallet-ledger

This directory models the money-moving core of go-wallet-ledger: transfers
between wallets with idempotency keys, deposits through a payment provider's
webhooks, the double-entry ledger they share, the transactional outbox and
reconciliation; and the way of a request into it, through rate limiter, tokens and
roles. TLC checks the models on small instances; TLAPS proves every safety property
and every refinement that the passing runs check, for all instances, seven of them under
a hypothesis that section 5 states and explains.

```
tlasany M.tla                          parse a module
tlc -workers 2 -config X.cfg M         check a run (table "Runs" below)
tlapm M.tla                            check the proofs of a module (section 5)
```

`PROJECT.json` maps every definition to the lines it models and lists the runs,
the mutants, the hazards, the findings and the theorems.

## 1. The system

| component | source | state | operations |
|---|---|---|---|
| wallets | `internal/wallets` | tables `wallets`, `accounts` | create, freeze, unfreeze, reads |
| ledger | `internal/ledger` | `ledger_transactions`, `ledger_entries` (append only) | `CreateTransaction`: validate, insert |
| idempotency store | `internal/idempotency` | `idempotency_keys` | `TryAcquire`, `Complete` |
| transfer engine | `internal/transfers` | `transfers` | `HandleTransfer`, `ExecuteTransfer` |
| payments | `internal/payments` | `payments`, `webhook_events` | `CreatePayment`, `ProcessWebhook`, the webhook and demo handlers |
| outbox | `internal/outbox` | `outbox_events` | `InsertEvent`; worker: fetch, publish, mark |
| kafka producer | `internal/kafka` | the client | `NewProducer` (ping), `Publish` |
| reconciliation | `internal/reconciliation` | `reconciliation_runs`, `reconciliation_items` | `RunReconciliation` at the start and every hour |
| server | `internal/server`, `cmd/api` | middleware chain, routes | start the workers and the HTTP server, shut down |
| rate limiter | `internal/redis`, `internal/middleware` | Redis counters | `Allow`, before every handler |
| auth | `internal/auth`, `internal/middleware` | `users`; tokens at the clients | register, login, check a token and its role |
| configuration, logging, metrics, connections | `internal/config`, `logger`, `observability`, `database` | none of interest | |
| frontend, scripts | `frontend`, `scripts` | none of interest | |

**Interaction.** The components never call each other concurrently inside one
process; they meet in PostgreSQL. A transfer and a webhook are each a database
transaction (READ COMMITTED) that calls into the ledger and the outbox with its
`*sql.Tx`, so that balances, ledger entries and event commit together. The
idempotency store does *not* take part in that transaction: `TryAcquire` and
`Complete` are statements of their own, before and after it. The outbox worker
polls its table outside any transaction and talks to Kafka. Every request passes the
rate limiter in Redis first; behind it, all but registration, login and the webhook
need a token, whose claims the handlers trust without reading `users` again.

**What is hard.**
* Concurrency: goroutines of one process, and of several, read a row, decide,
  and write later; only row locks and unique indexes stand between them. Lock
  order is a matter of string comparison.
* Failure: a statement can fail, a `COMMIT` can take effect without its answer
  arriving, a process can stop between any two statements, and the 60 s request
  timeout cancels the context under a running handler.
* Delivery: clients repeat requests, the provider repeats and reorders events
  and may send them before the payment's row exists, Kafka may deliver a record
  and report an error.

**What makes each component correct.**
* ledger: entries balance, and the balances of wallets are their sums.
* transfer engine: for one key money moves at most once, as the client asked, as
  validated, never out of or into a frozen wallet; the answer is the truth and
  is the same on every retry; every request ends.
* payments: a payment is credited once if it is SUCCEEDED and never otherwise;
  what is acknowledged is recorded; a refused event can be repeated.
* reconciliation: it accuses no wallet whose books agree, and misses none whose books
  do not.
* rate limiter: an origin is refused for its own requests only, is counted less often
  than twice its limit in any window, and is served again.
* auth and wallets: who was told that a registration succeeded is the user of that
  address; a wallet is seen by its owner and the staff only, frozen by the staff only.
  Staff is whoever registered as such: the role is taken from the request, whoever
  sends it, and the column has no CHECK.
* outbox: nothing is marked as published that was not delivered, an event
  that cannot be published is not retried for ever, every event is settled.

## 2. Modules and how they correspond to the code

```
Ledger <- Database <- Transfers <- MCTransfers
             ^            ^------- Reconciliation <- MCReconciliation
             |            +------- Engine <- MCEngine
             +------- Payments <---+
             |            ^------- MCPayments
             +------- Gateway <- MCGateway
                          +------> RateLimiter, Auth
Outbox <- MCOutbox
Bank <- Deposits       abstract: Transfers implements Bank,
                       Payments and Engine implement Deposits

DatabaseProofs <- TransfersProofs <- AnswersProofs
      ^               ^------------- ReconciliationProofs
      +---------- PaymentsProofs <- EngineProofs -> TransfersProofs
OutboxProofs, GatewayProofs
```

A module of proofs extends the module it is about: `AnswersProofs` is about what
`Transfers` says of answers, and the others are named for their subject.

* **Ledger**: the validation of `CreateTransaction`, with 64-bit running totals.
* **Database**: the tables that transfers and payments share, row locks, the rows
  `CreateTransaction` and `InsertEvent` insert, the wallet operations, and the
  properties of the books. `Net` adds up an account's entries from the ledger, as
  nothing in the program keeps such a sum.
* **Transfers**: one handler is one value of `pc`. `insert` and `select` are the
  statements of `TryAcquire`; `owner` is `GetWalletByID` and the ownership check;
  `begin` the checks of the request and `BeginTx`; `lock1` and `lock2` the two
  `SELECT ... FOR UPDATE`; `check` the validation of the rows read; `write` the
  UPDATEs and INSERTs of the transaction, which nobody can see or delay since the
  rows are locked; `commit` is `COMMIT`; `complete` is `Complete` and the answer.
  What a transaction has read and written sits in `snap` and `newBal` until it
  commits, so a missing lock would show as a stale read or a lost update.
* **Bank**: what the engine promises: a transfer is one atomic step. `Transfers`
  instantiates it with its own `balance`, `status` and `transfers`; the checked
  property is `BankSpec`.
* **Payments**: `ProcessPayment`, `SavePayment` and the ways to fail are
  `CreatePayment`; one delivery is one value of `dpc`, with a step for each
  statement of `ProcessWebhook` that can wait: the INSERT into `webhook_events`
  (which waits for an uncommitted row of the same event), the locked SELECT of the
  payment, the UPDATE of the wallet, COMMIT.
* **Deposits**: `Bank` with deposits: a payment is asked for, and later declined or
  paid, each in one atomic step. `Payments` instantiates it, with the payment's
  status as the state of the order and the platform's account as its counterpart.
* **Engine**: transfers and payments at once over one `Database`, as the process
  runs them. It instantiates `Deposits` too, with the wallet ids of the requests as
  PostgreSQL reads them, so that the property does not depend on how they are spelled
  as long as the source is spelled canonically.
* **Reconciliation**: composes the transfer engine with the worker. Each value of
  `rpc` is one statement of `RunReconciliation`. The two queries add up the columns of
  the ledger's entries as their SQL does, debits and credits apart; that the result for a
  wallet is `Net` is a lemma of the proofs. As the engine keeps its
  books in order, `Corrupt` changes a balance by hand, once for each wallet, so that
  there is something to find. Of the table of runs the latest row is kept; of the
  items, the entities they name.
* **Outbox**: any number of processes over one table. `next_retry_at` is reduced to
  whether it has come; `copies` counts the records in the topic.
* **RateLimiter**: the counters in Redis with their time to live, in seconds. The Lua
  script of `Allow` is one step, as it is for Redis. The client that `Connect` makes
  keeps its default of repeating a failed `EVAL` up to 3 times, so that a request whose
  answers are lost runs the script again and is counted again, or is counted and then
  refused; `tries` is how far the request of a connection has got with that. If the last
  try fails too, or the error is not one to retry, the request passes, counted or not.
  `since`, `asked` and `lastRun` are histories: for every `age` within the window, how
  often an origin was counted in this second and the `age` seconds before it, and for
  how many requests.
* **Auth**: the table `users`, with any string as a role and USER for an empty one, and
  the tokens that have not expired.
* **Gateway**: a request's way through limiter, token, role and handler, for the
  routes of auth and wallets; the routes of transfers and payments are `Engine`. A
  connection has one request at a time. A step is a request, from its last try at the
  limiter up to and including its first database statement: limiter and token come
  before it and touch nothing that other requests could see change in between, except
  the counter, whose value only the limiter looks at, and the token's expiry, which
  only the middleware looks at. `HandleGetTransactions` has two statements and two
  steps. Requests that are refused behind the limiter are counted and change nothing
  else; they are `WithoutEffect`.

**Abstractions.** A UUID is a number: its rank in Go's string order. Requests carry
`IdStrings`, and `ParseUUID` is PostgreSQL's reading of them: several spellings
(upper case, braces, no hyphens) denote one wallet, and the database prints the
canonical one. A wallet's account has the wallet's name. JSON, HMAC,
signatures, timestamps, HTTP text and log lines are left out: a request without key, claims or
body, and an event with a bad signature, are answered before they change anything.
`Submissions`, `Orders` and `Events` are the inputs; any of them may arrive at any
time and again. `Opening` are balances from deposits before the first step, entered
in the ledger accordingly. `ERROR`s of the database that abort a transaction
are one fault, "error"; "ambiguous" is a statement that took effect and whose answer
was lost; "abandon" is a stopped process or a cancelled context.

PostgreSQL itself is external and modelled from how the code uses it: row locks
last until the transaction ends, a unique index makes the second inserter wait for
the first, a foreign key check needs a lock that `FOR UPDATE` excludes and a plain
UPDATE does not, one transaction of a wait cycle is aborted, and the transaction of
a lost session is rolled back.

## 3. Runs

| run | instance | what it shows |
|---|---|---|
| `transfers` | 2 handlers, 3 wallets (one not yet created), 3 competing requests under 2 keys, all faults | money moves at most once per key, as requested and as validated; books agree; no wait cycle; one answer per key; frozen wallets untouched; refines `Bank` |
| `transfers_answers` | a request for every reason to refuse, one of them respelled so that wait cycles happen, `MaxBigint` = 2, faults error and abandon | answers are true, and name the client's own transfer; a balance is only changed by what somebody who may debit the source has asked for |
| `engine` | 2 handlers and a delivery, two spellings of one wallet, a deposit into the wallet that is debited, freezing, no faults, fairness | wait cycles do happen and are resolved; all requests and deliveries end, all keys complete; books agree; implements `Deposits`, so no money appears or vanishes and nothing leaves a frozen wallet |
| `payments` | 2 payments into one wallet, 4 events (one demo, two contradictory), 2 deliveries, all faults, `MaxBigint` = 2, fairness | credited exactly once, refused events leave no trace, acknowledged means recorded, every delivery ends; implements `Deposits` |
| `reconciliation` | 1 handler, 2 wallets, a transfer in either direction, both balances changed by hand, 2 failures of the worker, fairness | no sound wallet is accused; a full pass misses nothing that was wrong when it began; every wrong balance is reported in the end |
| `outbox` | 2 processes, 2 rows, all faults including restarts and a missing broker, fairness | published means delivered; no row is tried without end; once crashes and failing UPDATEs end every event is settled and stays so, unless no process has a worker |
| `gateway` | 2 connections of one origin and a second origin that is silent, a limit of 3 in 2 seconds, 1 retry, 2 users and 3 registrations, with a role of the staff, an unknown one and none, Redis failing, answers lost, fairness | the limiter refuses an origin only after enough requests of its own, bounds every window and recovers; registrations last; tokens agree with `users`; wallets are seen and frozen only by those who may |
| `transfers_respelled` | *violates* `PostedAsRequested` | a source id in another spelling reverses the transfer |
| `transfers_orphan` | *violates* `InProgressHasOwner` | a handler that stops leaves its key in progress for ever |
| `transfers_lost_reply` | *violates* `AnswersTruthful` | a committed transfer is reported, and stored, as a 400 |
| `outbox_shared` | *violates* `NoSharedRow` | two workers select the same row, against the comment that says they cannot |
| `outbox_hard_failure` | *violates* `HardFailureAfterMaxAttempts` | a row is given up at the failure after the one that the comment names |

**Bounds.** Two handlers (deliveries, workers) suffice for the races: every property
relates a key, a row or a pair of rows, and what a third process could do at a lock
the second can do on a later request, since handlers take on request after request.
The theorems of section 5 do away with the bound for the properties they state.
Balances of at most 9 units and amounts of 1 and 2 let two requests compete for the
same money; `MaxBigint` is 2 where a run is to reach the end of the BIGINT column.
`MaxAttempts` is 1 instead of the code's 5, as only its role as a threshold matters;
`RetriesEnd` holds for all values. In `engine` a delivery and two handlers meet at one
wallet; more deliveries at one wallet are the subject of `payments`. In `gateway` a
limit of 3 in 2 seconds is more than one request can use up with its single retry, so
that a refusal takes two requests at least, of one connection or both, and a request
can begin in one window and be counted again in the next; the origin that sends
nothing must stay unlimited. In `reconciliation` one handler suffices, because the
worker sees committed rows only and holds no locks, and `MaxReconFailures` is 2, so
that two may meet in one run; they must stop if anything is to be reported.
`CopiesBound` caps the history counter `copies`, of which the properties only ask
whether it is 0. Handlers are interchangeable, so safety runs use symmetry; runs with
liveness do not.

In `transfers_answers` only one request of each key can succeed: a key that is
used again for another request is discussed in section 6.

**Fairness.** A goroutine runs until its handler returns, so its steps are weakly
fair; a failure is never fair. A lock is strongly fair: PostgreSQL queues waiting
sessions, so a session does not miss a lock that is released again and again. The
deadlock detector is weakly fair: it runs after `deadlock_timeout`. In `outbox` time
passes, processes are started, with a broker or without, and `Publish` returns, with
success or with an error: the model does not assume that it ever succeeds. That it
returns is an assumption about the Kafka client: the worker's context has no deadline,
so `ProduceSync` returns only when the client has delivered the record or given it up.
`EveryEventSettles` has its hypothesis in the formula: from some time on no process
stops and no UPDATE fails, as no worker could settle anything otherwise. In `gateway`
only the clock is fair. In `reconciliation` only the worker is fair: its ticker fires,
and a process that stopped is started again.

**Mutants.** Each property of a passing run has a mutant, an operator next to the
definition it replaces, that changes it as a plausible bug would: `SELECT` without
`FOR UPDATE`, `ON CONFLICT DO UPDATE`, a missing rollback, a dropped check.

## 4. Hazards

`PROJECT.json` lists them with the line where each bites and the properties that would
catch it. They follow section 1: the window between read and write, the gap between
the transfer's transaction and its key's completion, the ambiguous COMMIT, the
duplicate that overtakes its original, the event that overtakes its payment, the
worker that crashes between publishing and marking, the deposit that meets a transfer
at one row, the end of a window, the request that is counted twice, the token that
outlives what it says. Those of the frontend are listed with a note.

## 5. Proofs

All theorems hold for any sets of handlers, deliveries, workers, keys, wallets and
requests, any balances, limits and thresholds, and all faults, from the assumptions
named in the modules that declare the constants. Each is `Spec => []P` for the
specification of its component, or `Spec => P` where `P` is an action property or a
refinement.

| module | theorem | property |
|---|---|---|
| `TransfersProofs` | `TypeCorrect` | `TypeOK`: in particular balances stay in 0 .. `MaxBigint` |
| | `NoDoubleTransfer` | `AtMostOncePerKey` |
| | `ValidationProtected` | `ValidationStillHolds` |
| | `BooksAgree` | `BalanceMatchesLedger` |
| | `FrozenIsSafe` | `FrozenUntouched` |
| | `CompletedIsFinal` | `CompletedNeverChanges` |
| | `DeadlockFree` | `NoDeadlock`, if `CanonicalIds` |
| | `ImplementsBank` | `BankSpec`, if `CanonicalIds` |
| `AnswersProofs` | `OneAnswerPerKey` | `SingleAnswerPerKey` |
| | `AnswersAreTrue` | `AnswersTruthful`, if no fault is "ambiguous" |
| | `PostedOnceAsRequested` | `PostedAsRequested`, if `CanonicalSources` |
| | `MoneyMovesAsAsked` | `MovedAsAsked`, if `CanonicalSources` |
| | `AnswersAreForTheAsker` | `AnswersAreOwn`, if `KeysNameTransfers` |
| `PaymentsProofs` | `PaymentsTypeCorrect` | `PaymentsTypeOK` |
| | `RecordedIsApplied` | `RecordedMeansApplied` |
| | `AcknowledgedIsRecorded` | `AcknowledgedMeansRecorded` |
| | `CreditedOnce` | `CreditedExactlyOnce` |
| | `PaymentsBooksAgree` | `BalanceMatchesLedger` |
| | `UnseededCreditsNothing` | without the platform's account no payment becomes SUCCEEDED and no wallet is credited |
| | `ImplementsDeposits` | `DepositsSpec` |
| `EngineProofs` | `EngineBooksAgree` | `BalanceMatchesLedger` of transfers and webhooks together |
| | `EngineImplementsBank` | `EngineIsABank`, if `CanonicalSources` |
| `ReconciliationProofs` | `NobodyAccused` | `NoFalseAlarm` |
| | `PassedMeansRight` | `FullPassIsSound` |
| `OutboxProofs` | `OutboxTypeCorrect` | `OutboxTypeOK` |
| | `PublishedIsDelivered` | `PublishedWasDelivered` |
| | `RetriesEnd` | `RetriesBounded` |
| | `SettledForGood` | `SettledStays` |
| `GatewayProofs` | `GatewayTypeCorrect` | `GatewayTypeOK` |
| | `BurstsAreBounded`, `RefusedForOwnRequests` | `BurstBounded`, `LimitedOnlyBySelf` |
| | `RegistrationLasts`, `TokensAreTrue` | `RegisteredForGood`, `TokensSpeakForUsers` |
| | `RolesAreKept` | `ActedWithinRole` |

**Hypotheses.** `CanonicalIds` (every id string of a request is a canonical spelling
or denotes no wallet) and the weaker `CanonicalSources` (so are those of the sources)
exclude what `transfers_respelled` shows; `DeadlockFree` needs the stronger one, and
`engine`, with a respelled destination, has real cycles to resolve. Without "ambiguous"
excluded `AnswersAreTrue` is false, as `transfers_lost_reply` shows. `KeysNameTransfers`
says that the key of a request that can succeed is used for no other transfer: the
code never compares the payload it stores, see section 6.

**Transfers.** The argument has four inductive invariants.

* `TypeInv` = `TypeOK` and `PathInv`. Types alone are not inductive: a handler at
  `commit` updates the balances of the wallets it has locked, so one must know that
  they *are* wallets and that they differ.
* `KeyInv`: a handler past `TryAcquire` works on a key that is IN_PROGRESS, no two
  handlers on the same key, the key of a handler before its commit has no
  transfer, and every transfer's key has a row. `AtMostOncePerKey` follows at the
  one step that appends a transfer. That keys are never freed is what carries the
  argument, and it is also why an orphan stays one.
* `LockInv`: what a handler past a lock has read is still what the row holds; it
  holds these locks and no others; what it has validated and the balances it will
  write are computed from current ones. Another handler cannot have locked the
  row, and freezing waits for the lock.
* `BooksInv`: `BalanceMatchesLedger`, and a wallet without a row is empty. It uses
  `LockInv` at the commit.

`DeadlockFree` looks at the handler of a cycle whose first lock is least. Somebody
in the cycle waits for a lock of that handler, which can only be its first one, and
holds a smaller lock already: under `CanonicalIds` the order of the strings is the
order of the rows.

**Answers.** A key's story ends with its first final answer. `AnswerInv` says that a
response that is about to be sent, is stored, or was sent, tells the truth about its
key, and that a key with an answer is owned by no handler any more: if `Complete`
failed, the key stays IN_PROGRESS and nobody can answer it differently. `PostedInv` adds
to `PostedAsRequested` that no entry refers to a transfer yet to come; `RequestedInv`,
that a handler past the ownership check serves somebody who may debit the source, and that
every transfer was asked for by such a caller. `MoneyMovesAsAsked` joins the two: each
posting moves the amount of a transfer from its source to its destination, and that
transfer is one that was asked for. A respelled source breaks the first half, hence the
hypothesis.

**Payments.** `PayInv` is to webhooks what `LockInv` is to transfers: a delivery past
its INSERT holds an event that is not yet recorded; one past the payment's lock holds
a payment that is still PROCESSING; one past the wallet's lock has computed its
balance from the current one. With it, a recorded event has put its payment into a
status that is never left, and `CreditedExactlyOnce` is inductive: a payment is
credited by the step that takes it out of PROCESSING, and by no other.
`UnseededCreditsNothing` is about a database as the migrations leave it: that step
then violates a foreign key. The many ways a delivery can end are first reduced to six
kinds of steps (`DeliveryKinds`), and everything else is proved about those.

**Engine.** Transfers and webhooks share nothing but the tables of `Database`. One
lemma says that a step of one session leaves every other session's locks and the rows
it has locked alone (`Undisturbed`); from it the invariants of each component survive
the steps of the other, and `EngineInv` is their conjunction.

**Reconciliation.** The two queries add up the entries of the whole ledger. The lemmas
show that on a ledger of any length `LedgerTotal` is `Net`, and that debits equal
credits. `EngineKept` then says that every balance is off by exactly what was
changed by hand, because a commit moves balance and ledger by the same amount
(`CommitMovesBoth`), and a change by hand waits for the row's lock. So what the scan
finds is what was changed, and nothing that was wrong at the start of the run can have
become right.

**Outbox.** `OutboxInv` says that a worker with
something to publish or to mark has a row in hand, and that one about to mark a row as
published has delivered it.
The properties hold although two workers may have the same row, which is why
they are stated about the row and not about the worker. For `RetriesEnd`, `RetryInv`
weighs the attempts of a row against the workers that hold it: a row with more than
`MaxAttempts` is PUBLISHED or FAILED and finds no new holder, and its attempts and holders
together are never more than `MaxAttempts` and the number of workers, because whoever
counts a failure lets go of the row. It needs the number of workers to be finite, and
`BatchesSorted`: no batch has a row twice.

**Gateway.** `LimiterInv` relates the counter to the history: a window that opened some
seconds ago is seen by every stretch that reaches back that far, with all of its
runs, and a shorter one misses at least the run that opened the window. That
missing run is the difference between twice the limit and one less (`CounterInv`).
`CallInv` counts runs per request: in any stretch of time the requests seen, at
`RunsPerRequest` each, account for the runs seen and for those that the requests
still under way have to spare. `AuthInv` and
`HandlerInv` say that rows of `users` are never changed, so what a token says, and what
`GetTransactions` decided before its second statement, stays true.

**Sums.** The library's rules of induction take a formula as a parameter, which no
installed prover can instantiate. Statements about the whole ledger are proved without
them: a fold over a sequence is the last of a list of running sums, and that it is, and
that one more posting adds its effect to the sum (`NetOfAppend`, `NetPost`), is shown
by looking at a least counterexample, whose existence is a theorem about natural
numbers (`LeastNatural`). `DatabaseProofs` has the general lemmas (`FoldExists`,
`FoldExtends`, `FoldValue`).

**Only model-checked**: the liveness properties `EveryRequestEnds`, `KeysComplete`,
`EveryDeliveryEnds`, `CorruptionReported`, `EveryEventSettles` and `LimitRecovers`.
Fairness and `ENABLED` are outside what the prover handles. The 64-bit totals of
`Ledger` have no theorem of their own: they are part of the guards of the commits.

## 6. Findings and observations

The five violating runs, of transfers and of the outbox, are the findings;
`PROJECT.json` quotes the lines. Further things met while modelling that no run stands
for:

* A key may be used again for a different request, by a different user: the stored
  payload is never compared, and the first request's 201 is the answer
  (`transfers/handler.go:64`).
* Two spellings of an id defeat the lock order (`transfers/service.go:66`); the
  database's detector then aborts one transfer, which is answered, and stored, as
  a 400.
* Neither `CreatePayment` nor `ProcessWebhook` compares the payment's currency with
  the wallet's, so an amount in one currency is added to a balance in another
  (`payments/service.go:133`). For transfers the
  currency is a guard of `Bank`.
* `CheckWalletBalances` does not look at `rows.Err()`: a scan that breaks off counts
  as complete, and its run may be PASSED although a wallet it did not read is wrong.
  Only `wallets_checked` tells, which is why `FullPassIsSound` mentions it.
* `RunReconciliation` formats `mismatch["expected"]` and `mismatch["actual"]`, which
  `CheckWalletBalances` does not set, so the details of an item say nothing.
* A run whose `CompleteRun` fails, or whose process stops, stays IN_PROGRESS.
* `ProcessWebhook` does not look at the wallet's status: a frozen wallet receives
  deposits. No document says whether it should; `Deposits` says so, and that
  nothing else changes a frozen wallet.
* `CreatePayment` calls the provider before it records anything; if the INSERT
  fails, the provider's events for the payment are refused for ever.
* The webhook debits the account whose id is all zeros (`payments/service.go:146`), which
  no migration or script creates. On a fresh database the entry violates its
  foreign key and no payment can succeed: `UnseededCreditsNothing`. `SeededAccounts` says
  which accounts exist.
* Anybody may register as SYSTEM or ADMIN: the role is the one of the request
  (`auth/handler.go:31`, `auth/service.go:33`), and `users.role` has no CHECK. What
  `ActedWithinRole` keeps for the staff is thus open to all who ask.
* A late `MarkFailed` can reopen a row that another worker has published, which is why
  `SettledStays` speaks of rows that nobody has in hand.
* If Kafka does not answer when the process starts, no worker is started, and
  nothing tries again.
* `CreateTransaction` adds up amounts in 64 bits without an overflow check. Its two
  callers pass one debit and one credit of one amount, which cannot wrap; longer lists
  could.
* `Allow` is a fixed window, although its comment says token bucket: up to one less than
  twice the limit passes in a minute around the end of a window. The limit is per
  origin, although the comment in `server.go:58` says global; without a proxy's
  header an origin is an address *with its port*, so a new connection has a
  counter of its own. The provider's webhooks and the health checks are
  limited like all other requests.
* A request whose `EVAL` is repeated counts up to 4 times, so an origin with a limit of 100
  can be refused after 25 requests, and a request that was counted can itself be answered
  with a 429. `LimitedOnlyBySelf` says that it takes no less. Requests that pass because Redis
  fails are not all counted, and nothing bounds them: `BurstBounded` is about those that
  the script counted.
* Neither registration nor the creation of a wallet recognises a retry. If the answer of
  the INSERT is lost, a registration is answered with a 500 and its repetition with a
  409, and login works; a wallet is reported as a 400, and its repetition creates a
  second wallet.
* The frontend makes an idempotency key from the time of the click
  (`Dashboard.jsx:93`), so repeating a transfer whose answer was lost is a new transfer.

## 7. Not modelled

* `SetCache` and `GetCache` of the Redis client: nothing calls them.
* The rows that reads return, their order and the `LIMIT 100`: `Gateway` models
  who is shown which wallet.
* `GET /reconciliation`, which reads the table of runs; CORS, request ids.
* Configuration, logging, metrics, connections: no state that the properties depend on.
* The frontend and the scripts: their requests are inputs of the models. What can go
  wrong inside the page is in the list of hazards.
* Loss of committed data by PostgreSQL, Kafka or, for its counters, Redis.

## 8. Plan

1. Done: `Ledger`, `Database`, `Transfers`, `Bank`, `Payments`, `Outbox`,
   `Reconciliation`, `Deposits`, `Engine`, `RateLimiter`, `Auth`, `Gateway`. Every
   operation of the program that changes state and has a caller is an action.
2. Done: theorems for all safety properties and refinements of the passing runs.
3. Next: a theorem that `Accepted` refuses no pair of entries that the two callers pass,
   so that `CreateTransaction` never makes a transfer or a webhook fail by itself; the
   remaining properties of transfers (`AtMostOncePerKey`, the answers) for `Engine`,
   where webhooks run next to them.

--------------------------- MODULE Reconciliation ---------------------------
(***************************************************************************)
(* The reconciliation worker: internal/reconciliation/worker.go and        *)
(* repository.go, reading the tables while the transfer engine writes them.*)
(* Each of its queries is one statement with one snapshot, and there is no *)
(* transaction around them.                                                *)
(*                                                                         *)
(* The engine keeps its books in order.  So that there is something to     *)
(* find, a balance may be changed by hand (Corrupt), once for each wallet. *)
(* The variable run is the latest row of reconciliation_runs; items holds  *)
(* the entities of all the rows of reconciliation_items.                   *)
(***************************************************************************)
EXTENDS Transfers

CONSTANT MaxReconFailures   \* failures of the worker stop after this many

ASSUME ReconciliationAssumption == MaxReconFailures \in Nat /\ IsFiniteSet(Wallets)

VARIABLES
    rpc,            \* where the worker is in RunReconciliation
    run,            \* the latest row of reconciliation_runs
    local,          \* the worker's variables: the row it is going to write
    todo,           \* wallets whose mismatch is still to be recorded
    items,          \* entities reported in reconciliation_items
    failures,       \* how many failures there have been
    corrupted,      \* history: the wallets changed by hand
    wrongAtStart    \* history: those that were wrong when the run began

workerVars == << rpc, run, local, todo, items, failures, wrongAtStart >>
reconVars == << workerVars, corrupted >>

NewRun == [status |-> "IN_PROGRESS", wallets |-> 0, txns |-> 0, mismatches |-> 0]

ReconInit ==
    /\ Init
    /\ rpc = "wait"
    /\ run = NewRun
    /\ local = NewRun
    /\ todo = {}
    /\ items = {}
    /\ failures = 0
    /\ corrupted = {}
    /\ wrongAtStart = {}

-----------------------------------------------------------------------------
(* What the two queries compute. *)

\* Table ledger_entries, without the deposits before the first state: entry
\* 2 * n - 1 is the debit of ledger transaction n, and entry 2 * n its credit.
Entries ==
    [i \in 1 .. 2 * Len(ledger) |->
        LET t == ledger[(i + 1) \div 2] IN
        DoubleEntry(t.debit, t.credit, t.amount, t.currency)[2 - (i % 2)]]

\* CASE WHEN direction = ... THEN amount ELSE 0 END, for entries of these accounts.
Counted(e, direction, accounts) ==
    IF e.direction = direction /\ e.account \in accounts THEN e.amount ELSE 0

SumWhere(direction, accounts) ==
    FoldLeft(LAMBDA sum, e : sum + Counted(e, direction, accounts), 0, Entries)

Imbalanced == SumWhere("DEBIT", Accounts) # SumWhere("CREDIT", Accounts)

\* Mutant: the debits are not subtracted.
LedgerTotalOfCredits(w) == Opening[w] + SumWhere("CREDIT", {w})

LedgerTotal(w) == Opening[w] + SumWhere("CREDIT", {w}) - SumWhere("DEBIT", {w})

\* Mutant: WHERE w.status = 'ACTIVE'.
MismatchesOfActive(scanned) ==
    {w \in scanned : status[w] = "ACTIVE" /\ balance[w] # LedgerTotal(w)}

Mismatches(scanned) == {w \in scanned : balance[w] # LedgerTotal(w)}

-----------------------------------------------------------------------------
(* RunReconciliation, at the start and then every hour. *)

Fault == failures < MaxReconFailures /\ failures' = failures + 1

\* If the INSERT fails, the worker waits for the next tick.
CreateRun ==
    /\ rpc = "wait"
    /\ run' = NewRun
    /\ local' = [NewRun EXCEPT !.status = "PASSED"]
    /\ rpc' = "global"
    /\ wrongAtStart' = corrupted
    /\ UNCHANGED << todo, items, failures >>

\* An imbalance fails the run.  It is recorded unless its INSERT fails, which is
\* ignored.
CheckGlobalLedgerBalance ==
    /\ rpc = "global"
    /\ local' = [local EXCEPT !.txns = Len(ledger),
                              !.status = IF Imbalanced THEN "FAILED" ELSE @,
                              !.mismatches = IF Imbalanced THEN @ + 1 ELSE @]
    /\ items' \in (IF Imbalanced THEN {items, items \cup {PlatformAccount}} ELSE {items})
    /\ rpc' = "wallets"
    /\ UNCHANGED << run, todo, failures, wrongAtStart >>

\* The rows of these wallets have been read and compared.
Scan(scanned) ==
    /\ todo' = Mismatches(scanned)
    /\ local' = [local EXCEPT !.wallets = Cardinality(scanned),
                              !.status = IF todo' # {} THEN "FAILED" ELSE @,
                              !.mismatches = @ + Cardinality(todo')]
    /\ rpc' = IF todo' # {} THEN "record" ELSE "complete"
    /\ UNCHANGED << run, items, wrongAtStart >>

CheckWalletBalances ==
    /\ rpc = "wallets"
    /\ Scan({w \in Wallets : status[w] # "ABSENT"})
    /\ UNCHANGED failures

\* The connection breaks while rows are read.  rows.Next() returns false, and
\* nobody looks at rows.Err().
ScanBreaksOff ==
    /\ rpc = "wallets"
    /\ \E scanned \in SUBSET {w \in Wallets : status[w] # "ABSENT"} : Scan(scanned)
    /\ Fault

\* A query returns an error: the run is completed as FAILED, with the counts
\* it has by then.
CheckFails ==
    /\ rpc \in {"global", "wallets"}
    /\ local' = [local EXCEPT !.status = "FAILED"]
    /\ rpc' = "complete"
    /\ Fault
    /\ UNCHANGED << run, todo, items, wrongAtStart >>

\* The loop has dealt with wallet w.
NextMismatch(w) ==
    /\ todo' = todo \ {w}
    /\ rpc' = IF todo' # {} THEN "record" ELSE "complete"

\* Mutant: the loop ends after the first mismatch.
RecordFirstMismatch(w) ==
    /\ rpc = "record"
    /\ w \in todo
    /\ items' = items \cup {w}
    /\ todo' = {}
    /\ rpc' = "complete"
    /\ UNCHANGED << run, local, failures, wrongAtStart >>

RecordMismatch(w) ==
    /\ rpc = "record"
    /\ w \in todo
    /\ items' = items \cup {w}
    /\ NextMismatch(w)
    /\ UNCHANGED << run, local, failures, wrongAtStart >>

\* _ = RecordMismatch(...): the error is ignored.
RecordMismatchFails(w) ==
    /\ rpc = "record"
    /\ w \in todo
    /\ NextMismatch(w)
    /\ Fault
    /\ UNCHANGED << run, local, items, wrongAtStart >>

CompleteRun ==
    /\ rpc = "complete"
    /\ run' = local
    /\ local' = NewRun
    /\ rpc' = "wait"
    /\ UNCHANGED << todo, items, failures, wrongAtStart >>

\* CompleteRun fails, or the process stops anywhere in the run and is started
\* again: the row stays IN_PROGRESS.
RunAbandoned ==
    /\ rpc # "wait"
    /\ rpc' = "wait"
    /\ local' = NewRun
    /\ todo' = {}
    /\ Fault
    /\ UNCHANGED << run, items, wrongAtStart >>

-----------------------------------------------------------------------------
\* Somebody changes available_balance with an UPDATE of their own.
Corrupt(w) ==
    /\ status[w] # "ABSENT"
    /\ rowLock[w] = NoTx
    /\ w \notin corrupted
    /\ balance[w] < MaxBigint
    /\ balance' = [balance EXCEPT ![w] = @ + 1]
    /\ corrupted' = corrupted \cup {w}
    /\ UNCHANGED << status, rowLock, ledger, outbox, transferVars, workerVars >>

RunStep ==
    \/ CreateRun \/ CheckGlobalLedgerBalance \/ CheckWalletBalances \/ CompleteRun
    \/ \E w \in Wallets : RecordMismatch(w)

RunFailure ==
    \/ ScanBreaksOff \/ CheckFails \/ RunAbandoned
    \/ \E w \in Wallets : RecordMismatchFails(w)

ReconNext ==
    \/ Next /\ UNCHANGED reconVars
    \/ (RunStep \/ RunFailure) /\ UNCHANGED << vars, corrupted >>
    \/ \E w \in Wallets : Corrupt(w)

ReconSpec == ReconInit /\ [][ReconNext]_<< vars, reconVars >>

\* The ticker fires every hour, and a process that stopped is started again.
ReconFairSpec ==
    /\ ReconSpec
    /\ WF_<< vars, reconVars >>(RunStep /\ UNCHANGED << vars, corrupted >>)

-----------------------------------------------------------------------------
(* Properties. *)

(* reconciliation_items names only wallets whose balance really differs from
   their ledger entries, although transfers commit between and during the
   queries, and never the ledger as a whole. *)
NoFalseAlarm == items \subseteq corrupted

(* A run that is PASSED and has checked every wallet began when no balance
   was wrong: nothing that was wrong before it escapes it. *)
FullPassIsSound ==
    run.status = "PASSED" /\ run.wallets = Cardinality(Wallets) => wrongAtStart = {}

(* A wrong balance is reported in the end, whatever runs fail meanwhile, as
   long as failures stop. *)
CorruptionReported == \A w \in Wallets : w \in corrupted ~> w \in items
=============================================================================

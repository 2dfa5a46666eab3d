------------------------------ MODULE Database ------------------------------
(***************************************************************************)
(* The PostgreSQL tables that the transfer engine and the payment service  *)
(* share: wallets, accounts, ledger_transactions with ledger_entries, and  *)
(* outbox_events; and the wallet operations that touch them outside any    *)
(* transfer or payment (create, freeze, unfreeze).                         *)
(*                                                                         *)
(* A wallet is named by the rank of its UUID's canonical spelling in Go's  *)
(* string order, so wallet ids are positive naturals; 0 is the all-zero    *)
(* UUID of the platform account.  A wallet's ledger account has the        *)
(* wallet's own name.  Its owner and its currency never change once the    *)
(* row exists, so they are functions of the name.                          *)
(***************************************************************************)
EXTENDS Ledger

CONSTANTS
    Wallets,        \* the wallets that may come to exist
    Users,          \* user ids of the JWT claims
    Owner,          \* wallets.owner_id
    Currencies,
    CurrencyOf,     \* wallets.currency
    Opening,        \* available_balance at the start, from earlier deposits
    Existing,       \* the wallets that exist at the start
    Sessions,       \* database sessions that run transactions
    NoTx,           \* "no session": the value of an unlocked row's lock
    Faults          \* failures considered, a subset of FaultKinds

PlatformAccount == 0

\* "error": a statement fails without an effect.  "ambiguous": it takes
\* effect and its answer is lost.  "abandon": the process stops, or the
\* request's context ends, so that no later statement of it runs.
FaultKinds == {"error", "ambiguous", "abandon"}

ASSUME WalletsAssumption ==
    /\ Wallets \subseteq Nat \ {PlatformAccount}
    /\ Existing \subseteq Wallets
    /\ Owner \in [Wallets -> Users]
    /\ CurrencyOf \in [Wallets -> Currencies]
    /\ Opening \in [Wallets -> 0 .. MaxBigint]
    /\ \A w \in Wallets \ Existing : Opening[w] = 0
    /\ NoTx \notin Sessions
    /\ Faults \subseteq FaultKinds

VARIABLES
    balance,    \* wallets.available_balance, committed
    status,     \* wallets.status, or "ABSENT" when there is no row
    rowLock,    \* the session holding the wallet row's lock
    ledger,     \* the committed ledger transactions, oldest first
    outbox      \* the committed outbox events, oldest first

dbVars == << balance, status, rowLock, ledger, outbox >>

Accounts == Wallets \cup {PlatformAccount}

WalletStatus == {"ABSENT", "ACTIVE", "FROZEN"}

LedgerTxn == [type : {"TRANSFER", "PAYMENT"}, ref : Nat, debit : Accounts,
              credit : Accounts, amount : Nat, currency : Currencies]

OutboxEvent == [topic : {"transfer.events", "payment.events"}, ref : Nat]

DbTypeOK ==
    /\ balance \in [Wallets -> 0 .. MaxBigint]
    /\ status \in [Wallets -> WalletStatus]
    /\ rowLock \in [Wallets -> Sessions \cup {NoTx}]
    /\ ledger \in Seq(LedgerTxn)
    /\ outbox \in Seq(OutboxEvent)

DbInit ==
    /\ balance = Opening
    /\ status = [w \in Wallets |-> IF w \in Existing THEN "ACTIVE" ELSE "ABSENT"]
    /\ rowLock = [w \in Wallets |-> NoTx]
    /\ ledger = << >>
    /\ outbox = << >>

-----------------------------------------------------------------------------
(* Pieces of transactions. *)

\* Mutant: SELECT without FOR UPDATE, which waits for nobody.
CanLockUnlocked(session, w) == TRUE

\* A row lock is free for a session that holds it already.
CanLock(session, w) == rowLock[w] \in {NoTx, session}

\* COMMIT and ROLLBACK give back every row lock of the session.
ReleaseLocks(session) ==
    rowLock' = [w \in Wallets |-> IF rowLock[w] = session THEN NoTx ELSE rowLock[w]]

\* The rows CreateTransaction inserts for one debit and one credit.
PostLedger(type, ref, debit, credit, amount, currency) ==
    ledger' = Append(ledger, [type |-> type, ref |-> ref, debit |-> debit,
                              credit |-> credit, amount |-> amount,
                              currency |-> currency])

\* The row InsertEvent inserts.
InsertEvent(topic, ref) ==
    outbox' = Append(outbox, [topic |-> topic, ref |-> ref])

-----------------------------------------------------------------------------
(* Wallet operations, one committed transaction each. *)

\* The wallet and its account appear together, empty and ACTIVE.
CreateWallet(w) ==
    /\ status[w] = "ABSENT"
    /\ status' = [status EXCEPT ![w] = "ACTIVE"]
    /\ balance' = [balance EXCEPT ![w] = 0]
    /\ UNCHANGED << rowLock, ledger, outbox >>

\* FreezeWallet and UnfreezeWallet.  The UPDATE waits for the row's lock; of
\* a wallet that does not exist it changes no row.
UpdateWalletStatus(w, newStatus) ==
    /\ status[w] # "ABSENT"
    /\ rowLock[w] = NoTx
    /\ status' = [status EXCEPT ![w] = newStatus]
    /\ UNCHANGED << balance, rowLock, ledger, outbox >>

WalletStep(w) ==
    \/ CreateWallet(w)
    \/ UpdateWalletStatus(w, "FROZEN")
    \/ UpdateWalletStatus(w, "ACTIVE")
-----------------------------------------------------------------------------
(* Properties of the books, whoever writes them. *)

\* The effect of ledger transaction t on account a.
Effect(t, a) ==
    (IF t.credit = a THEN t.amount ELSE 0) - (IF t.debit = a THEN t.amount ELSE 0)

\* What an account has before the first ledger transaction.
OpeningOf(a) == IF a \in Wallets THEN Opening[a] ELSE 0

\* What the entries of these ledger transactions add up to for account a.
NetOf(entries, a) == FoldLeft(LAMBDA sum, t : sum + Effect(t, a), OpeningOf(a), entries)

\* Credits minus debits of every account.
Net == [a \in Accounts |-> NetOf(ledger, a)]

(* available_balance is the net of the account's ledger entries: the check of
   the reconciliation job, at every moment and not once an hour. *)
BalanceMatchesLedger == \A w \in Wallets : balance[w] = Net[w]
=============================================================================

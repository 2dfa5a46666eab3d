------------------------ MODULE ReconciliationProofs ------------------------
(***************************************************************************)
(* What the two queries of the reconciliation worker compute on a ledger   *)
(* of any length, and from it: the worker accuses no wallet whose balance  *)
(* is right, and a run that passes misses none that was wrong when the run *)
(* began.                                                                  *)
(***************************************************************************)
EXTENDS Reconciliation, TransfersProofs, FiniteSetTheorems

USE DEF NoWallet, PlatformAccount

-----------------------------------------------------------------------------
(* The sums of the queries. *)

\* The number of rows of ledger_entries.
EntryCount == 2 * Len(ledger)

\* What one SUM adds up.
Amounts(direction, accounts) ==
    [i \in 1 .. EntryCount |-> Counted(Entries[i], direction, accounts)]

\* The two entries of ledger transaction t.
DebitOf(t) == [account |-> t.debit, amount |-> t.amount,
               direction |-> "DEBIT", currency |-> t.currency]
CreditOf(t) == [account |-> t.credit, amount |-> t.amount,
                direction |-> "CREDIT", currency |-> t.currency]

\* Each ledger transaction has its debit in the table and then its credit.
LEMMA EntryPair ==
    ASSUME DbTypeOK, NEW i \in 1 .. Len(ledger)
    PROVE  Entries[2 * i - 1] = DebitOf(ledger[i]) /\ Entries[2 * i] = CreditOf(ledger[i])
<1>1. Len(ledger) \in Nat /\ 2 * i - 1 \in 1 .. EntryCount /\ 2 * i \in 1 .. EntryCount
  BY DEF DbTypeOK, EntryCount
<1>2. /\ ((2 * i - 1) + 1) \div 2 = i /\ (2 * i + 1) \div 2 = i
      /\ 2 - ((2 * i - 1) % 2) = 1 /\ 2 - ((2 * i) % 2) = 2
  OBVIOUS
<1>3. Entries[2 * i - 1] = DoubleEntry(ledger[i].debit, ledger[i].credit, ledger[i].amount,
                                       ledger[i].currency)[1]
  BY <1>1, <1>2 DEF Entries, EntryCount
<1>4. Entries[2 * i] = DoubleEntry(ledger[i].debit, ledger[i].credit, ledger[i].amount,
                                   ledger[i].currency)[2]
  BY <1>1, <1>2 DEF Entries, EntryCount
<1> QED  BY <1>3, <1>4 DEF DoubleEntry, DebitOf, CreditOf

\* The amount of a ledger transaction, and of its entries, is a natural number.
LEMMA AmountNat ==
    ASSUME DbTypeOK, NEW i \in 1 .. Len(ledger)
    PROVE  /\ ledger[i].amount \in Nat
           /\ Entries[2 * i - 1].amount \in Nat /\ Entries[2 * i].amount \in Nat
<1>1. ledger[i] \in LedgerTxn
  BY DEF DbTypeOK
<1>2. ledger[i].amount \in Nat
  BY <1>1 DEF LedgerTxn
<1>3. Entries[2 * i - 1] = DebitOf(ledger[i]) /\ Entries[2 * i] = CreditOf(ledger[i])
  BY EntryPair
<1>4. DebitOf(ledger[i]).amount = ledger[i].amount /\ CreditOf(ledger[i]).amount = ledger[i].amount
  BY DEF DebitOf, CreditOf
<1> QED  BY <1>2, <1>3, <1>4

\* So is what a SUM adds for an entry.
LEMMA AmountsType ==
    ASSUME DbTypeOK, NEW direction, NEW accounts
    PROVE  Amounts(direction, accounts) \in [1 .. EntryCount -> Int]
<1> SUFFICES ASSUME NEW k \in 1 .. EntryCount
             PROVE  Counted(Entries[k], direction, accounts) \in Int
  BY DEF Amounts
<1> DEFINE i == (k + 1) \div 2
<1>1. Len(ledger) \in Nat /\ ledger \in Seq(LedgerTxn)
  BY DEF DbTypeOK
<1>2. i \in 1 .. Len(ledger) /\ (k = 2 * i - 1 \/ k = 2 * i)
  BY <1>1 DEF EntryCount
<1> HIDE DEF i
<1>3. Entries[k].amount \in Nat
  BY <1>2, AmountNat
<1> QED  BY <1>3 DEF Counted

\* The function that FoldLeft evaluates for SumWhere.
EntryFold(g, direction, accounts) ==
    g = [s \in SUBSET (1 .. EntryCount) |->
            IF s = {} THEN 0
            ELSE g[s \ {Max(s)}] + Counted(Entries[Max(s)], direction, accounts)]

\* It adds up the amounts.
LEMMA EntryFoldIsFold ==
    ASSUME DbTypeOK, NEW direction, NEW accounts, NEW g
    PROVE  EntryFold(g, direction, accounts)
              <=> IsFold(g, EntryCount, 0, Amounts(direction, accounts))
<1> DEFINE n == EntryCount
<1>1. n \in Nat
  BY DEF DbTypeOK, EntryCount
<1>2. \A s \in SUBSET (1 .. n) :
          s # {} => Amounts(direction, accounts)[Max(s)]
                        = Counted(Entries[Max(s)], direction, accounts)
  <2> HIDE DEF n
  <2>1. \A s \in SUBSET (1 .. n) : s # {} => Max(s) \in 1 .. n
    BY <1>1, MaxOfBounded
  <2> QED  BY <2>1 DEF Amounts, n
<1>3. [s \in SUBSET (1 .. n) |->
          IF s = {} THEN 0 ELSE g[s \ {Max(s)}] + Counted(Entries[Max(s)], direction, accounts)]
      = [s \in SUBSET (1 .. n) |->
          IF s = {} THEN 0 ELSE g[s \ {Max(s)}] + Amounts(direction, accounts)[Max(s)]]
  BY <1>2
<1> QED  BY <1>3 DEF EntryFold, IsFold

\* What FoldLeft computes from the entries.
LEMMA SumWhereIsFold ==
    ASSUME NEW direction, NEW accounts
    PROVE  SumWhere(direction, accounts)
           = (CHOOSE g : EntryFold(g, direction, accounts))[1 .. EntryCount]
<1>1. DOMAIN Entries = 1 .. EntryCount
  BY DEF Entries, EntryCount
<1> QED  BY <1>1 DEF SumWhere, FoldLeft, MapThenFoldSet, EntryFold

\* A SUM is the last of its running sums.
LEMMA SumWhereIsRunning ==
    ASSUME DbTypeOK, NEW direction, NEW accounts, NEW sums,
           Running(sums, EntryCount, 0, Amounts(direction, accounts))
    PROVE  SumWhere(direction, accounts) = sums[EntryCount]
<1>1. EntryCount \in Nat
  BY DEF DbTypeOK, EntryCount
<1> DEFINE g == CHOOSE g : EntryFold(g, direction, accounts)
<1>2. EntryFold(g, direction, accounts)
  BY <1>1, FoldExists, EntryFoldIsFold
<1> HIDE DEF g
<1>3. IsFold(g, EntryCount, 0, Amounts(direction, accounts))
  BY <1>2, EntryFoldIsFold
<1>4. g[1 .. EntryCount] = sums[EntryCount]
  BY <1>1, <1>3, FoldValue
<1> QED  BY <1>4, SumWhereIsFold DEF g

\* What ledger transaction t adds to the credits, and to the debits, of accounts.
CreditIn(t, accounts) == IF t.credit \in accounts THEN t.amount ELSE 0
DebitIn(t, accounts) == IF t.debit \in accounts THEN t.amount ELSE 0

\* Over the two entries of one ledger transaction, each SUM grows by its amount
\* if the account is among those it looks at.
LEMMA PairSums ==
    ASSUME DbTypeOK, NEW accounts, NEW i \in 1 .. Len(ledger),
           NEW c \in [0 .. EntryCount -> Int], NEW d \in [0 .. EntryCount -> Int],
           Running(c, EntryCount, 0, Amounts("CREDIT", accounts)),
           Running(d, EntryCount, 0, Amounts("DEBIT", accounts))
    PROVE  /\ c[2 * i] = c[2 * (i - 1)] + CreditIn(ledger[i], accounts)
           /\ d[2 * i] = d[2 * (i - 1)] + DebitIn(ledger[i], accounts)
<1> DEFINE n == EntryCount
           j == 2 * i - 1
<1>1. n \in Nat /\ j \in 1 .. n /\ j + 1 \in 1 .. n /\ j + 1 = 2 * i /\ j - 1 = 2 * (i - 1)
  BY DEF DbTypeOK, EntryCount
<1>2. /\ Amounts("DEBIT", accounts)[j] = DebitIn(ledger[i], accounts)
      /\ Amounts("CREDIT", accounts)[j] = 0
      /\ Amounts("DEBIT", accounts)[j + 1] = 0
      /\ Amounts("CREDIT", accounts)[j + 1] = CreditIn(ledger[i], accounts)
  <2>1. Entries[j] = DebitOf(ledger[i]) /\ Entries[j + 1] = CreditOf(ledger[i])
    BY <1>1, EntryPair
  <2>2. \A direction :
            /\ Amounts(direction, accounts)[j] = Counted(DebitOf(ledger[i]), direction, accounts)
            /\ Amounts(direction, accounts)[j + 1] = Counted(CreditOf(ledger[i]), direction, accounts)
    BY <1>1, <2>1 DEF Amounts
  <2> HIDE DEF j
  <2> QED  BY <2>2 DEF Counted, DebitOf, CreditOf, CreditIn, DebitIn
<1>3. CreditIn(ledger[i], accounts) \in Int /\ DebitIn(ledger[i], accounts) \in Int
  BY AmountNat DEF CreditIn, DebitIn
<1> HIDE DEF n, j
<1>4. /\ c[j] = c[j - 1] + Amounts("CREDIT", accounts)[j]
      /\ d[j] = d[j - 1] + Amounts("DEBIT", accounts)[j]
  BY <1>1 DEF Running, n
<1>5. /\ c[j + 1] = c[(j + 1) - 1] + Amounts("CREDIT", accounts)[j + 1]
      /\ d[j + 1] = d[(j + 1) - 1] + Amounts("DEBIT", accounts)[j + 1]
  BY <1>1 DEF Running, n
<1>6. (j + 1) - 1 = j /\ j \in 0 .. n /\ j - 1 \in 0 .. n
  BY <1>1
<1>7. c[j - 1] \in Int /\ d[j - 1] \in Int
  BY <1>6 DEF n
<1> QED  BY <1>1, <1>2, <1>3, <1>4, <1>5, <1>6, <1>7

\* sums lists a number that each transaction of the ledger changes by the
\* difference of the two.
Grows(sums, base, accounts) ==
    /\ sums[0] = base
    /\ \A i \in 1 .. Len(ledger) :
          sums[i] = sums[i - 1] + (CreditIn(ledger[i], accounts) - DebitIn(ledger[i], accounts))

\* The credits less the debits of some accounts change like that, so they end
\* where sums ends.
LEMMA CreditsLessDebits ==
    ASSUME DbTypeOK, NEW accounts, NEW base \in Int, NEW sums \in [0 .. Len(ledger) -> Int],
           Grows(sums, base, accounts)
    PROVE  /\ SumWhere("CREDIT", accounts) \in Int /\ SumWhere("DEBIT", accounts) \in Int
           /\ base + SumWhere("CREDIT", accounts) - SumWhere("DEBIT", accounts) = sums[Len(ledger)]
<1> DEFINE n == Len(ledger)
<1>1. n \in Nat /\ EntryCount \in Nat /\ EntryCount = 2 * n
  BY DEF DbTypeOK, EntryCount
<1>2. PICK c \in [0 .. EntryCount -> Int] : Running(c, EntryCount, 0, Amounts("CREDIT", accounts))
  <2>1. Amounts("CREDIT", accounts) \in [1 .. EntryCount -> Int] /\ 0 \in Int
    BY AmountsType
  <2> QED  BY <1>1, <2>1, RunningExists, Zenon
<1>3. PICK d \in [0 .. EntryCount -> Int] : Running(d, EntryCount, 0, Amounts("DEBIT", accounts))
  <2>1. Amounts("DEBIT", accounts) \in [1 .. EntryCount -> Int] /\ 0 \in Int
    BY AmountsType
  <2> QED  BY <1>1, <2>1, RunningExists, Zenon
<1> DEFINE Wrong == {i \in 0 .. n : base + c[2 * i] - d[2 * i] # sums[i]}
<1>4. ASSUME NEW i \in 1 .. n, i - 1 \notin Wrong PROVE i \notin Wrong
  <2>1. i - 1 \in 0 .. n /\ 2 * (i - 1) \in 0 .. EntryCount
    BY <1>1
  <2>2. base + c[2 * (i - 1)] - d[2 * (i - 1)] = sums[i - 1]
    BY <1>4, <2>1
  <2> DEFINE x == CreditIn(ledger[i], accounts)
             y == DebitIn(ledger[i], accounts)
  <2>3. c[2 * i] = c[2 * (i - 1)] + x /\ d[2 * i] = d[2 * (i - 1)] + y
    <3>1. c \in [0 .. EntryCount -> Int] /\ Running(c, EntryCount, 0, Amounts("CREDIT", accounts))
      BY <1>2
    <3>2. d \in [0 .. EntryCount -> Int] /\ Running(d, EntryCount, 0, Amounts("DEBIT", accounts))
      BY <1>3
    <3>3. i \in 1 .. Len(ledger)
      OBVIOUS
    <3> HIDE DEF Wrong
    <3> QED  BY <3>1, <3>2, <3>3, PairSums, Zenon
  <2>4. sums[i] = sums[i - 1] + (x - y)
    BY DEF Grows
  <2>5. x \in Int /\ y \in Int
    BY AmountNat DEF CreditIn, DebitIn
  <2>6. c[2 * (i - 1)] \in Int /\ d[2 * (i - 1)] \in Int /\ sums[i - 1] \in Int
    BY <2>1
  <2>7. base + c[2 * i] - d[2 * i] = sums[i]
    <3> HIDE DEF Wrong, x, y
    <3>1. PICK a \in Int, b \in Int, e \in Int :
              a = c[2 * (i - 1)] /\ b = d[2 * (i - 1)] /\ e = sums[i - 1]
      BY <2>6
    <3>2. base + a - b = e /\ c[2 * i] = a + x /\ d[2 * i] = b + y /\ sums[i] = e + (x - y)
      BY <2>2, <2>3, <2>4, <3>1
    <3> QED  BY <2>5, <3>2
  <2> QED  BY <2>7
<1>5. 0 \notin Wrong
  <2>1. c[0] = 0 /\ d[0] = 0 /\ 2 * 0 = 0
    BY <1>2, <1>3 DEF Running
  <2> QED  BY <2>1 DEF Grows
<1>6. Wrong \subseteq 0 .. n
  OBVIOUS
<1>7. n \notin Wrong
  <2> HIDE DEF Wrong, n
  <2> SUFFICES ASSUME Wrong # {} PROVE FALSE
    OBVIOUS
  <2>1. PICK i \in Wrong : \A j \in Wrong : i <= j
    <3>1. Wrong \subseteq Nat
      BY <1>1, <1>6
    <3> QED  BY <3>1, LeastNatural
  <2>2. i \in 1 .. n
    BY <1>1, <1>5, <1>6, <2>1
  <2>3. i - 1 \notin Wrong
    BY <2>1, <2>2
  <2> QED  BY <1>4, <2>1, <2>2, <2>3
<1>8. base + c[EntryCount] - d[EntryCount] = sums[n] /\ c[EntryCount] \in Int /\ d[EntryCount] \in Int
  <2>1. n \in 0 .. n /\ 2 * n \in 0 .. EntryCount
    BY <1>1
  <2> QED  BY <1>1, <1>7, <2>1
<1>9. SumWhere("CREDIT", accounts) = c[EntryCount]
  BY <1>2, SumWhereIsRunning
<1>10. SumWhere("DEBIT", accounts) = d[EntryCount]
  BY <1>3, SumWhereIsRunning
<1> QED  BY <1>8, <1>9, <1>10

\* ledger_total of a wallet is the net of its account.
LEMMA LedgerTotalIsNet ==
    ASSUME DbTypeOK, NEW w \in Wallets
    PROVE  LedgerTotal(w) = Net[w]
<1>1. w \in Accounts /\ Opening[w] \in Int /\ OpeningOf(w) = Opening[w]
  <2>1. Opening \in [Wallets -> 0 .. MaxBigint]
    BY WalletsAssumption
  <2> QED  BY <2>1, MaxBigintAssumption DEF Accounts, OpeningOf
<1>0. ledger \in Seq(LedgerTxn)
  BY DEF DbTypeOK
<1>2. PICK sums \in [0 .. Len(ledger) -> Int] :
          Running(sums, Len(ledger), OpeningOf(w), Effects(ledger, w))
  BY <1>0, SumsExist
<1>3. \A t : Effect(t, w) = CreditIn(t, {w}) - DebitIn(t, {w})
  BY DEF Effect, CreditIn, DebitIn
<1>4. Grows(sums, Opening[w], {w})
  BY <1>1, <1>2, <1>3 DEF Running, Effects, Grows
<1>5. NetOf(ledger, w) = sums[Len(ledger)]
  BY <1>0, <1>2, NetOfValue
<1>6. Net[w] = NetOf(ledger, w)
  BY <1>1 DEF Net
<1> QED  BY <1>1, <1>2, <1>4, <1>5, <1>6, CreditsLessDebits DEF LedgerTotal

\* The ledger as a whole is in balance: every transaction debits what it credits.
LEMMA LedgerBalanced == DbTypeOK => ~Imbalanced
<1> SUFFICES ASSUME DbTypeOK PROVE SumWhere("DEBIT", Accounts) = SumWhere("CREDIT", Accounts)
  BY DEF Imbalanced
<1> DEFINE sums == [i \in 0 .. Len(ledger) |-> 0]
<1>1. \A i \in 1 .. Len(ledger) : CreditIn(ledger[i], Accounts) - DebitIn(ledger[i], Accounts) = 0
  <2> SUFFICES ASSUME NEW i \in 1 .. Len(ledger)
               PROVE  CreditIn(ledger[i], Accounts) - DebitIn(ledger[i], Accounts) = 0
    OBVIOUS
  <2>1. ledger[i] \in LedgerTxn
    BY DEF DbTypeOK
  <2>2. ledger[i].credit \in Accounts /\ ledger[i].debit \in Accounts
    BY <2>1 DEF LedgerTxn
  <2>3. ledger[i].amount \in Nat
    BY AmountNat
  <2> QED  BY <2>2, <2>3 DEF CreditIn, DebitIn
<1>2. Len(ledger) \in Nat
  BY DEF DbTypeOK
<1>3. /\ sums \in [0 .. Len(ledger) -> Int] /\ sums[0] = 0 /\ sums[Len(ledger)] = 0
      /\ \A i \in 1 .. Len(ledger) : sums[i] = 0 /\ sums[i - 1] = 0
  BY <1>2
<1>4. PICK base \in Int : base = 0
  OBVIOUS
<1>5. Grows(sums, base, Accounts)
  BY <1>1, <1>3, <1>4 DEF Grows
<1> HIDE DEF sums
<1>6. /\ SumWhere("CREDIT", Accounts) \in Int /\ SumWhere("DEBIT", Accounts) \in Int
      /\ base + SumWhere("CREDIT", Accounts) - SumWhere("DEBIT", Accounts) = sums[Len(ledger)]
  BY <1>3, <1>5, CreditsLessDebits
<1> QED  BY <1>3, <1>4, <1>6

-----------------------------------------------------------------------------
(* The engine's books, while balances are changed by hand. *)

\* How far a balance is off.
Off(w) == IF w \in corrupted THEN 1 ELSE 0

\* A balance differs from the ledger only where it was changed by hand.
Drift == \A w \in Wallets : balance[w] = Net[w] + Off(w)

\* What the engine keeps true, whatever is done to the balances.
EngineKept == TypeInv /\ LockInv /\ AbsentIsEmpty /\ Drift

\* All of it holds in the first state.
LEMMA KeptInit == ReconInit => EngineKept
<1> SUFFICES ASSUME ReconInit PROVE EngineKept
  OBVIOUS
<1>1. TypeInv /\ LockInv /\ BooksInv
  BY TypeInit, LockInit, BooksInit DEF ReconInit
<1>2. Net \in [Accounts -> Int] /\ Wallets \subseteq Accounts
  BY <1>1, TypeOKParts, NetType DEF TypeInv, Accounts
<1>3. Drift
  BY <1>1, <1>2 DEF ReconInit, BooksInv, BalanceMatchesLedger, Drift, Off
<1> QED  BY <1>1, <1>3 DEF EngineKept, BooksInv

\* The engine moves balance and ledger together, so it keeps every balance as
\* far off as it was.
LEMMA DriftKept ==
    ASSUME EngineKept, [Next]_vars, UNCHANGED corrupted
    PROVE  AbsentIsEmpty' /\ Drift'
<1> USE DEF EngineKept
<1>1. DbTypeOK /\ DbTypeOK'
  BY TypeStep DEF TypeInv, TypeOK
<1>2. /\ balance \in [Wallets -> Int] /\ balance' \in [Wallets -> Int]
      /\ Net \in [Accounts -> Int] /\ Net' \in [Accounts -> Int] /\ Wallets \subseteq Accounts
  <2>1. balance \in [Wallets -> Int] /\ balance' \in [Wallets -> Int]
    BY <1>1, MaxBigintAssumption DEF DbTypeOK
  <2> QED  BY <1>1, <2>1, NetType, NetTypeNext DEF Accounts
<1>3. CASE UNCHANGED << balance, status, ledger >>
  BY <1>3, NetFrame DEF AbsentIsEmpty, Drift, Off
<1>4. ASSUME NEW h \in Handlers, pc[h] = "commit", CommitRows(h) PROVE AbsentIsEmpty' /\ Drift'
  <2>1. /\ status' = status
        /\ \A w \in Wallets : balance'[w] - balance[w] = Net'[w] - Net[w]
        /\ \A w \in Wallets : status[w] = "ABSENT" => balance'[w] = balance[w]
    BY <1>4, CommitMovesBoth
  <2>2. AbsentIsEmpty'
    BY <2>1 DEF AbsentIsEmpty
  <2>3. ASSUME NEW w \in Wallets PROVE balance'[w] = Net'[w] + Off(w)'
    <3>1. balance'[w] - balance[w] = Net'[w] - Net[w] /\ balance[w] = Net[w] + Off(w)
      BY <2>1 DEF Drift
    <3>2. balance'[w] \in Int /\ balance[w] \in Int /\ Net'[w] \in Int /\ Net[w] \in Int
      BY <1>2
    <3>3. Off(w)' = Off(w) /\ Off(w) \in Int
      BY DEF Off
    <3> QED  BY <3>1, <3>2, <3>3
  <2> QED  BY <2>2, <2>3 DEF Drift
<1>5. ASSUME NEW w \in Wallets, WalletStep(w) PROVE AbsentIsEmpty' /\ Drift'
  <2>0. Net' = Net
    BY <1>5, NetFrame DEF WalletStep, CreateWallet, UpdateWalletStatus
  <2>1. CASE CreateWallet(w)
    BY <1>1, <2>0, <2>1 DEF CreateWallet, AbsentIsEmpty, Drift, Off, DbTypeOK
  <2>2. CASE UpdateWalletStatus(w, "FROZEN") \/ UpdateWalletStatus(w, "ACTIVE")
    BY <1>1, <2>0, <2>2 DEF UpdateWalletStatus, AbsentIsEmpty, Drift, Off, DbTypeOK
  <2> QED  BY <1>5, <2>1, <2>2 DEF WalletStep
<1>6. ASSUME NEW h \in Handlers, TransferStep(h) PROVE AbsentIsEmpty' /\ Drift'
  BY <1>3, <1>4, <1>6, BooksUntouched
<1> QED  BY <1>3, <1>5, <1>6 DEF Next, vars, dbVars

\* A change by hand waits for the row's lock, so nothing that a handler knows
\* about a row it has locked becomes wrong.
LEMMA KeptCorrupt ==
    ASSUME EngineKept, NEW w \in Wallets, Corrupt(w)
    PROVE  EngineKept'
<1> USE DEF EngineKept, Corrupt
<1>1. DbTypeOK /\ LocalTypeOK /\ TablesTypeOK /\ PathInv
  BY TypeOKParts DEF TypeInv
<1>2. /\ balance' = [balance EXCEPT ![w] = @ + 1] /\ balance[w] \in 0 .. MaxBigint
      /\ UNCHANGED << status, rowLock, ledger, outbox, transferVars >>
  BY <1>1 DEF DbTypeOK
<1>3. balance' \in [Wallets -> 0 .. MaxBigint]
  BY <1>1, <1>2, MaxBigintAssumption DEF DbTypeOK
<1>4. TypeInv'
  <2>1. DbTypeOK'
    BY <1>1, <1>2, <1>3 DEF DbTypeOK, LedgerTxn, Accounts, OutboxEvent
  <2>2. LocalTypeOK' /\ TablesTypeOK' /\ PathInv'
    BY <1>1, <1>2 DEF transferVars, LocalTypeOK, TablesTypeOK, PathInv, SourceWallet, DestWallet,
       SourceIsFirst, FirstWallet, SecondWallet, FirstLock, SecondLock, WellFormed
  <2> QED  BY <2>1, <2>2, TypeInvNext
<1>5. LockInv'
  <2> SUFFICES ASSUME NEW g \in Handlers PROVE LockInvOf(g)'
    BY DEF LockInv
  <2>1. rowLock[w] # g
    BY WalletsAssumption, TransfersAssumption
  <2>2. \A v \in Wallets : rowLock[v] = g => balance'[v] = balance[v] /\ status'[v] = status[v]
    BY <1>1, <1>2, <2>1 DEF DbTypeOK
  <2> QED  BY <1>2, <2>2, LockFrame DEF LockInv, transferVars
<1>6. Net' = Net
  BY <1>2, NetFrame
<1>7. AbsentIsEmpty'
  BY <1>1, <1>2 DEF AbsentIsEmpty, DbTypeOK
<1>8. Drift'
  <2> SUFFICES ASSUME NEW v \in Wallets PROVE balance'[v] = Net'[v] + Off(v)'
    BY DEF Drift
  <2>1. Net[v] \in Int /\ balance[v] = Net[v] + Off(v)
    BY <1>1, NetType DEF Accounts, Drift
  <2>2. CASE v = w
    <3>1. balance'[v] = balance[v] + 1 /\ Off(v) = 0 /\ Off(v)' = 1
      BY <1>1, <1>2, <2>2 DEF DbTypeOK, Off
    <3> QED  BY <1>6, <2>1, <3>1
  <2>3. CASE v # w
    <3>1. balance'[v] = balance[v] /\ Off(v)' = Off(v)
      BY <1>1, <1>2, <2>3 DEF DbTypeOK, Off
    <3> QED  BY <1>6, <2>1, <3>1
  <2> QED  BY <2>2, <2>3
<1> QED  BY <1>4, <1>5, <1>7, <1>8

\* Every step keeps all of it.
LEMMA KeptStep == EngineKept /\ [ReconNext]_<< vars, reconVars >> => EngineKept'
<1> SUFFICES ASSUME EngineKept, [ReconNext]_<< vars, reconVars >> PROVE EngineKept'
  OBVIOUS
<1>1. CASE [Next]_vars /\ UNCHANGED corrupted
  BY <1>1, TypeStep, LockStepInv, DriftKept DEF EngineKept
<1>2. ASSUME NEW w \in Wallets, Corrupt(w) PROVE EngineKept'
  BY <1>2, KeptCorrupt
<1> QED  BY <1>1, <1>2 DEF ReconNext, reconVars

-----------------------------------------------------------------------------
(* The worker. *)

RunRow == [status : {"IN_PROGRESS", "PASSED", "FAILED"}, wallets : Nat, txns : Nat,
           mismatches : Nat]

\* The run that the worker is about to write as PASSED with every wallet began
\* when no balance was wrong.
PassIsSound ==
    rpc = "complete" /\ local.status = "PASSED" /\ local.wallets = Cardinality(Wallets)
        => wrongAtStart = {}

\* What was wrong at the start of a run still is; what the worker has found and
\* recorded is wrong; and a run with something to record has failed.
WorkerInv ==
    /\ local \in RunRow
    /\ wrongAtStart \subseteq corrupted
    /\ corrupted \subseteq Wallets
    /\ todo \subseteq corrupted
    /\ rpc = "record" => local.status = "FAILED"
    /\ PassIsSound
    /\ NoFalseAlarm
    /\ FullPassIsSound

\* It holds in the first state.
LEMMA WorkerInit == ReconInit => WorkerInv
BY DEF ReconInit, NewRun, RunRow, WorkerInv, PassIsSound, NoFalseAlarm, FullPassIsSound

\* The wallets that CheckWalletBalances finds are those changed by hand.
LEMMA MismatchesAreOff ==
    ASSUME EngineKept, NEW scanned \in SUBSET Wallets
    PROVE  Mismatches(scanned) = scanned \cap corrupted
<1>1. DbTypeOK
  BY DEF EngineKept, TypeInv, TypeOK
<1>2. ASSUME NEW w \in scanned PROVE balance[w] # LedgerTotal(w) <=> w \in corrupted
  <2>1. LedgerTotal(w) = Net[w]
    BY <1>1, LedgerTotalIsNet
  <2>2. Net[w] \in Int /\ balance[w] = Net[w] + Off(w)
    BY <1>1, NetType DEF Accounts, EngineKept, Drift
  <2> QED  BY <2>1, <2>2 DEF Off
<1> QED  BY <1>2 DEF Mismatches

\* The answer of CheckWalletBalances, complete or broken off, is recorded as it
\* is: it reports the wrong balances among those it scanned, and passes only if
\* there was none.
LEMMA WorkerScan ==
    ASSUME EngineKept, WorkerInv, rpc = "wallets", UNCHANGED corrupted,
           NEW scanned \in SUBSET Wallets, Scan(scanned)
    PROVE  WorkerInv'
<1> DEFINE found == scanned \cap corrupted
<1>1. todo' = found
  BY MismatchesAreOff DEF Scan
<1>2. /\ Cardinality(scanned) \in Nat /\ Cardinality(found) \in Nat
      /\ Cardinality(scanned) = Cardinality(Wallets) => scanned = Wallets
  <2>1. IsFiniteSet(Wallets) /\ found \in SUBSET Wallets
    BY ReconciliationAssumption
  <2>2. IsFiniteSet(scanned) /\ IsFiniteSet(found)
    BY <2>1, FS_Subset
  <2> QED  BY <2>1, <2>2, FS_Subset, FS_CardinalityType
<1>3. local' = [local EXCEPT !.wallets = Cardinality(scanned),
                             !.status = IF found # {} THEN "FAILED" ELSE @,
                             !.mismatches = @ + Cardinality(found)]
  BY <1>1 DEF Scan
<1>4. rpc' = (IF found # {} THEN "record" ELSE "complete") /\ UNCHANGED << run, items, wrongAtStart >>
  BY <1>1 DEF Scan
<1> HIDE DEF found
<1>5. /\ local' \in RunRow /\ local'.wallets = Cardinality(scanned)
      /\ found # {} => local'.status = "FAILED"
  <2>1. local \in RunRow /\ local.mismatches \in Nat
    BY DEF WorkerInv, RunRow
  <2>2. PICK m \in Nat : m = Cardinality(scanned)
    BY <1>2
  <2>3. PICK k \in Nat : k = local.mismatches + Cardinality(found)
    BY <1>2, <2>1
  <2>4. CASE found # {}
    <3>1. local' = [local EXCEPT !.wallets = m, !.status = "FAILED", !.mismatches = k]
      BY <1>3, <2>2, <2>3, <2>4
    <3> QED  BY <2>1, <2>2, <2>4, <3>1 DEF RunRow
  <2>5. CASE found = {}
    <3>1. local' = [local EXCEPT !.wallets = m, !.mismatches = k]
      BY <1>3, <2>1, <2>2, <2>3, <2>5 DEF RunRow
    <3> QED  BY <2>1, <2>2, <2>5, <3>1 DEF RunRow
  <2> QED  BY <2>4, <2>5
<1>6. PassIsSound'
  <2> SUFFICES ASSUME rpc' = "complete", local'.wallets = Cardinality(Wallets)
               PROVE  wrongAtStart' = {}
    BY DEF PassIsSound
  <2>1. scanned = Wallets /\ found = {}
    BY <1>2, <1>4, <1>5
  <2> QED  BY <1>4, <2>1 DEF WorkerInv, found
<1>7. /\ todo' \subseteq corrupted' /\ wrongAtStart' \subseteq corrupted' /\ corrupted' \subseteq Wallets
      /\ NoFalseAlarm' /\ FullPassIsSound'
  BY <1>1, <1>4 DEF WorkerInv, NoFalseAlarm, FullPassIsSound, found
<1>8. rpc' = "record" => local'.status = "FAILED"
  BY <1>4, <1>5
<1> QED  BY <1>5, <1>6, <1>7, <1>8 DEF WorkerInv

\* Every step of the worker preserves WorkerInv.
LEMMA WorkerSteps ==
    ASSUME EngineKept, WorkerInv, RunStep \/ RunFailure, UNCHANGED << vars, corrupted >>
    PROVE  WorkerInv'
<1> USE DEF WorkerInv, RunRow, PassIsSound, NoFalseAlarm, FullPassIsSound
<1>1. CASE CreateRun
  BY <1>1 DEF CreateRun, NewRun
<1>2. CASE CheckGlobalLedgerBalance
  <2>1. ~Imbalanced /\ Len(ledger) \in Nat
    BY LedgerBalanced DEF EngineKept, TypeInv, TypeOK, DbTypeOK
  <2> QED  BY <1>2, <2>1 DEF CheckGlobalLedgerBalance
<1>3. CASE CheckWalletBalances \/ ScanBreaksOff
  <2>1. rpc = "wallets" /\ \E scanned \in SUBSET Wallets : Scan(scanned)
    BY <1>3 DEF CheckWalletBalances, ScanBreaksOff
  <2> QED  BY <2>1, WorkerScan
<1>4. CASE CompleteRun
  BY <1>4 DEF CompleteRun, NewRun
<1>5. ASSUME NEW w \in Wallets, RecordMismatch(w) \/ RecordMismatchFails(w) PROVE WorkerInv'
  BY <1>5 DEF RecordMismatch, RecordMismatchFails, NextMismatch
<1>6. CASE CheckFails
  BY <1>6 DEF CheckFails
<1>7. CASE RunAbandoned
  BY <1>7 DEF RunAbandoned, NewRun
<1> QED  BY <1>1, <1>2, <1>3, <1>4, <1>5, <1>6, <1>7 DEF RunStep, RunFailure

\* So does every other step.
LEMMA WorkerStep ==
    EngineKept /\ WorkerInv /\ [ReconNext]_<< vars, reconVars >> => WorkerInv'
<1> SUFFICES ASSUME EngineKept, WorkerInv, [ReconNext]_<< vars, reconVars >> PROVE WorkerInv'
  OBVIOUS
<1>1. CASE UNCHANGED reconVars
  BY <1>1 DEF reconVars, workerVars, WorkerInv, PassIsSound, NoFalseAlarm, FullPassIsSound
<1>2. ASSUME NEW w \in Wallets, Corrupt(w) PROVE WorkerInv'
  BY <1>2 DEF Corrupt, workerVars, WorkerInv, PassIsSound, NoFalseAlarm, FullPassIsSound
<1> QED  BY <1>1, <1>2, WorkerSteps DEF ReconNext

\* Whatever transfers commit between and during its queries, the worker reports
\* no wallet whose balance is right, and never the ledger as a whole.
THEOREM NobodyAccused == ReconSpec => []NoFalseAlarm
<1>1. WorkerInv => NoFalseAlarm
  BY DEF WorkerInv
<1> QED
  BY <1>1, KeptInit, KeptStep, WorkerInit, WorkerStep, PTL DEF ReconSpec

\* A run that is PASSED with every wallet checked began when no balance was
\* wrong, although its queries see different states of the tables and any of
\* them may fail or break off.
THEOREM PassedMeansRight == ReconSpec => []FullPassIsSound
<1>1. WorkerInv => FullPassIsSound
  BY DEF WorkerInv
<1> QED
  BY <1>1, KeptInit, KeptStep, WorkerInit, WorkerStep, PTL DEF ReconSpec
=============================================================================

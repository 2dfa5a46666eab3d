--------------------------- MODULE DatabaseProofs ---------------------------
(***************************************************************************)
(* Facts about the tables of Database that the proofs of Transfers and of  *)
(* Payments share: what creating, freezing and unfreezing a wallet,        *)
(* posting to the ledger and giving back locks do to the types of the      *)
(* tables and to the books.                                                *)
(***************************************************************************)
EXTENDS Database, WellFoundedInduction, TLAPS

\* The first state of the tables has the types.
LEMMA DbInitType == DbInit => DbTypeOK
BY MaxBigintAssumption, WalletsAssumption
DEF DbInit, DbTypeOK, WalletStatus, Accounts, PlatformAccount

\* Creating, freezing and unfreezing a wallet preserve them.
LEMMA WalletStepDbType ==
    ASSUME DbTypeOK, NEW w \in Wallets, WalletStep(w)
    PROVE  DbTypeOK'
<1>1. CASE CreateWallet(w)
  BY <1>1, MaxBigintAssumption DEF DbTypeOK, CreateWallet, WalletStatus
<1>2. CASE UpdateWalletStatus(w, "FROZEN") \/ UpdateWalletStatus(w, "ACTIVE")
  BY <1>2 DEF DbTypeOK, UpdateWalletStatus, WalletStatus
<1> QED  BY <1>1, <1>2 DEF WalletStep

\* Releasing locks keeps the type of the lock table.
LEMMA ReleaseType ==
    ASSUME DbTypeOK, NEW h, ReleaseLocks(h)
    PROVE  rowLock' \in [Wallets -> Sessions \cup {NoTx}]
BY DEF DbTypeOK, ReleaseLocks

\* A session that gives back its locks takes nobody else's.
LEMMA ReleaseFrame ==
    ASSUME DbTypeOK, NEW h \in Sessions, ReleaseLocks(h)
    PROVE  /\ \A w \in Wallets : rowLock'[w] # h
           /\ \A g \in Sessions \ {h}, w \in Wallets : rowLock'[w] = g <=> rowLock[w] = g
BY WalletsAssumption DEF DbTypeOK, ReleaseLocks

\* Locking a row that can be locked takes it from nobody.
LEMMA LockTaken ==
    ASSUME DbTypeOK, NEW h \in Sessions, NEW w \in Wallets, CanLock(h, w),
           rowLock' = [rowLock EXCEPT ![w] = h]
    PROVE  /\ rowLock' \in [Wallets -> Sessions \cup {NoTx}]
           /\ rowLock'[w] = h
           /\ \A v \in Wallets \ {w} : rowLock'[v] = rowLock[v]
           /\ \A g \in Sessions \ {h}, v \in Wallets : rowLock'[v] = g <=> rowLock[v] = g
BY WalletsAssumption DEF DbTypeOK, CanLock

-----------------------------------------------------------------------------
(* What folds compute.  The provers have no rule of induction that takes a
   formula, so each induction here looks at a least counterexample. *)

\* A set of natural numbers that is not empty has a least element.
LEMMA LeastNatural ==
    ASSUME NEW T, T \subseteq Nat, T # {}
    PROVE  \E n \in T : \A m \in T : n <= m
<1> DEFINE R == OpToRel(<, Nat)
<1>1. \A m, n \in Nat : << m, n >> \in R <=> m < n
  BY DEF OpToRel
<1>2. IsWellFoundedOn(R, Nat)
  BY NatLessThanWellFounded
<1> HIDE DEF R
<1>3. PICK n \in T : \A m \in T : ~(<< m, n >> \in R)
  BY <1>2, WFMin
<1>4. \A m \in T : m \in Nat /\ n \in Nat /\ ~(m < n)
  BY <1>1, <1>3
<1> QED  BY <1>4

\* A set of numbers that is not empty and has a bound has a maximum.
LEMMA MaxOfBounded ==
    ASSUME NEW n \in Nat, NEW s \in SUBSET (1 .. n), s # {}
    PROVE  Max(s) \in s /\ \A y \in s : Max(s) >= y
<1> DEFINE Bounds == {u \in Nat : \A y \in s : u >= y}
<1>1. Bounds \subseteq Nat /\ n \in Bounds
  OBVIOUS
<1>2. PICK u \in Bounds : \A v \in Bounds : u <= v
  <2> HIDE DEF Bounds
  <2> QED  BY <1>1, LeastNatural
<1>3. u \in s
  <2> SUFFICES ASSUME u \notin s PROVE FALSE
    OBVIOUS
  <2>0. u \in Nat /\ (\A y \in s : y \in 1 .. n /\ u >= y) /\ \E y \in s : TRUE
    BY <1>2
  <2>1. u - 1 \in Nat /\ \A y \in s : u - 1 >= y
    <3> HIDE DEF Bounds
    <3> QED  BY <2>0
  <2>2. u - 1 \in Bounds
    BY <2>1
  <2> QED  BY <1>2, <2>2
<1>4. \E x \in s : \A y \in s : x >= y
  BY <1>2, <1>3
<1> QED  BY <1>4 DEF Max

\* What adding up the first n of these values, one after the other, gives.
Running(sums, n, base, values) ==
    sums[0] = base /\ \A i \in 1 .. n : sums[i] = sums[i - 1] + values[i]

\* The function that FoldLeft evaluates to add them up.
IsFold(g, n, base, values) ==
    g = [s \in SUBSET (1 .. n) |->
            IF s = {} THEN base ELSE g[s \ {Max(s)}] + values[Max(s)]]

\* Every list of values can be added up.
LEMMA RunningExists ==
    ASSUME NEW n \in Nat, NEW base \in Int, NEW values \in [1 .. n -> Int]
    PROVE  \E sums \in [0 .. n -> Int] : Running(sums, n, base, values)
<1> DEFINE Without == {m \in 0 .. n : ~\E sums \in [0 .. m -> Int] : Running(sums, m, base, values)}
<1> SUFFICES ASSUME Without # {} PROVE FALSE
  OBVIOUS
<1>1. PICK m \in Without : \A k \in Without : m <= k
  <2>1. Without \subseteq Nat
    OBVIOUS
  <2> HIDE DEF Without
  <2> QED  BY <2>1, LeastNatural
<1>2. m \in 0 .. n
  BY <1>1
<1>3. CASE m = 0
  <2> DEFINE sums == [i \in 0 .. 0 |-> base]
  <2>1. sums \in [0 .. 0 -> Int] /\ Running(sums, 0, base, values)
    BY DEF Running
  <2> QED  BY <1>1, <1>3, <2>1
<1>4. CASE m # 0
  <2>1. m - 1 \in 0 .. n /\ m - 1 \notin Without /\ m \in 1 .. n
    BY <1>1, <1>2, <1>4
  <2>2. PICK sums \in [0 .. (m - 1) -> Int] : Running(sums, m - 1, base, values)
    BY <2>1
  <2> DEFINE more == [i \in 0 .. m |-> IF i = m THEN sums[m - 1] + values[m] ELSE sums[i]]
  <2>3. more \in [0 .. m -> Int]
    BY <2>1, <2>2
  <2>4. more[m] = sums[m - 1] + values[m] /\ \A i \in 0 .. (m - 1) : more[i] = sums[i]
    BY <2>1
  <2> HIDE DEF more
  <2>5. Running(more, m, base, values)
    <3> HIDE DEF Without
    <3>1. more[0] = base
      BY <2>1, <2>2, <2>4 DEF Running
    <3>2. ASSUME NEW i \in 1 .. m PROVE more[i] = more[i - 1] + values[i]
      <4>1. CASE i = m
        BY <2>1, <2>4, <4>1
      <4>2. CASE i # m
        <5>1. i \in 1 .. (m - 1) /\ i \in 0 .. (m - 1) /\ i - 1 \in 0 .. (m - 1)
          BY <2>1, <4>2
        <5>2. sums[i] = sums[i - 1] + values[i]
          BY <2>2, <5>1 DEF Running
        <5>3. more[i] = sums[i] /\ more[i - 1] = sums[i - 1]
          BY <2>4, <5>1
        <5> QED  BY <5>2, <5>3
      <4> QED  BY <4>1, <4>2
    <3> QED  BY <3>1, <3>2 DEF Running
  <2> QED  BY <1>1, <2>3, <2>5
<1> QED  BY <1>3, <1>4

\* One more value extends a fold.
LEMMA FoldExtends ==
    ASSUME NEW n \in Nat, NEW base, NEW values, NEW g, IsFold(g, n, base, values)
    PROVE  \E f : IsFold(f, n + 1, base, values)
<1> DEFINE f == [s \in SUBSET (1 .. (n + 1)) |->
                    IF n + 1 \in s THEN g[s \ {n + 1}] + values[n + 1] ELSE g[s]]
           Step(h, s) == IF s = {} THEN base ELSE h[s \ {Max(s)}] + values[Max(s)]
<1>1. ASSUME NEW s \in SUBSET (1 .. (n + 1)) PROVE f[s] = Step(f, s)
  <2>1. CASE n + 1 \in s
    <3>1. Max(s) \in s /\ (\A y \in s : Max(s) >= y) /\ Max(s) \in 1 .. (n + 1)
      <4>1. n + 1 \in Nat /\ s # {}
        BY <2>1
      <4> HIDE DEF f
      <4> QED  BY <4>1, MaxOfBounded
    <3>2. Max(s) = n + 1
      BY <2>1, <3>1
    <3>3. s \ {n + 1} \in SUBSET (1 .. (n + 1)) /\ n + 1 \notin s \ {n + 1}
      OBVIOUS
    <3>4. f[s \ {n + 1}] = g[s \ {n + 1}]
      BY <3>3
    <3>5. f[s] = g[s \ {n + 1}] + values[n + 1]
      BY <2>1
    <3> HIDE DEF f
    <3> QED  BY <2>1, <3>2, <3>4, <3>5
  <2>2. CASE n + 1 \notin s
    <3>1. /\ s \in SUBSET (1 .. n) /\ s \ {Max(s)} \in SUBSET (1 .. (n + 1))
          /\ n + 1 \notin s \ {Max(s)}
      <4>1. \A y \in s : y \in 1 .. n
        BY <2>2
      <4> QED  BY <2>2, <4>1
    <3>2. f[s] = g[s] /\ f[s \ {Max(s)}] = g[s \ {Max(s)}]
      BY <2>2, <3>1
    <3>3. g[s] = Step(g, s)
      BY <3>1 DEF IsFold
    <3> HIDE DEF f
    <3> QED  BY <3>2, <3>3
  <2> QED  BY <2>1, <2>2
<1>2. f = [s \in SUBSET (1 .. (n + 1)) |-> f[s]]
  OBVIOUS
<1>3. IsFold(f, n + 1, base, values)
  <2> HIDE DEF f
  <2> QED  BY <1>1, <1>2 DEF IsFold
<1> QED  BY <1>3

\* So there is a fold for every number of values.
LEMMA FoldExists ==
    ASSUME NEW n \in Nat, NEW base, NEW values
    PROVE  \E g : IsFold(g, n, base, values)
<1> DEFINE Without == {m \in Nat : ~\E g : IsFold(g, m, base, values)}
<1> SUFFICES ASSUME Without # {} PROVE FALSE
  OBVIOUS
<1>1. PICK m \in Without : \A k \in Without : m <= k
  <2>1. Without \subseteq Nat
    OBVIOUS
  <2> HIDE DEF Without
  <2> QED  BY <2>1, LeastNatural
<1>2. CASE m = 0
  <2> DEFINE g == [s \in SUBSET (1 .. 0) |-> base]
  <2>1. \A s \in SUBSET (1 .. 0) : s = {}
    OBVIOUS
  <2>2. IsFold(g, 0, base, values)
    BY <2>1 DEF IsFold
  <2> QED  BY <1>1, <1>2, <2>2
<1>3. CASE m # 0
  <2>1. m - 1 \in Nat /\ m - 1 \notin Without /\ m = (m - 1) + 1
    BY <1>1, <1>3
  <2>2. PICK g : IsFold(g, m - 1, base, values)
    BY <2>1
  <2>3. \E f : IsFold(f, m, base, values)
    BY <2>1, <2>2, FoldExtends
  <2> QED  BY <1>1, <2>3
<1> QED  BY <1>2, <1>3

\* Its value for the first k values is the k-th running sum.
LEMMA FoldValue ==
    ASSUME NEW n \in Nat, NEW base, NEW values, NEW sums, Running(sums, n, base, values),
           NEW g, IsFold(g, n, base, values), NEW k \in 0 .. n
    PROVE  g[1 .. k] = sums[k]
<1> DEFINE Wrong == {i \in 0 .. n : g[1 .. i] # sums[i]}
<1> SUFFICES ASSUME Wrong # {} PROVE FALSE
  OBVIOUS
<1>1. PICK i \in Wrong : \A j \in Wrong : i <= j
  <2>1. Wrong \subseteq Nat
    OBVIOUS
  <2> HIDE DEF Wrong
  <2> QED  BY <2>1, LeastNatural
<1>2. /\ i \in 0 .. n
      /\ g[1 .. i] = IF 1 .. i = {} THEN base
                     ELSE g[(1 .. i) \ {Max(1 .. i)}] + values[Max(1 .. i)]
  <2>1. i \in 0 .. n /\ 1 .. i \in SUBSET (1 .. n)
    BY <1>1
  <2> HIDE DEF Wrong
  <2> QED  BY <2>1 DEF IsFold
<1>3. CASE i = 0
  <2>1. 1 .. i = {}
    BY <1>3
  <2> QED  BY <1>1, <1>2, <1>3, <2>1 DEF Running
<1>4. CASE i # 0
  <2>1. i \in Nat /\ i \in 1 .. i /\ (1 .. i) \in SUBSET (1 .. i)
    BY <1>2, <1>4
  <2>2. Max(1 .. i) \in 1 .. i /\ Max(1 .. i) >= i
    BY <2>1, MaxOfBounded
  <2>3. Max(1 .. i) = i /\ (1 .. i) \ {i} = 1 .. (i - 1)
    BY <2>1, <2>2
  <2>4. g[1 .. i] = g[1 .. (i - 1)] + values[i]
    BY <1>2, <2>1, <2>3
  <2>5. g[1 .. (i - 1)] = sums[i - 1]
    BY <1>1, <1>2, <1>4
  <2>6. sums[i] = sums[i - 1] + values[i]
    BY <1>2, <1>4 DEF Running
  <2> QED  BY <1>1, <2>4, <2>5, <2>6
<1> QED  BY <1>3, <1>4

-----------------------------------------------------------------------------
(* What the entries of the ledger add up to. *)

\* The effects of the entries on account a.
Effects(entries, a) == [i \in 1 .. Len(entries) |-> Effect(entries[i], a)]

\* The function that FoldLeft evaluates for account a.
LedgerFold(g, entries, a) ==
    g = [s \in SUBSET (1 .. Len(entries)) |->
            IF s = {} THEN OpeningOf(a) ELSE g[s \ {Max(s)}] + Effect(entries[Max(s)], a)]

\* It adds up the effects.
LEMMA LedgerFoldIsFold ==
    ASSUME NEW entries, NEW a, Len(entries) \in Nat, NEW g
    PROVE  LedgerFold(g, entries, a)
              <=> IsFold(g, Len(entries), OpeningOf(a), Effects(entries, a))
<1>1. \A s \in SUBSET (1 .. Len(entries)) :
          s # {} => Effects(entries, a)[Max(s)] = Effect(entries[Max(s)], a)
  <2>1. \A s \in SUBSET (1 .. Len(entries)) : s # {} => Max(s) \in 1 .. Len(entries)
    BY MaxOfBounded
  <2> QED  BY <2>1 DEF Effects
<1>2. [s \in SUBSET (1 .. Len(entries)) |->
          IF s = {} THEN OpeningOf(a) ELSE g[s \ {Max(s)}] + Effect(entries[Max(s)], a)]
      = [s \in SUBSET (1 .. Len(entries)) |->
          IF s = {} THEN OpeningOf(a) ELSE g[s \ {Max(s)}] + Effects(entries, a)[Max(s)]]
  BY <1>1
<1> QED  BY <1>2 DEF LedgerFold, IsFold

\* What FoldLeft computes from a ledger.
LEMMA FoldLeftIsFold ==
    ASSUME NEW entries, NEW a, DOMAIN entries = 1 .. Len(entries)
    PROVE  NetOf(entries, a) = (CHOOSE g : LedgerFold(g, entries, a))[1 .. Len(entries)]
BY DEF NetOf, FoldLeft, MapThenFoldSet, LedgerFold

\* NetOf is the last of the running sums of the effects.
LEMMA NetOfValue ==
    ASSUME NEW entries \in Seq(LedgerTxn), NEW a, NEW sums,
           Running(sums, Len(entries), OpeningOf(a), Effects(entries, a))
    PROVE  NetOf(entries, a) = sums[Len(entries)]
<1>1. Len(entries) \in Nat /\ DOMAIN entries = 1 .. Len(entries)
  OBVIOUS
<1> DEFINE g == CHOOSE g : LedgerFold(g, entries, a)
<1>2. LedgerFold(g, entries, a)
  BY <1>1, FoldExists, LedgerFoldIsFold
<1> HIDE DEF g
<1>3. IsFold(g, Len(entries), OpeningOf(a), Effects(entries, a))
  BY <1>1, <1>2, LedgerFoldIsFold
<1>4. g[1 .. Len(entries)] = sums[Len(entries)]
  BY <1>1, <1>3, FoldValue
<1> QED  BY <1>1, <1>4, FoldLeftIsFold DEF g

\* What is added up are integers.
LEMMA EffectType ==
    ASSUME NEW t \in LedgerTxn, NEW a
    PROVE  Effect(t, a) \in Int
BY DEF LedgerTxn, Effect

\* So is what an account starts from.
LEMMA OpeningType == ASSUME NEW a PROVE OpeningOf(a) \in Int
<1>1. Opening \in [Wallets -> 0 .. MaxBigint]
  BY WalletsAssumption
<1> QED  BY <1>1, MaxBigintAssumption DEF OpeningOf

\* So is every effect of a ledger.
LEMMA EffectsType ==
    ASSUME NEW entries \in Seq(LedgerTxn), NEW a
    PROVE  Effects(entries, a) \in [1 .. Len(entries) -> Int]
<1>1. \A i \in 1 .. Len(entries) : entries[i] \in LedgerTxn
  OBVIOUS
<1> QED  BY <1>1, EffectType DEF Effects

\* So every ledger has its running sums.
LEMMA SumsExist ==
    ASSUME NEW entries \in Seq(LedgerTxn), NEW a
    PROVE  \E sums \in [0 .. Len(entries) -> Int] :
               Running(sums, Len(entries), OpeningOf(a), Effects(entries, a))
<1>1. Len(entries) \in Nat
  OBVIOUS
<1>2. OpeningOf(a) \in Int /\ Effects(entries, a) \in [1 .. Len(entries) -> Int]
  BY OpeningType, EffectsType
<1> QED  BY <1>1, <1>2, RunningExists, Zenon

\* One more ledger transaction adds its effect.
LEMMA NetOfAppend ==
    ASSUME NEW entries \in Seq(LedgerTxn), NEW t \in LedgerTxn, NEW a
    PROVE  /\ NetOf(entries, a) \in Int
           /\ NetOf(Append(entries, t), a) = NetOf(entries, a) + Effect(t, a)
<1> DEFINE more == Append(entries, t)
           n == Len(entries)
<1>1. /\ n \in Nat /\ more \in Seq(LedgerTxn) /\ Len(more) = n + 1 /\ more[n + 1] = t
      /\ \A i \in 1 .. n : more[i] = entries[i]
  OBVIOUS
<1> HIDE DEF more
<1>2. PICK sums \in [0 .. Len(more) -> Int] :
          Running(sums, Len(more), OpeningOf(a), Effects(more, a))
  BY <1>1, SumsExist
<1>3. NetOf(more, a) = sums[n + 1]
  BY <1>1, <1>2, NetOfValue
<1>4. /\ Effects(more, a)[n + 1] = Effect(t, a)
      /\ \A i \in 1 .. n : Effects(more, a)[i] = Effects(entries, a)[i]
  BY <1>1 DEF Effects
<1>5. Running(sums, n, OpeningOf(a), Effects(entries, a))
  BY <1>1, <1>2, <1>4 DEF Running
<1>6. NetOf(entries, a) = sums[n]
  BY <1>5, NetOfValue
<1>7. sums[n + 1] = sums[n] + Effect(t, a) /\ sums[n] \in Int
  <2>1. n + 1 \in 1 .. Len(more) /\ n \in 0 .. Len(more) /\ (n + 1) - 1 = n
    BY <1>1
  <2>2. sums[n + 1] = sums[(n + 1) - 1] + Effects(more, a)[n + 1]
    BY <1>2, <2>1 DEF Running
  <2> HIDE DEF n
  <2> QED  BY <1>2, <1>4, <2>1, <2>2
<1> QED  BY <1>3, <1>6, <1>7 DEF more

\* An empty ledger leaves every account at its opening balance.
LEMMA NetOfEmpty == ASSUME NEW a PROVE NetOf(<< >>, a) = OpeningOf(a)
<1> DEFINE sums == [i \in 0 .. 0 |-> OpeningOf(a)]
<1>1. << >> \in Seq(LedgerTxn) /\ Len(<< >>) = 0 /\ sums[0] = OpeningOf(a)
  OBVIOUS
<1> HIDE DEF sums
<1>2. Running(sums, Len(<< >>), OpeningOf(a), Effects(<< >>, a))
  BY <1>1 DEF Running
<1> QED  BY <1>1, <1>2, NetOfValue

\* The sum is an integer.
LEMMA NetOfType ==
    ASSUME NEW entries \in Seq(LedgerTxn), NEW a
    PROVE  NetOf(entries, a) \in Int
<1>1. PICK sums \in [0 .. Len(entries) -> Int] :
          Running(sums, Len(entries), OpeningOf(a), Effects(entries, a))
  BY SumsExist
<1>2. NetOf(entries, a) = sums[Len(entries)]
  BY <1>1, NetOfValue
<1>3. Len(entries) \in 0 .. Len(entries)
  OBVIOUS
<1> QED  BY <1>1, <1>2, <1>3

\* So Net has an integer for every account, before a step and after it.
LEMMA NetType == DbTypeOK => Net \in [Accounts -> Int]
BY NetOfType DEF DbTypeOK, Net

LEMMA NetTypeNext == DbTypeOK' => Net' \in [Accounts -> Int]
<1> SUFFICES ASSUME DbTypeOK' PROVE Net' \in [Accounts -> Int]
  OBVIOUS
<1>1. ledger' \in Seq(LedgerTxn)
  BY DEF DbTypeOK, LedgerTxn, Accounts
<1>2. Net' = [a \in Accounts |-> NetOf(ledger', a)]
  BY DEF Net, Accounts
<1> QED  BY <1>1, <1>2, NetOfType

\* Whoever leaves the ledger alone leaves its sums alone.
LEMMA NetFrame == ledger' = ledger => Net' = Net
BY DEF Net, Accounts

\* PostLedger moves the amount from one account to the other.
LEMMA NetPost ==
    ASSUME DbTypeOK,
           NEW type \in {"TRANSFER", "PAYMENT"}, NEW ref \in Nat, NEW debit \in Accounts,
           NEW credit \in Accounts, NEW amount \in Nat, NEW currency \in Currencies,
           debit # credit, PostLedger(type, ref, debit, credit, amount, currency)
    PROVE  Net' = [Net EXCEPT ![debit] = @ - amount, ![credit] = @ + amount]
<1> DEFINE t == [type |-> type, ref |-> ref, debit |-> debit, credit |-> credit,
                 amount |-> amount, currency |-> currency]
           Moved == [Net EXCEPT ![debit] = @ - amount, ![credit] = @ + amount]
<1>1. ledger \in Seq(LedgerTxn) /\ t \in LedgerTxn
  BY DEF DbTypeOK, LedgerTxn
<1>2. ledger' = Append(ledger, t) /\ t.debit = debit /\ t.credit = credit /\ t.amount = amount
  BY DEF PostLedger
<1> HIDE DEF t
<1>3. Net \in [Accounts -> Int]
  BY NetType
<1>4. Net' = [a \in Accounts |-> NetOf(ledger', a)]
  BY DEF Net, Accounts
<1>5. ASSUME NEW a \in Accounts PROVE NetOf(ledger', a) = Moved[a]
  <2>1. NetOf(ledger', a) = NetOf(ledger, a) + Effect(t, a)
    BY <1>1, <1>2, NetOfAppend
  <2>2. Net[a] = NetOf(ledger, a)
    BY DEF Net
  <2>3. CASE a = debit /\ a # credit
    BY <1>2, <1>3, <2>1, <2>2, <2>3 DEF Effect
  <2>4. CASE a = credit /\ a # debit
    BY <1>2, <1>3, <2>1, <2>2, <2>4 DEF Effect
  <2>5. CASE a # debit /\ a # credit
    BY <1>2, <1>3, <2>1, <2>2, <2>5 DEF Effect
  <2> QED  BY <2>3, <2>4, <2>5
<1>6. Moved = [a \in Accounts |-> Moved[a]]
  BY <1>3
<1> HIDE DEF Moved
<1> QED  BY <1>4, <1>5, <1>6 DEF Moved

-----------------------------------------------------------------------------
(* The books. *)

\* CreateWallet sets the balance to 0, which is no change of the books.
AbsentIsEmpty == \A w \in Wallets : status[w] = "ABSENT" => balance[w] = 0

\* BalanceMatchesLedger is inductive with it.
BooksInv == BalanceMatchesLedger /\ AbsentIsEmpty

\* The books agree in the first state.
LEMMA BooksDbInit == DbInit => BooksInv
<1> SUFFICES ASSUME DbInit PROVE BooksInv
  OBVIOUS
<1>1. ASSUME NEW w \in Wallets PROVE Net[w] = Opening[w]
  BY NetOfEmpty DEF DbInit, Net, Accounts, OpeningOf
<1> QED  BY <1>1, WalletsAssumption DEF DbInit, BooksInv, BalanceMatchesLedger, AbsentIsEmpty

\* Creating, freezing and unfreezing a wallet change no balance, so the books
\* agree after them.
LEMMA BooksWalletStep ==
    ASSUME DbTypeOK, BooksInv, NEW w \in Wallets, WalletStep(w)
    PROVE  balance' = balance /\ BooksInv'
<1>0. Net' = Net
  BY NetFrame DEF WalletStep, CreateWallet, UpdateWalletStatus
<1>1. CASE CreateWallet(w)
  BY <1>0, <1>1 DEF CreateWallet, BooksInv, BalanceMatchesLedger, AbsentIsEmpty, DbTypeOK
<1>2. CASE UpdateWalletStatus(w, "FROZEN") \/ UpdateWalletStatus(w, "ACTIVE")
  BY <1>0, <1>2 DEF UpdateWalletStatus, BooksInv, BalanceMatchesLedger, AbsentIsEmpty, DbTypeOK
<1> QED  BY <1>1, <1>2 DEF WalletStep
=============================================================================

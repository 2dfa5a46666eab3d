------------------------------- MODULE Ledger -------------------------------
(***************************************************************************)
(* internal/ledger: the validation CreateTransaction performs on a list of *)
(* entries before it inserts them.  Amounts are Go int64 values: the two   *)
(* running totals wrap around.  MaxBigint stands for 2^63 - 1, so that the *)
(* model checker can use a small one.                                      *)
(***************************************************************************)
EXTENDS Integers, Sequences, SequencesExt

CONSTANT MaxBigint

ASSUME MaxBigintAssumption == MaxBigint \in Nat \ {0}

Directions == {"DEBIT", "CREDIT"}

\* Go's int64 addition keeps the low bits of the sum.
Wrap(n) == ((n + MaxBigint + 1) % (2 * (MaxBigint + 1))) - (MaxBigint + 1)

\* totalDebits and totalCredits, accumulated in the order of the entries.
Total(entries, direction) ==
    FoldLeft(LAMBDA total, e : IF e.direction = direction
                               THEN Wrap(total + e.amount) ELSE total,
             0, entries)

\* CreateTransaction returns no validation error for these entries.
Accepted(entries) ==
    /\ Len(entries) >= 2
    /\ \A i \in DOMAIN entries :
          /\ entries[i].currency = entries[1].currency
          /\ entries[i].amount > 0
          /\ entries[i].direction \in Directions
    /\ Total(entries, "DEBIT") = Total(entries, "CREDIT")

\* The shape every caller uses: one debit and one credit of the same amount.
DoubleEntry(debit, credit, amount, currency) ==
    << [account |-> debit, amount |-> amount,
        direction |-> "DEBIT", currency |-> currency],
       [account |-> credit, amount |-> amount,
        direction |-> "CREDIT", currency |-> currency] >>
=============================================================================

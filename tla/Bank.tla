-------------------------------- MODULE Bank --------------------------------
(***************************************************************************)
(* What the transfer engine promises its clients: every transfer happens   *)
(* in one step, between two active wallets of one currency, in the         *)
(* direction and for the amount that was asked for, never beyond the       *)
(* source's balance, and at most once for an idempotency key.  There are   *)
(* no handlers, no locks and no messages here.                             *)
(***************************************************************************)
EXTENDS Integers, Sequences

CONSTANTS Wallets, Existing, Opening, MaxBigint, CurrencyOf, Submissions

VARIABLES balance, status, transfers

bankVars == << balance, status, transfers >>

Init ==
    /\ balance = Opening
    /\ status = [w \in Wallets |-> IF w \in Existing THEN "ACTIVE" ELSE "ABSENT"]
    /\ transfers = << >>

\* The transfer a client asked for with submission s.
Transfer(s) ==
    /\ {s.source, s.dest} \subseteq Wallets
    /\ s.source # s.dest
    /\ s.amount \in 1 .. balance[s.source]
    /\ balance[s.dest] + s.amount <= MaxBigint
    /\ \A w \in {s.source, s.dest} : status[w] = "ACTIVE" /\ CurrencyOf[w] = s.currency
    /\ \A i \in DOMAIN transfers : transfers[i].key # s.key
    /\ balance' = [balance EXCEPT ![s.source] = @ - s.amount, ![s.dest] = @ + s.amount]
    /\ transfers' = Append(transfers, [key |-> s.key, source |-> s.source, dest |-> s.dest,
                                       amount |-> s.amount, currency |-> s.currency])
    /\ UNCHANGED status

\* A wallet starts empty.
Open(w) ==
    /\ status[w] = "ABSENT"
    /\ balance[w] = 0
    /\ status' = [status EXCEPT ![w] = "ACTIVE"]
    /\ UNCHANGED << balance, transfers >>

SetStatus(w, newStatus) ==
    /\ status[w] # "ABSENT"
    /\ status' = [status EXCEPT ![w] = newStatus]
    /\ UNCHANGED << balance, transfers >>

Next ==
    \/ \E s \in Submissions : Transfer(s)
    \/ \E w \in Wallets : Open(w) \/ SetStatus(w, "ACTIVE") \/ SetStatus(w, "FROZEN")

Spec == Init /\ [][Next]_bankVars
=============================================================================

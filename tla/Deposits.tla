------------------------------ MODULE Deposits ------------------------------
(***************************************************************************)
(* What the engine promises once deposits join the transfers of Bank: a    *)
(* payment is asked for, and later it is either declined or paid, for      *)
(* good.  Paying is one step, which moves the ordered amount from the      *)
(* platform's account to the wallet.  There are no webhooks, no events and *)
(* no sessions here.                                                       *)
(***************************************************************************)
EXTENDS Bank

CONSTANTS Refs, Orders

VARIABLES
    order,      \* where each payment stands
    platform    \* net of the platform's account

depositVars == << balance, status, transfers, order, platform >>

DepositsInit ==
    /\ Init
    /\ order = [r \in Refs |-> "NONE"]
    /\ platform = 0

\* A payment becomes known, declined at once or still open.
Ask(r) ==
    /\ order[r] = "NONE"
    /\ Orders[r].amount > 0
    /\ status[Orders[r].wallet] # "ABSENT"
    /\ \E answer \in {"OPEN", "DECLINED"} : order' = [order EXCEPT ![r] = answer]
    /\ UNCHANGED << balance, status, transfers, platform >>

Decline(r) ==
    /\ order[r] = "OPEN"
    /\ order' = [order EXCEPT ![r] = "DECLINED"]
    /\ UNCHANGED << balance, status, transfers, platform >>

Pay(r) ==
    /\ order[r] = "OPEN"
    /\ order' = [order EXCEPT ![r] = "PAID"]
    /\ balance[Orders[r].wallet] + Orders[r].amount <= MaxBigint
    /\ balance' = [balance EXCEPT ![Orders[r].wallet] = @ + Orders[r].amount]
    /\ platform' = platform - Orders[r].amount
    /\ UNCHANGED << status, transfers >>

DepositsNext ==
    \/ Next /\ UNCHANGED << order, platform >>
    \/ \E r \in Refs : Ask(r) \/ Decline(r) \/ Pay(r)

DepositsSpec == DepositsInit /\ [][DepositsNext]_depositVars
=============================================================================

-------------------------- MODULE MCReconciliation --------------------------
(***************************************************************************)
(* An instance of Reconciliation for TLC: two wallets and a transfer in    *)
(* either direction, which may commit before or after every query.         *)
(***************************************************************************)
EXTENDS Reconciliation

TwoOwners == 1 :> "ann" @@ 2 :> "bob"
Rupees == [w \in Wallets |-> "INR"]
OneEach == [w \in Wallets |-> 1]
Canonical == [s \in IdStrings |-> s]

Submission(caller, source, dest) ==
    [key |-> "k1", caller |-> caller, source |-> source, dest |-> dest,
     amount |-> 1, currency |-> "INR"]

EitherWay == { Submission("ann", 1, 2), Submission("bob", 2, 1) }
=============================================================================

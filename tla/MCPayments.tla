---------------------------- MODULE MCPayments -----------------------------
(***************************************************************************)
(* An instance of Payments for TLC.  2 stands for 2^63 - 1, so that a      *)
(* credit may overflow.                                                    *)
(***************************************************************************)
EXTENDS Payments

Order(wallet, amount, currency) ==
    [wallet |-> wallet, amount |-> amount, currency |-> currency]

Event(ref, newStatus) == [ref |-> ref, status |-> newStatus, demo |-> FALSE]
DemoEvent(ref) == [ref |-> ref, status |-> "SUCCEEDED", demo |-> TRUE]

AllAnns == [w \in Wallets |-> "ann"]
Rupees == [w \in Wallets |-> "INR"]
Empty == [w \in Wallets |-> 0]

-----------------------------------------------------------------------------
\* Two payments into one wallet.  The first is made through HandleDemoFund, and
\* the provider's events for it contradict each other.
SharedWallet == 1 :> Order(1, 2, "INR") @@ 2 :> Order(1, 1, "INR")
Contradictory ==
    "demo1" :> DemoEvent(1) @@ "paid1" :> Event(1, "SUCCEEDED")
    @@ "failed1" :> Event(1, "FAILED") @@ "paid2" :> Event(2, "SUCCEEDED")
=============================================================================

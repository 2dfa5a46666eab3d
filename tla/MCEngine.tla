------------------------------ MODULE MCEngine ------------------------------
(***************************************************************************)
(* An instance of Engine for TLC: wallets 2 and 3, and a second spelling,  *)
(* 1, of wallet 3 that comes before both in string order, as an upper-case *)
(* spelling of a UUID does.                                                *)
(***************************************************************************)
EXTENDS Engine

Parse == 1 :> 3 @@ 2 :> 2 @@ 3 :> 3
Owners == 2 :> "ann" @@ 3 :> "bob"
Rupees == [w \in Wallets |-> "INR"]
OneEach == [w \in Wallets |-> 1]

\* Two transfers of all that wallet 2 has, which spell their destination
\* differently and so lock the two rows in opposite orders.
Spellings ==
    { [key |-> "k1", caller |-> "ann", source |-> 2, dest |-> 3, amount |-> 1, currency |-> "INR"],
      [key |-> "k2", caller |-> "ann", source |-> 2, dest |-> 1, amount |-> 1, currency |-> "INR"] }

\* A deposit into wallet 2 and the events that report it.
OneDeposit == 1 :> [wallet |-> 2, amount |-> 1, currency |-> "INR"]
OneReport == "paid" :> [ref |-> 1, status |-> "SUCCEEDED", demo |-> FALSE]
=============================================================================

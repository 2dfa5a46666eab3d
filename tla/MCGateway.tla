----------------------------- MODULE MCGateway -----------------------------
(***************************************************************************)
(* An instance of Gateway for TLC.                                         *)
(***************************************************************************)
EXTENDS Gateway

Anns == [w \in Wallets |-> "ann"]
Dollars == [w \in Wallets |-> "USD"]
Empty == [w \in Wallets |-> 0]

Registration(e, p, role) == [email |-> e, password |-> p, role |-> role]

\* The owner of the wallet registers without a role, and another address is
\* registered twice, with a role nobody knows and as staff.
Competing == { Registration("ann", "p1", ""), Registration("bob", "p1", "BOSS"),
               Registration("bob", "p2", "SYSTEM") }

\* Two connections of one origin; nothing comes from the other one.
SameOrigin == [c \in Connections |-> "o1"]
=============================================================================

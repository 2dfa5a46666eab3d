---------------------------- MODULE MCTransfers ----------------------------
(***************************************************************************)
(* Instances of Transfers for TLC.  Amounts and balances are small, so that*)
(* requests compete for money; 9 stands for 2^63 - 1.                       *)
(***************************************************************************)
EXTENDS Transfers

Symmetry == Permutations(Handlers)

Submission(key, caller, source, dest, amount, currency) ==
    [key |-> key, caller |-> caller, source |-> source, dest |-> dest,
     amount |-> amount, currency |-> currency]

-----------------------------------------------------------------------------
\* Three wallets, of which the third is yet to be created, each with its one
\* canonical spelling, and a spelling (9) that is no wallet's.
CanonicalWallets == {1, 2, 3}
CanonicalStrings == {1, 2, 3, 9}
CanonicalParse == [s \in CanonicalStrings |-> IF s = 9 THEN NoWallet ELSE s]
CanonicalOwner == 1 :> "ann" @@ 2 :> "bob" @@ 3 :> "ann"
CanonicalCurrency == [w \in CanonicalWallets |-> "INR"]
CanonicalOpening == 1 :> 2 @@ 2 :> 1 @@ 3 :> 0

\* A transfer of all that wallet 1 has, one that crosses it, and one, under a
\* key used before, that competes for the same money and whose destination
\* may not exist yet.
Competing ==
    { Submission("k1", "ann", 1, 2, 2, "INR"),
      Submission("k2", "bob", 2, 1, 1, "INR"),
      Submission("k2", "root", 1, 3, 1, "INR") }

\* One request for each key, repeated at will.
OnePerKey ==
    { Submission("k1", "ann", 1, 2, 2, "INR"),
      Submission("k2", "bob", 2, 1, 1, "INR") }

\* A request that may succeed, and under the other key one for each reason to
\* refuse it: ownership, amount, an unknown wallet, a wallet that may be
\* missing and has another currency, and, with MaxBigint = 2, an overflow.  The
\* last spells its destination, wallet 2, as 0, which comes before 1: it locks
\* the rows in the opposite order, and PostgreSQL may abort it or the first.
Refusable ==
    { Submission("k1", "ann", 1, 2, 1, "INR"),
      Submission("k2", "bob", 1, 2, 1, "INR"),
      Submission("k2", "ann", 1, 2, 0, "INR"),
      Submission("k2", "ann", 1, 9, 1, "INR"),
      Submission("k2", "ann", 1, 3, 1, "INR"),
      Submission("k2", "ann", 1, 0, 2, "INR") }

RespelledStrings == CanonicalStrings \cup {0}
RespelledParse == 0 :> 2 @@ CanonicalParse
TwoCurrencies == 1 :> "INR" @@ 2 :> "INR" @@ 3 :> "USD"

-----------------------------------------------------------------------------
\* Two wallets, 2 and 3, and a second spelling of wallet 3 that comes before
\* both in string order, as an upper-case spelling of a UUID does.
MixedWallets == {2, 3}
MixedStrings == {1, 2, 3}
MixedParse == 1 :> 3 @@ 2 :> 2 @@ 3 :> 3
MixedOwner == 2 :> "ann" @@ 3 :> "bob"
MixedCurrency == [w \in MixedWallets |-> "INR"]
MixedOpening == 2 :> 1 @@ 3 :> 1

\* A transfer whose source is spelled in the second way.
SourceRespelled == { Submission("k1", "bob", 1, 2, 1, "INR") }
=============================================================================

------------------------------- MODULE Engine -------------------------------
(***************************************************************************)
(* Transfers and payments at once, over one Database, as the API process   *)
(* runs them: a webhook credits a wallet that a transfer has locked or is  *)
(* about to lock, and wallets are created, frozen and unfrozen meanwhile.  *)
(***************************************************************************)
EXTENDS Transfers, Payments

engineVars == << dbVars, transferVars, paymentVars >>

ASSUME EngineAssumption == Handlers \cap Deliveries = {}

EngineInit == Init /\ PaymentsInit

\* PaymentsNext has the wallet operations too.
EngineNext ==
    \/ \E h \in Handlers : TransferStep(h) /\ UNCHANGED paymentVars
    \/ PaymentsNext /\ UNCHANGED transferVars

EngineSpec == EngineInit /\ [][EngineNext]_engineVars

\* The fairness of Transfers and of Payments, for the sessions of both.
EngineFairSpec ==
    /\ EngineSpec
    /\ \A h \in Handlers :
          /\ WF_engineVars(HandlerStep(h) /\ UNCHANGED paymentVars)
          /\ SF_engineVars(LockStep(h) /\ UNCHANGED paymentVars)
          /\ WF_engineVars(DeadlockAbort(h) /\ UNCHANGED paymentVars)
    /\ \A d \in Deliveries : SF_engineVars(DeliveryStep(d) /\ UNCHANGED transferVars)

-----------------------------------------------------------------------------
(* Properties. *)

\* A request with its wallet ids as PostgreSQL reads them.
Meant(s) == [s EXCEPT !.source = ParseUUID[@], !.dest = ParseUUID[@]]

BankWithDeposits == INSTANCE Deposits WITH
        Submissions <- {Meant(s) : s \in Submissions},
        order <- [r \in Refs |-> OrderState(r)],
        platform <- Net[PlatformAccount]

(* Whatever the sessions of transfers and webhooks do to each other, clients
   and the provider see atomic transfers and atomic deposits, and nothing else
   changes a balance: no money appears or vanishes, nothing leaves a frozen
   wallet, and a deposit is all that reaches one. *)
EngineIsABank == BankWithDeposits!DepositsSpec
=============================================================================

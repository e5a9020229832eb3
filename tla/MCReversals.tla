---------------------------- MODULE MCReversals -----------------------------
(***************************************************************************)
(* An invoice of two units with a Paystack payment of one unit and a       *)
(* PawaPay payment of two, two refund requests, two handlers.              *)
(***************************************************************************)
EXTENDS Reversals, TLC

CONSTANTS t1, t2, a1, a2, h1, h2

MCTxns == {t1, t2}
MCAmount == [t \in MCTxns |-> IF t = t1 THEN 1 ELSE 2]
MCAttempts == {a1, a2}
MCGateway == [t \in MCTxns |-> IF t = t1 THEN "PAYSTACK" ELSE "PAWAPAY"]
MCHandlers == {h1, h2}

\* A single payment: enough for two refund calls to meet over one row.
OnePayment == {t1}
OneAmount == [t \in OnePayment |-> 1]
OneGateway == [t \in OnePayment |-> "PAWAPAY"]

Symmetry == Permutations(Attempts) \cup Permutations(Handlers)

=============================================================================

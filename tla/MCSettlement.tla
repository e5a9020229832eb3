---------------------------- MODULE MCSettlement ----------------------------
(***************************************************************************)
(* An invoice or link of any shape, two charges of one or two units on it  *)
(* or for the event, and two deliveries: one of them uses up its two       *)
(* attempts, or each fails once.                                           *)
(***************************************************************************)
EXTENDS Settlement, TLC

CONSTANTS i1, a, b, j1, j2, j3

MCInvoices == {i1}
MCCharges == {a, b}
TwoJobs == {j1, j2}
ThreeJobs == {j1, j2, j3}
MCGateway == [c \in MCCharges |-> "PAWAPAY"]

\* Bound: a state outside it is checked, and not followed.
FewFailures == job[j1].tries + job[j2].tries <= 2

Symmetry == Permutations(Charges) \cup Permutations(Jobs)

=============================================================================

-------------------------- MODULE MCDisbursements --------------------------
(***************************************************************************)
(* Two categories, two payouts, one contribution of two units.  Cash is    *)
(* left to MCTreasury.                                                     *)
(***************************************************************************)
EXTENDS Disbursements, TLC, Folds

CONSTANTS p1, p2, c1, c2, t1

MCPayouts == {p1, p2}
MCCategories == {c1, c2}
MCContributions == {t1}
MCManual == {}
MCSettled == [t \in MCContributions |-> 2]
MCMaxAllocation == [c \in MCCategories |-> IF c = c1 THEN 2 ELSE 1]

\* Money!Sum agrees with the usual fold over the rows.
ASSUME SumIsFold ==
  \A f \in [1 .. 3 -> 0 .. 3] : \A S \in SUBSET (1 .. 3) :
    Sum(f, S) = MapThenFoldSet(LAMBDA x, y : x + y, 0, LAMBDA r : f[r],
                               LAMBDA T : CHOOSE r \in T : TRUE, S)

=============================================================================

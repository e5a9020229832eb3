----------------------------- MODULE MCTreasury -----------------------------
(***************************************************************************)
(* Two payouts of any kind, one charge of one unit with a fee of one, one *)
(* cash entry, one personal invoice; one more charge like it and one payout*)
(* to a vendor were Paystack's.                                            *)
(***************************************************************************)
EXTENDS Treasury, TLC

CONSTANTS p1, p2, t1, m1, s1, i1

MCPayouts == {p1, p2}
MCContributions == {t1, m1, s1}
MCManual == {m1}
MCPaystack == {s1}
MCSettled == [t \in MCContributions |-> IF t = m1 THEN 2 ELSE 1]
MCFee == [t \in MCContributions |-> IF t = m1 THEN 0 ELSE 1]
MCPersonal == {i1}
MCGross == [i \in MCPersonal |-> 3]
MCEarlier == [k \in Kinds |-> IF k = "disbursement" THEN 1 ELSE 0]

Symmetry == Permutations(Payouts)

=============================================================================

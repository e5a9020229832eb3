------------------------------ MODULE MCBudget ------------------------------
(***************************************************************************)
(* Two categories, a gateway contribution of two units and a cash entry of *)
(* one, a vendor, two payouts: one beside another of the same category, or *)
(* one that repeats a failed one.                                          *)
(*                                                                         *)
(* Requests that overlap are followed in full before there is a vendor.    *)
(* Beside a vendor and payouts they are followed for one category, so that *)
(* edits and allocations read while the budget was open are written under  *)
(* its payouts.                                                            *)
(***************************************************************************)
EXTENDS BudgetSpending, TLC

CONSTANTS c1, c2, t1, m1, h1, h2, v1, p1, p2

MCCategories == {c1, c2}
MCContributions == {t1, m1}
MCManual == {m1}
MCSettled == [t \in MCContributions |-> IF t = t1 THEN 2 ELSE 1]
MCCalls == {h1, h2}
MCVendors == {v1}
MCPayouts == {p1, p2}
MCOtherRequests == [op : {"delete"}, vendor : MCVendors]

\* Bound: a state outside it is checked, and not followed.  Overlapping beside a
\* vendor, who stays: one category ever, no cash entry, no template, no refusal.
OverlapsFollowed ==
  overlapped /\ toCome # Vendors =>
    /\ Cardinality({c \in Categories : exists[c] # "none"}) = 1
    /\ contribution[m1] = "none"
    /\ vendors = Vendors
    /\ \A h \in Calls : call[h].op \notin {"delete", "apply", "decline"}

Symmetry == Permutations(Categories) \cup Permutations(Calls) \cup Permutations(Payouts)

=============================================================================

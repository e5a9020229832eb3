--------------------------- MODULE MoneyTheorems ---------------------------
(***************************************************************************)
(* What every balance argument needs to know of Money!Sum.                 *)
(***************************************************************************)
EXTENDS Money, FiniteSetTheorems, TLAPS

\* The units of one row are as many as its amount.
LEMMA RowUnits ==
  ASSUME NEW r, NEW n \in Nat
  PROVE  /\ IsFiniteSet({r} \X (1 .. n))
         /\ Cardinality({r} \X (1 .. n)) = n
<1>1. IsFiniteSet({r}) /\ Cardinality({r}) = 1
  BY FS_Singleton
<1>2. IsFiniteSet(1 .. n) /\ Cardinality(1 .. n) = n
  BY FS_Interval
<1>3. /\ IsFiniteSet({r} \X (1 .. n))
      /\ Cardinality({r} \X (1 .. n)) = Cardinality({r}) * Cardinality(1 .. n)
  BY <1>1, <1>2, FS_Product
<1> QED
  BY <1>1, <1>2, <1>3

\* Finitely many rows hold finitely many units.
LEMMA UnitsFinite ==
  ASSUME NEW rows, IsFiniteSet(rows), NEW amount,
         \A r \in rows : amount[r] \in Nat
  PROVE  IsFiniteSet(Units(amount, rows))
<1> DEFINE f == [r \in rows |-> {r} \X (1 .. amount[r])]
           T == {{r} \X (1 .. amount[r]) : r \in rows}
<1>1. f \in Surjection(rows, T)
  BY DEF Surjection
<1>2. IsFiniteSet(T)
  <2> HIDE DEF f, T
  <2> QED BY <1>1, FS_Surjection
<1>3. ASSUME NEW U \in T
      PROVE  IsFiniteSet(U)
  <2>1. PICK r \in rows : U = {r} \X (1 .. amount[r])
    OBVIOUS
  <2>2. amount[r] \in Nat
    OBVIOUS
  <2> QED
    BY <2>1, <2>2, RowUnits
<1>4. IsFiniteSet(UNION T)
  <2> HIDE DEF T
  <2> QED BY <1>2, <1>3, FS_UNION
<1> QED
  BY <1>4 DEF Units

\* A sum of amounts is an amount.
LEMMA SumType ==
  ASSUME NEW rows, IsFiniteSet(rows), NEW amount,
         \A r \in rows : amount[r] \in Nat
  PROVE  Sum(amount, rows) \in Nat
BY UnitsFinite, FS_CardinalityType DEF Sum

\* No row, no money (`_sum.amount ?? 0`).
LEMMA SumEmpty ==
  ASSUME NEW amount
  PROVE  Sum(amount, {}) = 0
<1>1. Units(amount, {}) = {}
  BY DEF Units
<1> QED
  BY <1>1, FS_EmptySet DEF Sum

\* Only the amounts of the summed rows count.
LEMMA SumExt ==
  ASSUME NEW rows, NEW a, NEW b, \A r \in rows : a[r] = b[r]
  PROVE  Sum(a, rows) = Sum(b, rows)
<1>1. Units(a, rows) = Units(b, rows)
  BY DEF Units
<1> QED
  BY <1>1 DEF Sum

\* One more row adds its amount.
LEMMA SumAdd ==
  ASSUME NEW rows, IsFiniteSet(rows), NEW amount, NEW x, x \notin rows,
         \A r \in rows \cup {x} : amount[r] \in Nat
  PROVE  Sum(amount, rows \cup {x}) = Sum(amount, rows) + amount[x]
<1> DEFINE U == Units(amount, rows)
           V == {x} \X (1 .. amount[x])
<1>1. Units(amount, rows \cup {x}) = U \cup V
  BY DEF Units
<1>2. U \cap V = {}
  BY DEF Units
<1>3. IsFiniteSet(U) /\ Cardinality(U) \in Nat
  BY UnitsFinite, FS_CardinalityType
<1>4. IsFiniteSet(V) /\ Cardinality(V) = amount[x]
  BY RowUnits
<1>5. Cardinality(U \cup V) = Cardinality(U) + Cardinality(V) - Cardinality(U \cap V)
  <2> HIDE DEF U, V
  <2> QED BY <1>3, <1>4, FS_Union
<1>6. Cardinality(U \cap V) = 0
  BY <1>2, FS_EmptySet
<1>7. Sum(amount, rows \cup {x}) = Cardinality(U \cup V)
  BY <1>1 DEF Sum
<1>8. Sum(amount, rows) = Cardinality(U)
  BY DEF Sum
<1> HIDE DEF U, V
<1> QED
  BY <1>3, <1>4, <1>5, <1>6, <1>7, <1>8

\* One row less takes its amount away.
LEMMA SumRemove ==
  ASSUME NEW rows, IsFiniteSet(rows), NEW amount, NEW x \in rows,
         \A r \in rows : amount[r] \in Nat
  PROVE  Sum(amount, rows) = Sum(amount, rows \ {x}) + amount[x]
<1>1. IsFiniteSet(rows \ {x}) /\ x \notin rows \ {x}
  BY FS_RemoveElement
<1>2. rows = (rows \ {x}) \cup {x}
  OBVIOUS
<1>3. Sum(amount, (rows \ {x}) \cup {x}) = Sum(amount, rows \ {x}) + amount[x]
  BY <1>1, SumAdd
<1> QED
  BY <1>2, <1>3

\* Fewer rows never hold more money.
LEMMA SumMonotone ==
  ASSUME NEW rows, IsFiniteSet(rows), NEW amount, NEW part \in SUBSET rows,
         \A r \in rows : amount[r] \in Nat
  PROVE  Sum(amount, part) <= Sum(amount, rows)
<1>1. Units(amount, part) \in SUBSET Units(amount, rows)
  BY DEF Units
<1>2. IsFiniteSet(Units(amount, rows))
  BY UnitsFinite
<1> QED
  BY <1>1, <1>2, FS_Subset DEF Sum

\* Disjoint groups of rows are summed separately.
LEMMA SumDisjoint ==
  ASSUME NEW A, IsFiniteSet(A), NEW B, IsFiniteSet(B), A \cap B = {},
         NEW amount, \A r \in A \cup B : amount[r] \in Nat
  PROVE  Sum(amount, A \cup B) = Sum(amount, A) + Sum(amount, B)
<1> DEFINE U == Units(amount, A)
           V == Units(amount, B)
<1>1. Units(amount, A \cup B) = U \cup V
  BY DEF Units
<1>2. U \cap V = {}
  BY DEF Units
<1>3. IsFiniteSet(U) /\ Cardinality(U) \in Nat
  BY UnitsFinite, FS_CardinalityType
<1>4. IsFiniteSet(V) /\ Cardinality(V) \in Nat
  BY UnitsFinite, FS_CardinalityType
<1>5. Cardinality(U \cup V) = Cardinality(U) + Cardinality(V) - Cardinality(U \cap V)
  <2> HIDE DEF U, V
  <2> QED BY <1>3, <1>4, FS_Union
<1>6. Cardinality(U \cap V) = 0
  BY <1>2, FS_EmptySet
<1>7. Sum(amount, A \cup B) = Cardinality(U \cup V)
  BY <1>1 DEF Sum
<1>8. Sum(amount, A) = Cardinality(U) /\ Sum(amount, B) = Cardinality(V)
  BY DEF Sum
<1> HIDE DEF U, V
<1> QED
  BY <1>3, <1>4, <1>5, <1>6, <1>7, <1>8

\* Rows that hold no money add none.
LEMMA SumOfNothing ==
  ASSUME NEW rows, NEW amount, \A r \in rows : amount[r] = 0
  PROVE  Sum(amount, rows) = 0
<1>1. Units(amount, rows) = {}
  BY DEF Units
<1> QED
  BY <1>1, FS_EmptySet DEF Sum

\* Two aggregates differ by what each counts alone.
LEMMA SumDifference ==
  ASSUME NEW A, IsFiniteSet(A), NEW B, IsFiniteSet(B),
         NEW amount, \A r \in A \cup B : amount[r] \in Nat
  PROVE  /\ Sum(amount, A) \in Nat /\ Sum(amount, B) \in Nat
         /\ Sum(amount, A \ B) \in Nat /\ Sum(amount, B \ A) \in Nat
         /\ Sum(amount, A) + Sum(amount, B \ A) = Sum(amount, B) + Sum(amount, A \ B)
<1>1. IsFiniteSet(A \ B) /\ IsFiniteSet(B \ A) /\ IsFiniteSet(A \cap B)
  BY FS_Subset
<1>2. (A \ B) \cap (A \cap B) = {} /\ (A \ B) \cup (A \cap B) = A
  OBVIOUS
<1>3. (B \ A) \cap (A \cap B) = {} /\ (B \ A) \cup (A \cap B) = B
  OBVIOUS
<1>4. Sum(amount, (A \ B) \cup (A \cap B)) = Sum(amount, A \ B) + Sum(amount, A \cap B)
  BY <1>1, <1>2, SumDisjoint
<1>5. Sum(amount, (B \ A) \cup (A \cap B)) = Sum(amount, B \ A) + Sum(amount, A \cap B)
  BY <1>1, <1>3, SumDisjoint
<1>6. /\ Sum(amount, A \ B) \in Nat /\ Sum(amount, B \ A) \in Nat
      /\ Sum(amount, A \cap B) \in Nat
  BY <1>1, SumType
<1> QED
  BY <1>2, <1>3, <1>4, <1>5, <1>6

=============================================================================

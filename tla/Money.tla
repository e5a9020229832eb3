------------------------------- MODULE Money -------------------------------
(***************************************************************************)
(* Amounts of money and their aggregates.                                  *)
(*                                                                         *)
(* Every balance of the application is a difference of SQL aggregates      *)
(* (prisma `aggregate({ _sum: { amount: true } })`, with `?? 0` when no row*)
(* matches).  An amount is a natural number of minor units: the columns    *)
(* are Decimal(14, 2), so no rounding happens between them.                *)
(*                                                                         *)
(* Sum(amount, rows) is such an aggregate.  It counts the units the rows    *)
(* hold instead of folding over the rows, so that what it preserves can be *)
(* derived from the theorems about finite sets without an induction        *)
(* (MoneyTheorems); MCDisbursements compares it with the usual fold.       *)
(***************************************************************************)
EXTENDS Naturals, FiniteSets

\* The units of money held by the rows in the set rows.
Units(amount, rows) == UNION {{r} \X (1 .. amount[r]) : r \in rows}

\* _sum.amount over rows, 0 when the set is empty.
Sum(amount, rows) == Cardinality(Units(amount, rows))

=============================================================================

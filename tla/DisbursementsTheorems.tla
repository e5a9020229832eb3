----------------------- MODULE DisbursementsTheorems -----------------------
(***************************************************************************)
(* Vendor payouts are safe for every set of payouts, categories and        *)
(* contributions and every allocation.                                     *)
(*                                                                         *)
(* A live payout is spoken for: its row is PENDING, QUEUED or SUCCESS      *)
(* (LiveIsSpokenFor).  The rows that are spoken for fit the allocation and *)
(* the receipts (CategoryCovered, NeverBeyondReceipts), because Pay adds    *)
(* exactly what remains and every other step only takes rows away.  Hence  *)
(* the money PawaPay sent fits too (NeverOverpaid).                        *)
(***************************************************************************)
EXTENDS Disbursements, MoneyTheorems

\* The row agrees with the request that made it and with PawaPay.
RowAgrees(p) ==
  /\ request[p] = "idle" => gateway[p] = "none"
  /\ request[p] = "rejected" => gateway[p] = "rejected"
  /\ request[p] \in {"calling", "accepted", "rejected", "broken"} => status[p] = "PENDING"
  /\ p \in refStored => request[p] = "returned"
  /\ p \in callbacks => gateway[p] \in {"paid", "failed"}
  /\ status[p] = Done => gateway[p] = "paid"
  /\ status[p] = "FAILED" => gateway[p] \in {"rejected", "failed"}

RowsAgree == \A p \in Payouts : RowAgrees(p)

CategoryCovered == \A c \in Categories : AlreadyPaid(c) <= allocated[c]

IInv == RowsAgree /\ CategoryCovered /\ NeverBeyondReceipts

-----------------------------------------------------------------------------
(* Types *)

\* Every variable keeps its type along every step; in particular what Pay reserves
\* is a positive amount.
LEMMA TypeStep == TypeOK /\ [Next]_vars => TypeOK'
<1> SUFFICES ASSUME TypeOK, [Next]_vars PROVE TypeOK'
  OBVIOUS
<1> USE StatusNames, RedeliveriesBound, AllocationBound DEF TypeOK, PayoutTypeOK, Statuses
<1>1. ASSUME NEW p \in Payouts, NEW c \in Categories, Pay(p, c)
      PROVE  TypeOK'
  <2>1. Remaining(c) \in Int /\ Remaining(c) > 0
    <3>1. IsFiniteSet(CategoryRows(c))
      BY PayoutsFinite, FS_Subset DEF CategoryRows, EventRows
    <3>2. AlreadyPaid(c) \in Nat
      BY <3>1, SumType DEF AlreadyPaid, CategoryRows, EventRows
    <3> QED
      BY <1>1, <3>2 DEF Pay, Remaining
  <2>2. c # NoCategory
    BY CategoryNames
  <2> QED
    BY <1>1, <2>1, <2>2 DEF Pay, CreateRow
<1>2. ASSUME NEW p \in Payouts, PayoutStep(p), UNCHANGED eventVars
      PROVE  TypeOK'
  <2> USE <1>2 DEF eventVars
  <2>1. CASE RecordAccepted(p)
    BY <2>1 DEF RecordAccepted
  <2>2. CASE RecordRejected(p)
    BY <2>2 DEF RecordRejected
  <2>3. CASE RequestBreaks(p)
    BY <2>3 DEF RequestBreaks
  <2>4. ASSUME NEW a \in {"accepted", "rejected"}, GatewayAnswers(p, a)
        PROVE  TypeOK'
    BY <2>4 DEF GatewayAnswers
  <2>5. ASSUME NEW o \in {"paid", "failed"}, GatewaySettles(p, o)
        PROVE  TypeOK'
    BY <2>5 DEF GatewaySettles
  <2>6. CASE GatewayRedelivers(p)
    BY <2>6 DEF GatewayRedelivers
  <2>7. CASE CallbackMatches(p)
    BY <2>7 DEF CallbackMatches, NextStatus
  <2>8. CASE CallbackUnknown(p)
    BY <2>8 DEF CallbackUnknown
  <2> QED
    BY <2>1, <2>2, <2>3, <2>4, <2>5, <2>6, <2>7, <2>8 DEF PayoutStep
<1>3. ASSUME NEW c \in Categories, AllocationGrows(c)
      PROVE  TypeOK'
  BY <1>3 DEF AllocationGrows, payoutVars
<1>4. ASSUME NEW c \in Categories, CategoryRemoved(c)
      PROVE  TypeOK'
  BY <1>4 DEF CategoryRemoved, payoutVars
<1>5. ASSUME NEW c \in Categories, VendorChanges(c)
      PROVE  TypeOK'
  BY <1>5 DEF VendorChanges, payoutVars
<1>6. ASSUME NEW t \in Contributions, ContributionSettles(t) \/ ContributionReversed(t)
      PROVE  TypeOK'
  BY <1>6 DEF ContributionSettles, ContributionReversed, payoutVars
<1>7. CASE FundingChanges
  BY <1>7 DEF FundingChanges, payoutVars
<1>8. CASE UNCHANGED vars
  BY <1>8 DEF vars, payoutVars, eventVars
<1> QED
  BY <1>1, <1>2, <1>3, <1>4, <1>5, <1>6, <1>7, <1>8 DEF Next

\* The initial state is typed.
LEMMA InitTypeOK == Init => TypeOK
<1>1. ASSUME Init PROVE TypeOK
  <2>1. PayoutTypeOK
    BY <1>1, RedeliveriesBound DEF Init, PayoutInit, PayoutTypeOK, Statuses
  <2>2. /\ category \in [Payouts -> Categories \cup {NoCategory}]
        /\ amount \in [Payouts -> Nat]
    BY <1>1 DEF Init
  <2>5. allocated \in [Categories -> Nat] /\ \A c \in Categories : allocated[c] <= MaxAllocation[c]
    BY <1>1, AllocationBound DEF Init
  <2>6. contribution \in [Contributions -> {"none", "SUCCESS", "REFUNDED"}]
    BY <1>1 DEF Init
  <2>7. funded \in BOOLEAN /\ payable \in SUBSET Categories
    BY <1>1 DEF Init
  <2>3. \A p \in Payouts : status[p] = "none" /\ request[p] = "idle" /\ category[p] = NoCategory
    BY <1>1 DEF Init, PayoutInit
  <2>4. refStored = {}
    BY <1>1 DEF Init, PayoutInit
  <2> QED
    BY <2>1, <2>2, <2>3, <2>4, <2>5, <2>6, <2>7 DEF TypeOK
<1> QED
  BY <1>1

\* The type invariant of the vendor payouts.
THEOREM TypeCorrect == Spec => []TypeOK
BY InitTypeOK, TypeStep, PTL DEF Spec

-----------------------------------------------------------------------------
(* Rows and PawaPay *)

\* No step sets a row against PawaPay: only a refusal or a failed payout makes
\* it FAILED, only money that arrived makes it SUCCESS.
LEMMA RowsAgreeStep == TypeOK /\ RowsAgree /\ [Next]_vars => RowsAgree'
<1> SUFFICES ASSUME TypeOK, RowsAgree, [Next]_vars, NEW q \in Payouts
             PROVE  RowAgrees(q)'
  BY DEF RowsAgree
<1> USE StatusNames DEF TypeOK, PayoutTypeOK, Statuses, RowsAgree, RowAgrees
<1>1. ASSUME NEW p \in Payouts, NEW c \in Categories, Pay(p, c)
      PROVE  RowAgrees(q)'
  BY <1>1 DEF Pay, CreateRow
<1>2. ASSUME NEW p \in Payouts, PayoutStep(p)
      PROVE  RowAgrees(q)'
  <2>1. CASE RecordAccepted(p)
    BY <2>1 DEF RecordAccepted
  <2>2. CASE RecordRejected(p)
    BY <2>2 DEF RecordRejected
  <2>3. CASE RequestBreaks(p)
    BY <2>3 DEF RequestBreaks
  <2>4. ASSUME NEW a \in {"accepted", "rejected"}, GatewayAnswers(p, a)
        PROVE  RowAgrees(q)'
    BY <2>4 DEF GatewayAnswers
  <2>5. ASSUME NEW o \in {"paid", "failed"}, GatewaySettles(p, o)
        PROVE  RowAgrees(q)'
    BY <2>5 DEF GatewaySettles
  <2>6. CASE GatewayRedelivers(p)
    BY <2>6 DEF GatewayRedelivers
  <2>7. CASE CallbackMatches(p)
    BY <2>7 DEF CallbackMatches, NextStatus
  <2>8. CASE CallbackUnknown(p)
    BY <2>8 DEF CallbackUnknown
  <2> QED
    BY <1>2, <2>1, <2>2, <2>3, <2>4, <2>5, <2>6, <2>7, <2>8 DEF PayoutStep
<1>3. CASE UNCHANGED payoutVars
  BY <1>3 DEF payoutVars
<1>4. \A c \in Categories :
        AllocationGrows(c) \/ CategoryRemoved(c) \/ VendorChanges(c) => UNCHANGED payoutVars
  BY DEF AllocationGrows, CategoryRemoved, VendorChanges
<1>5. \A t \in Contributions :
        ContributionSettles(t) \/ ContributionReversed(t) => UNCHANGED payoutVars
  BY DEF ContributionSettles, ContributionReversed
<1>6. FundingChanges \/ UNCHANGED vars => UNCHANGED payoutVars
  BY DEF FundingChanges, vars
<1> QED
  BY <1>1, <1>2, <1>3, <1>4, <1>5, <1>6 DEF Next

\* A payout PawaPay may still execute, or has executed, is spoken for.
LEMMA LiveIsSpokenFor ==
  TypeOK /\ RowsAgree => \A c \in Categories : LiveRows(c) \subseteq CategoryRows(c)
BY StatusNames DEF TypeOK, PayoutTypeOK, Statuses, RowsAgree, RowAgrees,
   LiveRows, Live, CategoryRows, EventRows, SpokenFor

-----------------------------------------------------------------------------
(* Money *)

\* The rows of the event and of its categories are finitely many amounts.
LEMMA RowsFinite ==
  ASSUME TypeOK
  PROVE  /\ IsFiniteSet(EventRows) /\ EventDisbursed \in Nat
         /\ \A c \in Categories :
              IsFiniteSet(CategoryRows(c)) /\ AlreadyPaid(c) \in Nat
<1>1. IsFiniteSet(EventRows)
  BY PayoutsFinite, FS_Subset DEF EventRows
<1>2. ASSUME NEW c \in Categories PROVE IsFiniteSet(CategoryRows(c))
  BY <1>1, FS_Subset DEF CategoryRows
<1>3. \A p \in EventRows : amount[p] \in Nat
  BY DEF EventRows, TypeOK
<1>4. EventDisbursed \in Nat
  BY <1>1, <1>3, SumType DEF EventDisbursed
<1>5. ASSUME NEW c \in Categories PROVE AlreadyPaid(c) \in Nat
  BY <1>2, <1>3, SumType DEF AlreadyPaid, CategoryRows
<1> QED
  BY <1>1, <1>2, <1>4, <1>5

\* Pay adds one row of Remaining(c) to its category and to the event, and
\* nothing to the other categories.
LEMMA PayAdds ==
  ASSUME TypeOK, NEW p \in Payouts, NEW c \in Categories, Pay(p, c)
  PROVE  /\ EventDisbursed' = EventDisbursed + Remaining(c)
         /\ \A d \in Categories :
              AlreadyPaid(d)' = IF d = c THEN allocated[c] ELSE AlreadyPaid(d)
<1> DEFINE r == Remaining(c)
<1>1. r \in Nat /\ AlreadyPaid(c) \in Nat /\ allocated[c] \in Nat
  BY RowsFinite, AllocationBound DEF Pay, Remaining, TypeOK
<1>2. /\ amount \in [Payouts -> Nat]
      /\ amount' = [amount EXCEPT ![p] = r]
      /\ category \in [Payouts -> Categories \cup {NoCategory}]
      /\ category' = [category EXCEPT ![p] = c]
      /\ status' = [status EXCEPT ![p] = "PENDING"]
      /\ status \in [Payouts -> Statuses]
      /\ status[p] = "none"
  BY DEF TypeOK, PayoutTypeOK, Pay, CreateRow
<1>3. p \notin EventRows
  BY <1>2, StatusNames DEF EventRows, SpokenFor
<1> HIDE DEF r
<1>4. ASSUME NEW S, S \subseteq EventRows, IsFiniteSet(S)
      PROVE  Sum(amount', S \cup {p}) = Sum(amount, S) + r /\ Sum(amount', S) = Sum(amount, S)
  <2>1. \A q \in S : amount'[q] = amount[q] /\ amount[q] \in Nat
    BY <1>2, <1>3, <1>4 DEF EventRows
  <2>2. amount'[p] = r
    BY <1>2
  <2>3. \A q \in S \cup {p} : amount'[q] \in Nat
    BY <1>1, <2>1, <2>2
  <2>4. p \notin S
    BY <1>3, <1>4
  <2>5. Sum(amount', S \cup {p}) = Sum(amount', S) + amount'[p]
    BY <1>4, <2>3, <2>4, SumAdd
  <2>6. Sum(amount', S) = Sum(amount, S)
    BY <2>1, SumExt
  <2> QED
    BY <2>2, <2>5, <2>6
<1>5. EventRows' = EventRows \cup {p}
  BY <1>2, StatusNames DEF EventRows, SpokenFor
<1>6. CategoryRows(c)' = CategoryRows(c) \cup {p}
  BY <1>2, <1>3, <1>5 DEF CategoryRows, EventRows
<1>7. \A d \in Categories : d # c => CategoryRows(d)' = CategoryRows(d)
  BY <1>2, <1>3, <1>5 DEF CategoryRows, EventRows
<1>8. EventDisbursed' = EventDisbursed + r
  BY <1>4, <1>5, RowsFinite DEF EventDisbursed
<1>9. AlreadyPaid(c)' = AlreadyPaid(c) + r
  BY <1>4, <1>6, RowsFinite DEF AlreadyPaid, CategoryRows
<1>10. \A d \in Categories : d # c => AlreadyPaid(d)' = AlreadyPaid(d)
  BY <1>4, <1>7, RowsFinite DEF AlreadyPaid, CategoryRows
<1>11. AlreadyPaid(c) + r = allocated[c]
  BY <1>1 DEF r, Remaining
<1> QED
  BY <1>8, <1>9, <1>10, <1>11 DEF r

\* Every other step of a payout keeps its row or releases it.
LEMMA OthersRelease ==
  ASSUME TypeOK, RowsAgree, category' = category, amount' = amount,
         (\E p \in Payouts : PayoutStep(p)) \/ UNCHANGED payoutVars
  PROVE  /\ EventDisbursed' <= EventDisbursed
         /\ \A c \in Categories : AlreadyPaid(c)' <= AlreadyPaid(c)
<1>1. EventRows' \subseteq EventRows
  <2> USE StatusNames DEF EventRows, SpokenFor, TypeOK, PayoutTypeOK, Statuses
  <2>1. CASE UNCHANGED payoutVars
    BY <2>1 DEF payoutVars
  <2>2. ASSUME NEW p \in Payouts, PayoutStep(p)
        PROVE  EventRows' \subseteq EventRows
    <3>1. CASE RecordAccepted(p)
      BY <3>1 DEF RecordAccepted, RowsAgree, RowAgrees
    <3>2. CASE RecordRejected(p)
      BY <3>2 DEF RecordRejected
    <3>3. CASE CallbackMatches(p)
      <4>1. gateway[p] = "paid" => status[p] # "FAILED"
        BY <3>3 DEF RowsAgree, RowAgrees
      <4>2. status[p] # "none"
        BY <3>3 DEF CallbackMatches
      <4> QED
        BY <3>3, <4>1, <4>2 DEF CallbackMatches, NextStatus
    <3>4. CASE UNCHANGED status
      BY <3>4
    <3> QED
      BY <2>2, <3>1, <3>2, <3>3, <3>4 DEF PayoutStep, RequestBreaks, GatewayAnswers,
         GatewaySettles, GatewayRedelivers, CallbackUnknown
  <2> QED
    BY <2>1, <2>2
<1>2. \A p \in Payouts : amount[p] \in Nat
  BY DEF TypeOK
<1>3. EventDisbursed' <= EventDisbursed
  BY <1>1, <1>2, RowsFinite, SumMonotone DEF EventDisbursed, EventRows
<1>4. ASSUME NEW c \in Categories PROVE AlreadyPaid(c)' <= AlreadyPaid(c)
  <2>1. CategoryRows(c)' \subseteq CategoryRows(c)
    BY <1>1 DEF CategoryRows
  <2> QED
    BY <1>2, <2>1, RowsFinite, SumMonotone DEF AlreadyPaid, CategoryRows, EventRows
<1> QED
  BY <1>3, <1>4

\* The rows of a category that is removed are of no category; the event still
\* counts them, and other categories do not notice.
LEMMA RemovalDetaches ==
  ASSUME TypeOK, NEW c \in Categories, CategoryRemoved(c)
  PROVE  /\ EventDisbursed' = EventDisbursed /\ AlreadyPaid(c)' = 0
         /\ \A d \in Categories : d # c => AlreadyPaid(d)' = AlreadyPaid(d)
<1>1. /\ status' = status /\ amount' = amount
      /\ category' = [p \in Payouts |-> IF category[p] = c THEN NoCategory ELSE category[p]]
  BY DEF CategoryRemoved, payoutVars
<1>2. EventRows' = EventRows
  BY <1>1 DEF EventRows
<1>3. CategoryRows(c)' = {}
  BY <1>1, <1>2, CategoryNames DEF CategoryRows, EventRows
<1>4. \A d \in Categories : d # c => CategoryRows(d)' = CategoryRows(d)
  BY <1>1, <1>2, CategoryNames DEF CategoryRows, EventRows
<1>5. AlreadyPaid(c)' = Sum(amount, {})
  BY <1>1, <1>3 DEF AlreadyPaid
<1> QED
  BY <1>1, <1>2, <1>4, <1>5, SumEmpty DEF EventDisbursed, AlreadyPaid

\* What the event ever received only grows, and a reversal does not lower it.
LEMMA ReceiptsGrow ==
  ASSUME TypeOK, [Next]_vars
  PROVE  EverReceived \in Nat /\ EverReceived' \in Nat /\ EverReceived <= EverReceived'
<1> DEFINE R == {t \in Contributions \ Manual : contribution[t] # "none"}
<1>1. IsFiniteSet(Contributions)
  BY ContributionRows
<1>2. \A t \in Contributions : Settled[t] \in Nat
  BY ContributionRows
<1>3. R \subseteq R'
  BY DEF Next, Pay, AllocationGrows, CategoryRemoved, VendorChanges, ContributionSettles,
     ContributionReversed, FundingChanges, eventVars, vars, TypeOK
<1>4. IsFiniteSet(R) /\ IsFiniteSet(R')
  BY <1>1, FS_Subset
<1> QED
  BY <1>2, <1>3, <1>4, SumType, SumMonotone DEF EverReceived

\* What the guard of Pay calls received was received.
LEMMA ReceivedWasReceived ==
  ASSUME TypeOK
  PROVE  EventReceived \in Nat /\ EverReceived \in Nat /\ EventReceived <= EverReceived
<1> DEFINE S == {t \in Contributions \ Manual : contribution[t] = "SUCCESS"}
           R == {t \in Contributions \ Manual : contribution[t] # "none"}
<1>1. IsFiniteSet(S) /\ IsFiniteSet(R) /\ S \subseteq R
  BY ContributionRows, FS_Subset
<1>2. \A t \in Contributions : Settled[t] \in Nat
  BY ContributionRows
<1> QED
  BY <1>1, <1>2, SumType, SumMonotone DEF EventReceived, EverReceived

\* The rows that are spoken for keep fitting the allocation and the receipts.
LEMMA CoveredStep == TypeOK /\ IInv /\ [Next]_vars => CategoryCovered' /\ NeverBeyondReceipts'
<1> SUFFICES ASSUME TypeOK, IInv, [Next]_vars
             PROVE  CategoryCovered' /\ NeverBeyondReceipts'
  OBVIOUS
<1>1. EverReceived \in Nat /\ EverReceived' \in Nat /\ EverReceived <= EverReceived'
  BY ReceiptsGrow
<1>2. TypeOK'
  BY TypeStep
<1>3. /\ EventDisbursed \in Nat
      /\ \A c \in Categories : AlreadyPaid(c) \in Nat /\ allocated[c] \in Nat
  BY RowsFinite, AllocationBound DEF TypeOK
<1>4. EventDisbursed' \in Nat /\ \A c \in Categories : AlreadyPaid(c)' \in Nat
  <2>1. IsFiniteSet(EventRows') /\ \A c \in Categories : IsFiniteSet(CategoryRows(c)')
    BY PayoutsFinite, FS_Subset DEF EventRows, CategoryRows
  <2>2. \A p \in Payouts : amount'[p] \in Nat
    BY <1>2 DEF TypeOK
  <2> QED
    BY <2>1, <2>2, SumType DEF EventDisbursed, AlreadyPaid, EventRows, CategoryRows
<1>5. ASSUME NEW p \in Payouts, NEW c \in Categories, Pay(p, c)
      PROVE  CategoryCovered' /\ NeverBeyondReceipts'
  <2>1. allocated' = allocated /\ Remaining(c) <= EventReceived - EventDisbursed
    BY <1>5 DEF Pay, EventRealRemaining
  <2>2. Remaining(c) \in Int
    BY <1>3 DEF Remaining
  <2>3. CategoryCovered'
    BY <1>5, <1>3, <2>1, PayAdds DEF CategoryCovered, IInv
  <2>4. EventDisbursed' <= EventReceived
    BY <1>5, <1>3, <2>1, <2>2, PayAdds, ReceivedWasReceived
  <2> QED
    BY <1>1, <1>4, <2>3, <2>4, ReceivedWasReceived DEF NeverBeyondReceipts
<1>6. ASSUME category' = category, amount' = amount,
             \A c \in Categories : allocated'[c] \in Nat /\ allocated[c] <= allocated'[c],
             (\E p \in Payouts : PayoutStep(p)) \/ UNCHANGED payoutVars
      PROVE  CategoryCovered' /\ NeverBeyondReceipts'
  <2>1. /\ EventDisbursed' <= EventDisbursed
        /\ \A c \in Categories : AlreadyPaid(c)' <= AlreadyPaid(c)
    BY <1>6, OthersRelease DEF IInv
  <2> QED
    BY <1>1, <1>3, <1>4, <1>6, <2>1 DEF IInv, CategoryCovered, NeverBeyondReceipts
<1>7. ASSUME NEW c \in Categories, AllocationGrows(c)
      PROVE  \A d \in Categories : allocated'[d] \in Nat /\ allocated[d] <= allocated'[d]
  BY <1>7, AllocationBound DEF AllocationGrows, TypeOK
<1>8. ASSUME NEW c \in Categories, CategoryRemoved(c)
      PROVE  CategoryCovered' /\ NeverBeyondReceipts'
  <2>1. /\ EventDisbursed' = EventDisbursed /\ AlreadyPaid(c)' = 0
        /\ \A d \in Categories : d # c => AlreadyPaid(d)' = AlreadyPaid(d)
    BY <1>8, RemovalDetaches
  <2>2. allocated'[c] = 0 /\ \A d \in Categories : d # c => allocated'[d] = allocated[d]
    BY <1>8 DEF CategoryRemoved, TypeOK
  <2>3. CategoryCovered'
    BY <2>1, <2>2 DEF CategoryCovered, IInv
  <2> QED
    BY <1>1, <1>3, <2>1, <2>3 DEF IInv, NeverBeyondReceipts
<1>9. allocated' = allocated =>
        \A d \in Categories : allocated'[d] \in Nat /\ allocated[d] <= allocated'[d]
  BY <1>3
<1> QED
  BY <1>5, <1>6, <1>7, <1>8, <1>9 DEF Next, AllocationGrows, VendorChanges, ContributionSettles,
     ContributionReversed, FundingChanges, eventVars, vars

-----------------------------------------------------------------------------
(* Theorems *)

\* The inductive invariant: rows agree with PawaPay, and what is spoken for
\* fits every allocation and the receipts.
THEOREM Inductive == Spec => []IInv
<1>1. ASSUME Init PROVE IInv
  <2>1. RowsAgree
    BY <1>1, StatusNames DEF Init, PayoutInit, RowsAgree, RowAgrees
  <2>2. EventRows = {} /\ \A c \in Categories : CategoryRows(c) = {}
    BY <1>1, StatusNames DEF Init, PayoutInit, EventRows, CategoryRows, SpokenFor
  <2>3. EventDisbursed = 0 /\ \A c \in Categories : AlreadyPaid(c) = 0
    BY <2>2, SumEmpty DEF EventDisbursed, AlreadyPaid
  <2>4. TypeOK
    BY <1>1, InitTypeOK
  <2>5. EverReceived \in Nat
    BY <2>4, ReceivedWasReceived
  <2> QED
    BY <1>1, <2>1, <2>3, <2>5 DEF IInv, CategoryCovered, NeverBeyondReceipts, Init
<1>2. TypeOK /\ IInv /\ [Next]_vars => IInv'
  BY RowsAgreeStep, CoveredStep DEF IInv
<1> QED
  BY <1>1, <1>2, TypeCorrect, PTL DEF Spec

\* No category is ever paid more than its allocation, counting the payouts that
\* broke off, are still in PawaPay's hands or were repeated.
THEOREM VendorsNeverOverpaid == Spec => []NeverOverpaid
<1>1. TypeOK /\ IInv => NeverOverpaid
  <2> SUFFICES ASSUME TypeOK, IInv, NEW c \in Categories
               PROVE  Sum(amount, LiveRows(c)) <= allocated[c]
    BY DEF NeverOverpaid
  <2>1. LiveRows(c) \in SUBSET CategoryRows(c)
    BY LiveIsSpokenFor DEF IInv
  <2>2. IsFiniteSet(CategoryRows(c)) /\ AlreadyPaid(c) \in Nat
    BY RowsFinite
  <2>3. \A p \in CategoryRows(c) : amount[p] \in Nat
    BY DEF TypeOK, CategoryRows, EventRows
  <2>4. Sum(amount, LiveRows(c)) <= AlreadyPaid(c)
    BY <2>1, <2>2, <2>3, SumMonotone DEF AlreadyPaid
  <2>5. Sum(amount, LiveRows(c)) \in Nat
    BY <2>1, <2>2, <2>3, FS_Subset, SumType
  <2>6. allocated[c] \in Nat /\ AlreadyPaid(c) <= allocated[c]
    BY AllocationBound DEF IInv, CategoryCovered, TypeOK
  <2> QED
    BY <2>2, <2>4, <2>5, <2>6
<1> QED
  BY <1>1, Inductive, TypeCorrect, PTL

\* Vendor payouts never draw on cash entries or on an allocation that outgrew
\* what the event received.
THEOREM PayoutsCoveredByReceipts == Spec => []NeverBeyondReceipts
BY Inductive, PTL DEF IInv

\* A FAILED disbursement did not pay, a SUCCESS one did.
THEOREM RowsTellTheTruth == Spec => []FinalMatchesGateway
<1>1. IInv => FinalMatchesGateway
  BY DEF IInv, RowsAgree, RowAgrees, FinalMatchesGateway
<1> QED
  BY <1>1, Inductive, PTL

-----------------------------------------------------------------------------
(* Refinement *)

\* What the pool sees of a payout.
PoolState(p) ==
  IF request[p] = "idle" THEN "free"
  ELSE IF gateway[p] \in {"none", "accepted"} THEN "held"
  ELSE IF gateway[p] = "paid" THEN "paid"
  ELSE "void"

\* What the pool calls committed is what is live.
LEMMA CommittedIsLive ==
  TypeOK /\ RowsAgree => \A c \in Categories : Pool!Committed(c) = LiveRows(c)
BY DEF TypeOK, PayoutTypeOK, RowsAgree, RowAgrees, Pool!Committed, LiveRows, Live

\* A reservation holds what remains of its category.
LEMMA PayHolds ==
  ASSUME TypeOK, IInv, NEW p \in Payouts, NEW c \in Categories, Pay(p, c)
  PROVE  Pool!Hold(p, c)
<1>1. PoolState(p) = "free" /\ request[p] = "idle" /\ gateway[p] = "none"
  BY DEF Pay, CreateRow, TypeOK, PoolState, IInv, RowsAgree, RowAgrees
<1>2. [q \in Payouts |-> PoolState(q)]' = [[q \in Payouts |-> PoolState(q)] EXCEPT ![p] = "held"]
  BY <1>1 DEF Pay, CreateRow, PoolState, TypeOK, PayoutTypeOK
<1>3. Remaining(c) \in 1 .. allocated[c] /\ AlreadyPaid(c) + Remaining(c) <= allocated[c]
  BY RowsFinite, AllocationBound DEF Pay, Remaining, TypeOK
<1>4. Sum(amount, Pool!Committed(c)) \in Nat /\ Sum(amount, Pool!Committed(c)) <= AlreadyPaid(c)
  <2>1. Pool!Committed(c) \in SUBSET CategoryRows(c)
    BY CommittedIsLive, LiveIsSpokenFor DEF IInv
  <2>2. IsFiniteSet(CategoryRows(c)) /\ \A q \in CategoryRows(c) : amount[q] \in Nat
    BY RowsFinite DEF TypeOK, CategoryRows, EventRows
  <2> QED
    BY <2>1, <2>2, FS_Subset, SumType, SumMonotone DEF AlreadyPaid
<1>5. AlreadyPaid(c) \in Nat /\ allocated[c] \in Nat
  BY RowsFinite, AllocationBound DEF TypeOK
<1>6. Sum(amount, Pool!Committed(c)) + Remaining(c) <= allocated[c]
  BY <1>3, <1>4, <1>5
<1>7. /\ amount' = [amount EXCEPT ![p] = Remaining(c)]
      /\ category' = [category EXCEPT ![p] = c]
      /\ UNCHANGED allocated
  BY DEF Pay
<1>8. Pool!Sum(amount, Pool!Committed(c)) = Sum(amount, Pool!Committed(c))
  BY DEF Pool!Sum, Sum, Pool!Units, Units, Pool!Cardinality, Cardinality
<1>9. \E a \in 1 .. allocated[c] :
        /\ Pool!Sum(amount, Pool!Committed(c)) + a <= allocated[c]
        /\ amount' = [amount EXCEPT ![p] = a]
  BY <1>3, <1>6, <1>7, <1>8
<1>10. [q \in Payouts |-> PoolState(q)][p] = "free"
  BY <1>1
<1> QED
  BY <1>2, <1>7, <1>9, <1>10 DEF Pool!Hold, PoolState

\* Every other step of a payout is its settlement, its release or nothing.
LEMMA PayoutStepIsPool ==
  ASSUME TypeOK, IInv, NEW p \in Payouts, PayoutStep(p), UNCHANGED eventVars
  PROVE  Pool!Pay(p) \/ Pool!Release(p) \/ UNCHANGED Pool!poolVars
<1> DEFINE map == [q \in Payouts |-> PoolState(q)]
<1>1. UNCHANGED <<allocated, amount, category>>
  BY DEF eventVars
<1>2. ASSUME NEW a \in {"accepted", "rejected"}, GatewayAnswers(p, a)
      PROVE  \/ PoolState(p) = "held" /\ map' = [map EXCEPT ![p] = "void"]
             \/ map' = map
  <2>1. CASE request[p] = "idle"
    BY <1>2, <2>1 DEF GatewayAnswers
  <2>2. CASE request[p] # "idle" /\ a = "accepted"
    BY <1>2, <2>2 DEF GatewayAnswers, PoolState, TypeOK, PayoutTypeOK
  <2>3. CASE request[p] # "idle" /\ a = "rejected"
    BY <1>2, <2>3 DEF GatewayAnswers, PoolState, TypeOK, PayoutTypeOK
  <2> QED
    BY <2>1, <2>2, <2>3
<1>3. ASSUME NEW o \in {"paid", "failed"}, GatewaySettles(p, o)
      PROVE  /\ PoolState(p) = "held"
             /\ map' = [map EXCEPT ![p] = IF o = "paid" THEN "paid" ELSE "void"]
  BY <1>3 DEF GatewaySettles, PoolState, TypeOK, PayoutTypeOK, IInv, RowsAgree, RowAgrees
<1>4. CASE RecordAccepted(p) \/ RecordRejected(p) \/ RequestBreaks(p)
  <2>1. gateway' = gateway /\ request[p] # "idle" /\ request'[p] # "idle"
        /\ \A q \in Payouts : q # p => request'[q] = request[q]
    BY <1>4 DEF RecordAccepted, RecordRejected, RequestBreaks, TypeOK, PayoutTypeOK
  <2>2. map' = map
    BY <2>1 DEF PoolState
  <2> QED
    BY <1>1, <2>2 DEF Pool!poolVars, PoolState
<1>5. CASE GatewayRedelivers(p) \/ CallbackMatches(p) \/ CallbackUnknown(p)
  <2>1. UNCHANGED <<request, gateway>>
    BY <1>5 DEF GatewayRedelivers, CallbackMatches, CallbackUnknown
  <2>2. map' = map
    BY <2>1 DEF PoolState
  <2> QED
    BY <1>1, <2>2 DEF Pool!poolVars, PoolState
<1>6. CASE GatewayAnswers(p, "accepted") \/ GatewayAnswers(p, "rejected")
  BY <1>1, <1>2, <1>6 DEF Pool!Release, Pool!poolVars, PoolState
<1>7. CASE GatewaySettles(p, "paid") \/ GatewaySettles(p, "failed")
  BY <1>1, <1>3, <1>7 DEF Pool!Pay, Pool!Release, PoolState
<1> QED
  BY <1>4, <1>5, <1>6, <1>7 DEF PayoutStep

\* The disbursement service keeps the promise of PayoutPool: whatever breaks, a
\* payout is held before it is sent, fits its category, and is given back only
\* when PawaPay did not make it.
THEOREM Refines == Spec => ImplementsPool
<1>1. Init => Pool!PoolInit
  BY DEF Init, PayoutInit, Pool!PoolInit
<1>2. TypeOK /\ IInv /\ [Next]_vars => [Pool!PoolNext]_(Pool!poolVars)
  <2> SUFFICES ASSUME TypeOK, IInv, [Next]_vars
               PROVE  Pool!PoolNext \/ UNCHANGED Pool!poolVars
    OBVIOUS
  <2>1. ASSUME NEW p \in Payouts, NEW c \in Categories, Pay(p, c)
        PROVE  Pool!PoolNext
    BY <2>1, PayHolds DEF Pool!PoolNext
  <2>2. ASSUME NEW p \in Payouts, PayoutStep(p), UNCHANGED eventVars
        PROVE  Pool!PoolNext \/ UNCHANGED Pool!poolVars
    BY <2>2, PayoutStepIsPool DEF Pool!PoolNext
  <2>3. ASSUME NEW c \in Categories, AllocationGrows(c)
        PROVE  Pool!PoolNext
    <3>1. allocated' \in [Categories -> Nat] /\ allocated'[c] > allocated[c]
          /\ allocated' = [allocated EXCEPT ![c] = allocated'[c]]
      BY <2>3, AllocationBound DEF AllocationGrows, TypeOK
    <3>2. UNCHANGED <<request, gateway, amount, category>>
      BY <2>3 DEF AllocationGrows, payoutVars
    <3>3. Pool!Grow(c)
      BY <3>1, <3>2 DEF Pool!Grow
    <3> QED
      BY <3>3 DEF Pool!PoolNext
  <2>4. ASSUME NEW c \in Categories, CategoryRemoved(c)
        PROVE  Pool!PoolNext
    <3>1. UNCHANGED <<request, gateway, amount>>
      BY <2>4 DEF CategoryRemoved, payoutVars
    <3>2. Pool!Close(c)
      BY <2>4, <3>1 DEF CategoryRemoved, Pool!Close
    <3> QED
      BY <3>2 DEF Pool!PoolNext
  <2>5. ASSUME UNCHANGED <<payoutVars, category, amount, allocated>>
        PROVE  UNCHANGED Pool!poolVars
    BY <2>5 DEF payoutVars, Pool!poolVars
  <2> QED
    BY <2>1, <2>2, <2>3, <2>4, <2>5 DEF Next, VendorChanges, ContributionSettles,
       ContributionReversed, FundingChanges, vars, eventVars
<1> QED
  BY <1>1, <1>2, TypeCorrect, Inductive, PTL DEF Spec, ImplementsPool, Pool!PoolSpec

=============================================================================

-------------------------- MODULE TreasuryTheorems --------------------------
(***************************************************************************)
(* The three pools of one wallet, for every set of payouts, contributions  *)
(* and personal invoices and every amount.                                 *)
(*                                                                         *)
(* A payout whose money may still leave has a row the balances count, or a *)
(* PENDING withdrawal they do not (LiveIsCounted).  A request that is not  *)
(* late therefore looks at all that is live, the late ones included, and   *)
(* what it adds fits what was ever received (OnlyLateOverdraw).  The       *)
(* comparison with the wallet is a sum over rows: the rows the books count *)
(* and the payouts the wallet made differ exactly by the rows that do not  *)
(* say what happened (CountedButNotPaid, PaidButNotCounted), and so do the *)
(* charges it took and those the books count (ReceiptsDiffer).             *)
(***************************************************************************)
EXTENDS Treasury, MoneyTheorems

\* The row agrees with the request that made it and with PawaPay.
RowAgrees(p) ==
  /\ request[p] = "idle" => gateway[p] = "none"
  /\ request[p] = "rejected" => gateway[p] = "rejected"
  /\ request[p] \in {"calling", "accepted", "rejected", "broken"} => status[p] = "PENDING"
  /\ p \in refStored => request[p] = "returned"
  /\ p \in callbacks => gateway[p] \in {"paid", "failed"}
  /\ status[p] = Done => gateway[p] = "paid"
  /\ status[p] = "FAILED" => gateway[p] \in {"rejected", "failed"}

RowsAgree == \A p \in Payouts : RowAgrees(p)

IInv == TypeOK /\ RowsAgree /\ OnlyLateOverdraw

\* The steps of Next, by what they change.
Requests ==
  \E p \in Payouts, a \in 0 .. MaxAmount :
    RequestWithdrawal(p, a) \/ Pay(p, a) \/ RequestPlatformWithdrawal(p, a)
MoneyMoves ==
  \/ SetDestination
  \/ \E t \in Contributions :
       \/ PayerCharged(t)
       \/ WebhookCredits(t)
       \/ RecordManual(t)
       \/ RefundPaid(t)
       \/ RefundCompletes(t)
  \/ \E i \in Personal : PersonalInvoicePaid(i)
  \/ UNCHANGED vars

-----------------------------------------------------------------------------
(* Types *)

\* The initial state is typed.
LEMMA InitTypeOK == Init => TypeOK
<1> SUFFICES ASSUME Init PROVE TypeOK
  OBVIOUS
<1>1. PayoutTypeOK
  BY RedeliveriesBound DEF Init, PayoutInit, PayoutTypeOK, Statuses
<1>2. kind \in [Payouts -> Kinds \cup {"none"}] /\ amount \in [Payouts -> 0 .. MaxAmount]
  BY AmountBound DEF Init
<1>3. contribution \in [Contributions -> Stages]
  BY DEF Init, Stages
<1>4. personal \in SUBSET Personal /\ destination \in BOOLEAN
      /\ late = {}
  BY DEF Init
<1>5. \A p \in Payouts : status[p] = "none" /\ request[p] = "idle"
  BY DEF Init, PayoutInit
<1> QED
  BY <1>1, <1>2, <1>3, <1>4, <1>5 DEF TypeOK

\* A step of a payout after its reservation keeps the types and makes no row.
LEMMA PayoutTypes ==
  ASSUME PayoutTypeOK, NEW p \in Payouts, PayoutStep(p),
         \A q \in Payouts : (status[q] = "none") <=> (request[q] = "idle"),
         RowsAgree
  PROVE  /\ PayoutTypeOK'
         /\ \A q \in Payouts : (status'[q] = "none") <=> (request'[q] = "idle")
         /\ \A q \in Payouts : status'[q] # "none" <=> status[q] # "none"
<1> USE StatusNames, RedeliveriesBound DEF PayoutTypeOK, Statuses
<1>1. CASE RecordAccepted(p)
  BY <1>1 DEF RecordAccepted
<1>2. CASE RecordRejected(p)
  BY <1>2 DEF RecordRejected
<1>3. CASE RequestBreaks(p)
  BY <1>3 DEF RequestBreaks
<1>4. ASSUME NEW a \in {"accepted", "rejected"}, GatewayAnswers(p, a)
      PROVE  /\ PayoutTypeOK'
             /\ \A q \in Payouts : (status'[q] = "none") <=> (request'[q] = "idle")
             /\ \A q \in Payouts : status'[q] # "none" <=> status[q] # "none"
  BY <1>4 DEF GatewayAnswers
<1>5. ASSUME NEW o \in {"paid", "failed"}, GatewaySettles(p, o)
      PROVE  /\ PayoutTypeOK'
             /\ \A q \in Payouts : (status'[q] = "none") <=> (request'[q] = "idle")
             /\ \A q \in Payouts : status'[q] # "none" <=> status[q] # "none"
  BY <1>5 DEF GatewaySettles
<1>6. CASE GatewayRedelivers(p)
  BY <1>6 DEF GatewayRedelivers
<1>7. CASE CallbackMatches(p)
  <2>1. request[p] = "returned"
    BY <1>7 DEF CallbackMatches, RowsAgree, RowAgrees
  <2> QED
    BY <1>7, <2>1 DEF CallbackMatches, NextStatus
<1>8. CASE CallbackUnknown(p)
  BY <1>8 DEF CallbackUnknown
<1> QED
  BY <1>1, <1>2, <1>3, <1>4, <1>5, <1>6, <1>7, <1>8 DEF PayoutStep

\* A reservation makes one row, with a table and a positive amount.
LEMMA ReserveTypes ==
  ASSUME TypeOK, NEW p \in Payouts, NEW k \in Kinds, NEW a \in 0 .. MaxAmount, a > 0,
         NEW unseen \in BOOLEAN, Reserve(p, k, a, unseen)
  PROVE  TypeOK'
<1>1. /\ kind' = [kind EXCEPT ![p] = k]
      /\ amount' = [amount EXCEPT ![p] = a]
      /\ late' = IF unseen THEN late \cup {p} ELSE late
      /\ UNCHANGED <<contribution, personal, destination>>
      /\ CreateRow(p)
  BY DEF Reserve
<1>2. PayoutTypeOK'
  BY <1>1 DEF CreateRow, TypeOK, PayoutTypeOK, Statuses
<1>3. \A q \in Payouts : (status'[q] = "none") <=> (request'[q] = "idle")
  BY <1>1 DEF CreateRow, TypeOK, PayoutTypeOK
<1>4. k # "none"
  BY DEF Kinds
<1>5. \A q \in Payouts : status'[q] # "none" => kind'[q] # "none" /\ amount'[q] > 0
  BY <1>1, <1>4 DEF CreateRow, TypeOK, PayoutTypeOK
<1>6. kind' \in [Payouts -> Kinds \cup {"none"}] /\ amount' \in [Payouts -> 0 .. MaxAmount]
  BY <1>1 DEF TypeOK
<1>7. late' \in SUBSET {q \in Payouts : status'[q] # "none"}
  BY <1>1 DEF CreateRow, TypeOK, PayoutTypeOK
<1> QED
  BY <1>1, <1>2, <1>3, <1>5, <1>6, <1>7 DEF TypeOK

\* Every variable keeps its type along every step.
LEMMA TypeStep == TypeOK /\ RowsAgree /\ [Next]_vars => TypeOK'
<1> SUFFICES ASSUME TypeOK, RowsAgree, [Next]_vars PROVE TypeOK'
  OBVIOUS
<1>1. ASSUME NEW p \in Payouts, NEW a \in 0 .. MaxAmount, RequestWithdrawal(p, a)
      PROVE  TypeOK'
  BY <1>1, ReserveTypes DEF RequestWithdrawal, Kinds, Under
<1>2. ASSUME NEW p \in Payouts, NEW a \in 0 .. MaxAmount, Pay(p, a)
      PROVE  TypeOK'
  BY <1>2, ReserveTypes DEF Pay, Kinds, Under
<1>3. ASSUME NEW p \in Payouts, NEW a \in 0 .. MaxAmount, RequestPlatformWithdrawal(p, a)
      PROVE  TypeOK'
  BY <1>3, ReserveTypes DEF RequestPlatformWithdrawal, Kinds, Under
<1>4. ASSUME NEW p \in Payouts, PayoutMoves(p)
      PROVE  TypeOK'
  <2>1. PayoutStep(p) /\ UNCHANGED poolVars
    BY <1>4 DEF PayoutMoves
  <2>2. /\ PayoutTypeOK'
        /\ \A q \in Payouts : (status'[q] = "none") <=> (request'[q] = "idle")
        /\ \A q \in Payouts : status'[q] # "none" <=> status[q] # "none"
    BY <2>1, PayoutTypes DEF TypeOK
  <2> QED
    BY <2>1, <2>2 DEF TypeOK, poolVars
<1>5. CASE SetDestination
  BY <1>5 DEF SetDestination, TypeOK, PayoutTypeOK, payoutVars
<1>6. ASSUME NEW t \in Contributions, NEW from, NEW to \in Stages, ContributionMoves(t, from, to)
      PROVE  TypeOK'
  BY <1>6 DEF ContributionMoves, TypeOK, PayoutTypeOK, payoutVars
<1>7. ASSUME NEW i \in Personal, PersonalInvoicePaid(i)
      PROVE  TypeOK'
  BY <1>7 DEF PersonalInvoicePaid, TypeOK, PayoutTypeOK, payoutVars
<1>8. CASE UNCHANGED vars
  BY <1>8 DEF vars, payoutVars, poolVars, TypeOK, PayoutTypeOK
<1>9. ASSUME NEW t \in Contributions,
             \/ PayerCharged(t) \/ WebhookCredits(t) \/ RecordManual(t)
             \/ RefundPaid(t) \/ RefundCompletes(t)
      PROVE  TypeOK'
  <2>1. "charged" \in Stages /\ "SUCCESS" \in Stages /\ "returned" \in Stages
        /\ "REFUNDED" \in Stages
    BY DEF Stages
  <2> QED
    BY <1>6, <1>9, <2>1 DEF PayerCharged, WebhookCredits, RecordManual, RefundPaid,
       RefundCompletes
<1> QED
  BY <1>1, <1>2, <1>3, <1>4, <1>5, <1>7, <1>8, <1>9 DEF Next

-----------------------------------------------------------------------------
(* Rows and PawaPay *)

\* A step that is no payout's leaves every row and every payout alone.
LEMMA MoneyMovesOnly ==
  ASSUME MoneyMoves
  PROVE  UNCHANGED <<payoutVars, kind, amount, late>>
<1>1. \A t, from, to :
        ContributionMoves(t, from, to) => UNCHANGED <<payoutVars, kind, amount, late>>
  BY DEF ContributionMoves
<1> QED
  BY <1>1 DEF MoneyMoves, SetDestination, PayerCharged, WebhookCredits, RecordManual,
     RefundPaid, RefundCompletes, PersonalInvoicePaid, vars, poolVars

\* Every step is a request, a step of a payout or one of the others.
LEMMA Cases ==
  ASSUME [Next]_vars
  PROVE  Requests \/ (\E p \in Payouts : PayoutMoves(p)) \/ MoneyMoves
BY DEF Next, Requests, MoneyMoves

\* A request reserves one row and nothing else of the payouts.
LEMMA RequestsReserve ==
  ASSUME Requests
  PROVE  \E p \in Payouts : CreateRow(p)
BY DEF Requests, RequestWithdrawal, Pay, RequestPlatformWithdrawal, Reserve

\* No step sets a row against PawaPay: only a refusal or a failed payout makes
\* it FAILED, only money that arrived makes it COMPLETED.
LEMMA RowsAgreeStep == TypeOK /\ RowsAgree /\ [Next]_vars => RowsAgree'
<1> SUFFICES ASSUME TypeOK, RowsAgree, [Next]_vars, NEW q \in Payouts
             PROVE  RowAgrees(q)'
  BY DEF RowsAgree
<1> USE StatusNames DEF TypeOK, PayoutTypeOK, Statuses, RowsAgree, RowAgrees
<1>1. ASSUME NEW p \in Payouts, CreateRow(p)
      PROVE  RowAgrees(q)'
  BY <1>1 DEF CreateRow
<1>2. ASSUME NEW p \in Payouts, PayoutStep(p)
      PROVE  RowAgrees(q)'
  <2>1. CASE RecordAccepted(p)
    BY <2>1 DEF RecordAccepted
  <2>2. CASE RecordRejected(p)
    BY <2>2 DEF RecordRejected
  <2>3. CASE RequestBreaks(p)
    BY <2>3 DEF RequestBreaks
  <2>4. ASSUME NEW a \in {"accepted", "rejected"}, GatewayAnswers(p, a)
        PROVE  RowAgrees(q)'
    BY <2>4 DEF GatewayAnswers
  <2>5. ASSUME NEW o \in {"paid", "failed"}, GatewaySettles(p, o)
        PROVE  RowAgrees(q)'
    BY <2>5 DEF GatewaySettles
  <2>6. CASE GatewayRedelivers(p)
    BY <2>6 DEF GatewayRedelivers
  <2>7. CASE CallbackMatches(p)
    BY <2>7 DEF CallbackMatches, NextStatus
  <2>8. CASE CallbackUnknown(p)
    BY <2>8 DEF CallbackUnknown
  <2> QED
    BY <1>2, <2>1, <2>2, <2>3, <2>4, <2>5, <2>6, <2>7, <2>8 DEF PayoutStep
<1>3. CASE UNCHANGED payoutVars
  BY <1>3 DEF payoutVars
<1> QED
  BY <1>1, <1>2, <1>3, Cases, RequestsReserve, MoneyMovesOnly DEF PayoutMoves

-----------------------------------------------------------------------------
(* What is live and what is counted *)

LiveRows(kinds) == {p \in Payouts : kind[p] \in kinds /\ Live(p)}
OnTimeRows(kinds) == {p \in Payouts \ late : kind[p] \in kinds /\ Live(p)}

\* A payout whose money may still leave, or has left, has a row: counted by its
\* balance, or a PENDING withdrawal that no balance counts.
LEMMA LiveIsCounted ==
  ASSUME TypeOK, RowsAgree
  PROVE  /\ ~Under("withdrawal", {"PENDING"}) =>
              LiveRows({"withdrawal"}) \subseteq Rows("withdrawal", Withdrawn)
         /\ ~Under("withdrawal", {"PENDING", Handed, Done}) => LiveRows({"withdrawal"}) = {}
         /\ LiveRows({"disbursement"}) \subseteq Rows("disbursement", SpokenFor)
         /\ ~Under("platform", {"PENDING"}) =>
              LiveRows({"platform"}) \subseteq Rows("platform", Withdrawn)
<1>1. ASSUME NEW p \in Payouts, Live(p)
      PROVE  status[p] \in {"PENDING", Handed, Done}
  BY <1>1 DEF TypeOK, PayoutTypeOK, Statuses, RowsAgree, RowAgrees, Live
<1> QED
  BY <1>1 DEF LiveRows, Rows, Withdrawn, SpokenFor, Under

\* Rows of any choice hold finitely many amounts.
LEMMA RowsFinite ==
  ASSUME TypeOK, NEW S \in SUBSET Payouts
  PROVE  /\ IsFiniteSet(S) /\ Sum(amount, S) \in Nat
         /\ \A p \in S : amount[p] \in Nat
<1>1. \A p \in S : amount[p] \in Nat
  BY AmountBound DEF TypeOK
<1>2. IsFiniteSet(S)
  BY PayoutsFinite, FS_Subset
<1> QED
  BY <1>1, <1>2, SumType

\* So do contributions: their amounts and their fees.
LEMMA ReceiptsFinite ==
  ASSUME NEW S \in SUBSET Contributions
  PROVE  /\ IsFiniteSet(S) /\ Sum(Settled, S) \in Nat /\ Sum(Fee, S) \in Nat
         /\ \A t \in S : Settled[t] \in Nat /\ Fee[t] \in Nat
<1>1. \A t \in S : Settled[t] \in Nat /\ Fee[t] \in Nat
  BY ContributionRows
<1>2. IsFiniteSet(S)
  BY ContributionRows, FS_Subset
<1> QED
  BY <1>1, <1>2, SumType

\* A reservation is a new payout: what its amount adds to the payouts on time, it
\* adds to those of its kind, and nothing when it is late.
LEMMA ReserveAdds ==
  ASSUME TypeOK, RowsAgree, NEW p \in Payouts, NEW k, NEW a \in 0 .. MaxAmount,
         NEW unseen, Reserve(p, k, a, unseen), NEW kinds
  PROVE  /\ k \in kinds /\ ~unseen => OnTimeOf(kinds)' = OnTimeOf(kinds) + a
         /\ k \notin kinds \/ unseen => OnTimeOf(kinds)' = OnTimeOf(kinds)
<1>1. /\ status[p] = "none" /\ request[p] = "idle" /\ gateway[p] = "none"
      /\ kind' = [kind EXCEPT ![p] = k]
      /\ amount' = [amount EXCEPT ![p] = a]
      /\ request' = [request EXCEPT ![p] = "calling"]
      /\ gateway' = gateway
      /\ late' = IF unseen THEN late \cup {p} ELSE late
  BY DEF Reserve, CreateRow, TypeOK, RowsAgree, RowAgrees
<1>2. ~Live(p) /\ Live(p)' /\ \A q \in Payouts : q # p => (Live(q)' <=> Live(q))
  BY <1>1 DEF Live, TypeOK, PayoutTypeOK
<1>3. \A q \in Payouts : q # p => kind'[q] = kind[q] /\ amount'[q] = amount[q]
  BY <1>1 DEF TypeOK
<1>4. kind'[p] = k /\ amount'[p] = a
  BY <1>1 DEF TypeOK
<1> DEFINE S == OnTimeRows(kinds)
<1>5. S \in SUBSET Payouts /\ p \notin S
  BY <1>2 DEF OnTimeRows
<1>6. OnTimeRows(kinds)' = IF k \in kinds /\ ~unseen THEN S \cup {p} ELSE S
  <2>1. p \notin late
    BY <1>1 DEF TypeOK
  <2>2. \A q \in Payouts : q # p => (q \in OnTimeRows(kinds)' <=> q \in S)
    BY <1>1, <1>2, <1>3 DEF OnTimeRows
  <2>3. p \in OnTimeRows(kinds)' <=> k \in kinds /\ ~unseen
    BY <1>1, <1>2, <1>4, <2>1 DEF OnTimeRows
  <2>4. OnTimeRows(kinds)' \subseteq Payouts
    BY DEF OnTimeRows
  <2> HIDE DEF S
  <2> QED
    BY <1>5, <2>2, <2>3, <2>4
<1>7. OnTimeOf(kinds) = Sum(amount, S) /\ OnTimeOf(kinds)' = Sum(amount', OnTimeRows(kinds)')
  BY DEF OnTimeOf, OnTimeRows
<1> HIDE DEF S
<1>8. IsFiniteSet(S) /\ \A q \in S : amount[q] \in Nat
  BY <1>5, RowsFinite
<1>9. \A q \in S : amount'[q] = amount[q]
  BY <1>3, <1>5
<1>10. Sum(amount', S) = Sum(amount, S)
  BY <1>9, SumExt
<1>11. a \in Nat
  BY AmountBound
<1>12. Sum(amount', S \cup {p}) = Sum(amount', S) + amount'[p]
  <2>1. \A q \in S \cup {p} : amount'[q] \in Nat
    BY <1>4, <1>8, <1>9, <1>11
  <2> QED
    BY <1>5, <1>8, <2>1, SumAdd
<1> QED
  BY <1>4, <1>6, <1>7, <1>10, <1>12

\* What is on time is live, and both are sums of amounts.
LEMMA OnTimeIsLive ==
  ASSUME TypeOK, NEW kinds
  PROVE  /\ OnTimeOf(kinds) \in Nat /\ LiveOf(kinds) \in Nat
         /\ OnTimeOf(kinds) <= LiveOf(kinds)
<1> DEFINE T == OnTimeRows(kinds)
           L == LiveRows(kinds)
<1>1. T \in SUBSET L /\ T \in SUBSET Payouts /\ L \in SUBSET Payouts
  BY DEF OnTimeRows, LiveRows
<1>2. OnTimeOf(kinds) = Sum(amount, T) /\ LiveOf(kinds) = Sum(amount, L)
  BY DEF OnTimeOf, OnTimeRows, LiveOf, LiveRows
<1> HIDE DEF T, L
<1> QED
  BY <1>1, <1>2, RowsFinite, SumMonotone

\* No other step makes a payout live, or one that was late on time.
LEMMA OnTimeOnlyShrinks ==
  ASSUME TypeOK, RowsAgree, MoneyMoves \/ \E p \in Payouts : PayoutMoves(p), NEW kinds
  PROVE  /\ OnTimeOf(kinds)' \in Nat /\ OnTimeOf(kinds) \in Nat
         /\ OnTimeOf(kinds)' <= OnTimeOf(kinds)
<1>1. kind' = kind /\ amount' = amount /\ late' = late
  BY MoneyMovesOnly DEF PayoutMoves, poolVars
<1>2. ASSUME NEW q \in Payouts, Live(q)' PROVE Live(q)
  <2>1. CASE MoneyMoves
    BY <1>2, <2>1, MoneyMovesOnly DEF Live, payoutVars
  <2>2. ASSUME NEW p \in Payouts, PayoutStep(p) PROVE Live(q)
    BY <1>2, <2>2 DEF PayoutStep, RecordAccepted, RecordRejected, RequestBreaks,
       GatewayAnswers, GatewaySettles, GatewayRedelivers, CallbackMatches,
       CallbackUnknown, Live, TypeOK, PayoutTypeOK
  <2> QED
    BY <2>1, <2>2 DEF PayoutMoves
<1>3. OnTimeRows(kinds)' \in SUBSET OnTimeRows(kinds)
  BY <1>1, <1>2 DEF OnTimeRows
<1>4. OnTimeRows(kinds) \in SUBSET Payouts
  BY DEF OnTimeRows
<1>5. Sum(amount, OnTimeRows(kinds)') <= Sum(amount, OnTimeRows(kinds))
  BY <1>3, <1>4, RowsFinite, SumMonotone
<1>6. OnTimeRows(kinds)' \in SUBSET Payouts
  BY <1>3, <1>4
<1>7. Sum(amount, OnTimeRows(kinds)') \in Nat /\ Sum(amount, OnTimeRows(kinds)) \in Nat
  BY <1>4, <1>6, RowsFinite
<1> QED
  BY <1>1, <1>5, <1>7 DEF OnTimeOf, OnTimeRows

\* What was ever received, and ever charged as a fee, only grows: a refund does
\* not lower it.
LEMMA ReceiptsGrow ==
  ASSUME TypeOK, [Next]_vars
  PROVE  EverCredited \in SUBSET EverCredited' /\ EverCredited' \in SUBSET Contributions
<1>1. ASSUME NEW t \in Contributions, NEW from, NEW to,
             ContributionMoves(t, from, to), to # "none", to # "charged" \/ from = "none"
      PROVE  EverCredited \subseteq EverCredited'
  BY <1>1 DEF ContributionMoves, EverCredited, TypeOK
<1>2. CASE contribution' = contribution
  BY <1>2 DEF EverCredited
<1>3. ASSUME NEW t \in Contributions,
             \/ PayerCharged(t) \/ WebhookCredits(t) \/ RecordManual(t)
             \/ RefundPaid(t) \/ RefundCompletes(t)
      PROVE  EverCredited \subseteq EverCredited'
  BY <1>1, <1>3 DEF PayerCharged, WebhookCredits, RecordManual, RefundPaid, RefundCompletes
<1>4. EverCredited \subseteq EverCredited'
  BY <1>2, <1>3 DEF Next, RequestWithdrawal, Pay, RequestPlatformWithdrawal, Reserve,
     PayoutMoves, poolVars, SetDestination, PersonalInvoicePaid, vars
<1> QED
  BY <1>4 DEF EverCredited

\* What the balances call received was received.
LEMMA ReceivedWasReceived ==
  ASSUME TypeOK
  PROVE  /\ TotalReceived \in Nat /\ Sum(Settled, EverCredited \ Manual) \in Nat
         /\ TotalReceived <= Sum(Settled, EverCredited \ Manual)
         /\ TotalFees \in Nat /\ Sum(Fee, EverCredited) \in Nat
         /\ TotalFees <= Sum(Fee, EverCredited)
<1>1. /\ Credited \in SUBSET EverCredited
      /\ Credited \ Manual \in SUBSET (EverCredited \ Manual)
      /\ EverCredited \in SUBSET Contributions
      /\ EverCredited \ Manual \in SUBSET Contributions
      /\ Credited \in SUBSET Contributions /\ Credited \ Manual \in SUBSET Contributions
  BY DEF Credited, EverCredited
<1>2. /\ Sum(Settled, Credited \ Manual) <= Sum(Settled, EverCredited \ Manual)
      /\ Sum(Fee, Credited) <= Sum(Fee, EverCredited)
  BY <1>1, ReceiptsFinite, SumMonotone
<1> QED
  BY <1>1, <1>2, ReceiptsFinite DEF TotalReceived, TotalFees

-----------------------------------------------------------------------------
(* The pools *)

OrganizationCovered ==
  OnTimeOf({"withdrawal", "disbursement"}) > 0 =>
    Earlier["withdrawal"] + Earlier["disbursement"] + OnTimeOf({"withdrawal", "disbursement"})
      <= Sum(Settled, EverCredited \ Manual)
PlatformCovered ==
  OnTimeOf({"platform"}) > 0 =>
    Earlier["platform"] + OnTimeOf({"platform"}) <= Sum(Fee, EverCredited)

\* What was paid out through Paystack is a natural number.
LEMMA EarlierTyped ==
  /\ Earlier["withdrawal"] \in Nat /\ Earlier["disbursement"] \in Nat
  /\ Earlier["platform"] \in Nat
BY EarlierPayouts DEF Kinds

\* Vendor payouts and withdrawals are different rows: what they may still take
\* is at most what the balances count and the live withdrawals that are PENDING.
LEMMA OrganizationLive ==
  ASSUME TypeOK, RowsAgree
  PROVE  /\ LiveOf({"withdrawal"}) \in Nat /\ LiveOf({"disbursement"}) \in Nat
         /\ LiveOf({"withdrawal", "disbursement"})
              = LiveOf({"withdrawal"}) + LiveOf({"disbursement"})
         /\ TotalWithdrawn \in Nat /\ TotalDisbursed \in Nat
         /\ ~Under("withdrawal", {"PENDING"}) =>
              Earlier["withdrawal"] + LiveOf({"withdrawal"}) <= TotalWithdrawn
         /\ ~Under("withdrawal", {"PENDING", Handed, Done}) => LiveOf({"withdrawal"}) = 0
         /\ Earlier["disbursement"] + LiveOf({"disbursement"}) <= TotalDisbursed
<1> DEFINE W == LiveRows({"withdrawal"})
           D == LiveRows({"disbursement"})
           RW == Rows("withdrawal", Withdrawn)
           RD == Rows("disbursement", SpokenFor)
<1>1. /\ W \in SUBSET Payouts /\ D \in SUBSET Payouts
      /\ RW \in SUBSET Payouts /\ RD \in SUBSET Payouts
      /\ W \cup D \in SUBSET Payouts
  BY DEF LiveRows, Rows
<1>2. W \cap D = {} /\ LiveRows({"withdrawal", "disbursement"}) = W \cup D
  BY DEF LiveRows
<1>3. /\ D \in SUBSET RD
      /\ ~Under("withdrawal", {"PENDING"}) => W \in SUBSET RW
      /\ ~Under("withdrawal", {"PENDING", Handed, Done}) => W = {}
  BY LiveIsCounted
<1>4. \A k : LiveOf(k) = Sum(amount, LiveRows(k))
  BY DEF LiveOf, LiveRows
<1>5. /\ TotalWithdrawn = Earlier["withdrawal"] + Sum(amount, RW)
      /\ TotalDisbursed = Earlier["disbursement"] + Sum(amount, RD)
  BY DEF TotalWithdrawn, TotalDisbursed
<1> HIDE DEF W, D, RW, RD
<1>6. Sum(amount, W \cup D) = Sum(amount, W) + Sum(amount, D)
  BY <1>1, <1>2, RowsFinite, SumDisjoint
<1>7. /\ Sum(amount, D) <= Sum(amount, RD)
      /\ ~Under("withdrawal", {"PENDING"}) => Sum(amount, W) <= Sum(amount, RW)
  BY <1>1, <1>3, RowsFinite, SumMonotone
<1>8. /\ Sum(amount, W) \in Nat /\ Sum(amount, D) \in Nat
      /\ Sum(amount, RW) \in Nat /\ Sum(amount, RD) \in Nat
  BY <1>1, RowsFinite
<1>9. LiveOf({"withdrawal"}) = Sum(amount, W) /\ LiveOf({"disbursement"}) = Sum(amount, D)
  BY <1>4 DEF W, D
<1>10. LiveOf({"withdrawal", "disbursement"}) = Sum(amount, W \cup D)
  BY <1>2, <1>4
<1>11. ~Under("withdrawal", {"PENDING", Handed, Done}) => Sum(amount, W) = 0
  BY <1>3, SumEmpty
<1> QED
  BY <1>5, <1>6, <1>7, <1>8, <1>9, <1>10, <1>11, EarlierTyped

\* The same of the platform's withdrawals.
LEMMA PlatformLive ==
  ASSUME TypeOK, RowsAgree
  PROVE  /\ LiveOf({"platform"}) \in Nat /\ TotalFeesWithdrawn \in Nat
         /\ ~Under("platform", {"PENDING"}) =>
              Earlier["platform"] + LiveOf({"platform"}) <= TotalFeesWithdrawn
<1> DEFINE L == LiveRows({"platform"})
           R == Rows("platform", Withdrawn)
<1>1. L \in SUBSET Payouts /\ R \in SUBSET Payouts
  BY DEF LiveRows, Rows
<1>2. ~Under("platform", {"PENDING"}) => L \in SUBSET R
  BY LiveIsCounted
<1>3. /\ LiveOf({"platform"}) = Sum(amount, L)
      /\ TotalFeesWithdrawn = Earlier["platform"] + Sum(amount, R)
  BY DEF LiveOf, LiveRows, TotalFeesWithdrawn
<1> HIDE DEF L, R
<1>4. Sum(amount, L) \in Nat /\ Sum(amount, R) \in Nat
  BY <1>1, RowsFinite
<1>5. ~Under("platform", {"PENDING"}) => Sum(amount, L) <= Sum(amount, R)
  BY <1>1, <1>2, RowsFinite, SumMonotone
<1> QED
  BY <1>3, <1>4, <1>5, EarlierTyped

\* A request that is not late fits beside all that is live in its pool; a late one
\* counts in no pool.
LEMMA RequestsCovered ==
  ASSUME TypeOK, RowsAgree, OnlyLateOverdraw, Requests
  PROVE  OrganizationCovered' /\ PlatformCovered'
<1> DEFINE Goal == OrganizationCovered' /\ PlatformCovered'
<1>1. OrganizationCovered /\ PlatformCovered
  BY DEF OnlyLateOverdraw, OrganizationCovered, PlatformCovered
<1>2. contribution' = contribution => EverCredited' = EverCredited
  BY DEF EverCredited
<1>3. /\ OnTimeOf({"withdrawal", "disbursement"}) \in Nat
      /\ OnTimeOf({"withdrawal", "disbursement"})
           <= LiveOf({"withdrawal"}) + LiveOf({"disbursement"})
      /\ OnTimeOf({"platform"}) \in Nat
      /\ OnTimeOf({"platform"}) <= LiveOf({"platform"})
  BY OnTimeIsLive, OrganizationLive
<1>4. ASSUME NEW p \in Payouts, NEW a \in 0 .. MaxAmount, RequestWithdrawal(p, a)
      PROVE  Goal
  <2>1. /\ Reserve(p, "withdrawal", a, Under("withdrawal", {"PENDING"}))
        /\ EverCredited' = EverCredited /\ a <= Balance /\ a \in Nat
    BY <1>2, <1>4, AmountBound DEF RequestWithdrawal, Reserve
  <2>2. OnTimeOf({"platform"})' = OnTimeOf({"platform"})
    BY <2>1, ReserveAdds
  <2>3. CASE Under("withdrawal", {"PENDING"})
    <3>1. OnTimeOf({"withdrawal", "disbursement"})' = OnTimeOf({"withdrawal", "disbursement"})
      BY <2>1, <2>3, ReserveAdds
    <3> QED
      BY <1>1, <2>1, <2>2, <3>1 DEF OrganizationCovered, PlatformCovered
  <2>4. CASE ~Under("withdrawal", {"PENDING"})
    <3>1. OnTimeOf({"withdrawal", "disbursement"})'
            = OnTimeOf({"withdrawal", "disbursement"}) + a
      BY <2>1, <2>4, ReserveAdds
    <3>2. Earlier["withdrawal"] + Earlier["disbursement"]
            + (OnTimeOf({"withdrawal", "disbursement"}) + a) <= TotalReceived
      BY <1>3, <2>1, <2>4, OrganizationLive, ReceivedWasReceived, EarlierTyped DEF Balance
    <3>3. Earlier["withdrawal"] + Earlier["disbursement"]
            + (OnTimeOf({"withdrawal", "disbursement"}) + a)
              <= Sum(Settled, EverCredited \ Manual)
      BY <1>3, <2>1, <3>2, ReceivedWasReceived, EarlierTyped
    <3> QED
      BY <1>1, <2>1, <2>2, <3>1, <3>3 DEF OrganizationCovered, PlatformCovered
  <2> QED
    BY <2>3, <2>4
<1>5. ASSUME NEW p \in Payouts, NEW a \in 0 .. MaxAmount, Pay(p, a)
      PROVE  Goal
  <2> DEFINE unseen == Earlier["withdrawal"] > 0
                         \/ Under("withdrawal", {"PENDING", Handed, Done})
  <2>1. /\ Reserve(p, "disbursement", a, unseen)
        /\ EverCredited' = EverCredited /\ a <= EventRealRemaining /\ a \in Nat
    BY <1>2, <1>5, AmountBound DEF Pay, Reserve
  <2> HIDE DEF unseen
  <2>2. OnTimeOf({"platform"})' = OnTimeOf({"platform"})
    <3>1. "disbursement" \notin {"platform"}
      OBVIOUS
    <3> QED
      BY <2>1, <3>1, ReserveAdds
  <2>3. CASE unseen
    <3>1. OnTimeOf({"withdrawal", "disbursement"})' = OnTimeOf({"withdrawal", "disbursement"})
      BY <2>1, <2>3, ReserveAdds
    <3> QED
      BY <1>1, <2>1, <2>2, <3>1 DEF OrganizationCovered, PlatformCovered
  <2>4. CASE ~unseen
    <3>1. OnTimeOf({"withdrawal", "disbursement"})'
            = OnTimeOf({"withdrawal", "disbursement"}) + a
      BY <2>1, <2>4, ReserveAdds
    <3>2. Earlier["withdrawal"] + Earlier["disbursement"]
            + (OnTimeOf({"withdrawal", "disbursement"}) + a) <= TotalReceived
      <4>1. Earlier["withdrawal"] = 0
        BY <2>4, EarlierTyped DEF unseen
      <4>2. ~Under("withdrawal", {"PENDING", Handed, Done})
        BY <2>4 DEF unseen
      <4> QED
        BY <1>3, <2>1, <4>1, <4>2, OrganizationLive, ReceivedWasReceived, EarlierTyped
           DEF EventRealRemaining
    <3>3. Earlier["withdrawal"] + Earlier["disbursement"]
            + (OnTimeOf({"withdrawal", "disbursement"}) + a)
              <= Sum(Settled, EverCredited \ Manual)
      BY <1>3, <2>1, <3>2, ReceivedWasReceived, EarlierTyped
    <3> QED
      BY <1>1, <2>1, <2>2, <3>1, <3>3 DEF OrganizationCovered, PlatformCovered
  <2> QED
    BY <2>3, <2>4
<1>6. ASSUME NEW p \in Payouts, NEW a \in 0 .. MaxAmount, RequestPlatformWithdrawal(p, a)
      PROVE  Goal
  <2>1. /\ Reserve(p, "platform", a, Under("platform", {"PENDING"}))
        /\ EverCredited' = EverCredited /\ a <= PlatformBalance /\ a \in Nat
    BY <1>2, <1>6, AmountBound DEF RequestPlatformWithdrawal, Reserve
  <2>2. OnTimeOf({"withdrawal", "disbursement"})' = OnTimeOf({"withdrawal", "disbursement"})
    <3>1. "platform" \notin {"withdrawal", "disbursement"}
      OBVIOUS
    <3> QED
      BY <2>1, <3>1, ReserveAdds
  <2>3. CASE Under("platform", {"PENDING"})
    <3>1. OnTimeOf({"platform"})' = OnTimeOf({"platform"})
      BY <2>1, <2>3, ReserveAdds
    <3> QED
      BY <1>1, <2>1, <2>2, <3>1 DEF OrganizationCovered, PlatformCovered
  <2>4. CASE ~Under("platform", {"PENDING"})
    <3>1. OnTimeOf({"platform"})' = OnTimeOf({"platform"}) + a
      BY <2>1, <2>4, ReserveAdds
    <3>2. Earlier["platform"] + (OnTimeOf({"platform"}) + a) <= TotalFees
      BY <1>3, <2>1, <2>4, PlatformLive, ReceivedWasReceived, EarlierTyped DEF PlatformBalance
    <3>3. Earlier["platform"] + (OnTimeOf({"platform"}) + a) <= Sum(Fee, EverCredited)
      BY <1>3, <2>1, <3>2, ReceivedWasReceived, EarlierTyped
    <3> QED
      BY <1>1, <2>1, <2>2, <3>1, <3>3 DEF OrganizationCovered, PlatformCovered
  <2> QED
    BY <2>3, <2>4
<1> HIDE DEF Goal
<1>7. Goal
  BY <1>4, <1>5, <1>6 DEF Requests
<1> QED
  BY <1>7 DEF Goal

\* Every other step only releases money or brings some in.
LEMMA OthersCovered ==
  ASSUME TypeOK, RowsAgree, OnlyLateOverdraw, [Next]_vars,
         MoneyMoves \/ \E p \in Payouts : PayoutMoves(p)
  PROVE  OnlyLateOverdraw'
<1>1. EverCredited \in SUBSET EverCredited' /\ EverCredited' \in SUBSET Contributions
  BY ReceiptsGrow
<1>2. /\ EverCredited \ Manual \in SUBSET (EverCredited' \ Manual)
      /\ EverCredited' \ Manual \in SUBSET Contributions
      /\ EverCredited \in SUBSET Contributions
      /\ EverCredited \ Manual \in SUBSET Contributions
  BY <1>1
<1>3. /\ Sum(Settled, EverCredited \ Manual) <= Sum(Settled, EverCredited' \ Manual)
      /\ Sum(Fee, EverCredited) <= Sum(Fee, EverCredited')
  BY <1>1, <1>2, ReceiptsFinite, SumMonotone
<1>4. /\ Sum(Settled, EverCredited \ Manual) \in Nat
      /\ Sum(Settled, EverCredited' \ Manual) \in Nat
      /\ Sum(Fee, EverCredited) \in Nat /\ Sum(Fee, EverCredited') \in Nat
  BY <1>1, <1>2, ReceiptsFinite
<1>5. \A kinds : /\ OnTimeOf(kinds)' \in Nat /\ OnTimeOf(kinds) \in Nat
                 /\ OnTimeOf(kinds)' <= OnTimeOf(kinds)
  BY OnTimeOnlyShrinks
<1> QED
  BY <1>3, <1>4, <1>5, EarlierTyped DEF OnlyLateOverdraw

-----------------------------------------------------------------------------
(* Theorems *)

\* The inductive invariant: types, rows that agree with PawaPay, and the pools
\* covered but for late requests.
THEOREM Inductive == Spec => []IInv
<1>1. ASSUME Init PROVE IInv
  <2>1. RowsAgree
    BY <1>1, StatusNames DEF Init, PayoutInit, RowsAgree, RowAgrees
  <2>2. TypeOK
    BY <1>1, InitTypeOK
  <2>3. \A kinds : {p \in Payouts \ late : kind[p] \in kinds /\ Live(p)} = {}
    BY <1>1 DEF Init, PayoutInit, Live
  <2>4. \A kinds : OnTimeOf(kinds) = 0
    BY <2>3, SumEmpty DEF OnTimeOf
  <2> QED
    BY <2>1, <2>2, <2>4, ReceivedWasReceived DEF IInv, OnlyLateOverdraw
<1>2. IInv /\ [Next]_vars => IInv'
  <2> SUFFICES ASSUME IInv, [Next]_vars PROVE IInv'
    OBVIOUS
  <2>1. TypeOK' /\ RowsAgree'
    BY TypeStep, RowsAgreeStep DEF IInv
  <2>2. ASSUME Requests PROVE OnlyLateOverdraw'
    BY <2>2, RequestsCovered DEF IInv, OnlyLateOverdraw, OrganizationCovered,
       PlatformCovered
  <2>3. ASSUME MoneyMoves \/ \E p \in Payouts : PayoutMoves(p)
        PROVE  OnlyLateOverdraw'
    BY <2>3, OthersCovered DEF IInv
  <2>4. OnlyLateOverdraw'
    BY <2>2, <2>3, Cases DEF IInv
  <2> QED
    BY <2>1, <2>4 DEF IInv
<1> QED
  BY <1>1, <1>2, PTL DEF Spec

\* The type invariant of the treasury.
THEOREM TypeCorrect == Spec => []TypeOK
BY Inductive, PTL DEF IInv

\* Only requests made before the last answer of their pool, or for a vendor
\* beside a live withdrawal, ever overdraw: whatever they do, the others stay
\* within what was received through the gateway, and within the fees.
THEOREM OnlyLateRequestsOverdraw == Spec => []OnlyLateOverdraw
BY Inductive, PTL DEF IInv

\* Withdrawals of either table end FAILED only for a payout that was refused or
\* failed, and COMPLETED only for money that arrived.
THEOREM RowsTellTheTruth == Spec => []FinalMatchesGateway
<1>1. IInv => FinalMatchesGateway
  BY DEF IInv, RowsAgree, RowAgrees, FinalMatchesGateway
<1> QED
  BY <1>1, Inductive, PTL

-----------------------------------------------------------------------------
(* Reconciliation *)

\* The rows that the balances subtract.
Counted ==
  Rows("withdrawal", Withdrawn) \cup Rows("disbursement", SpokenFor)
    \cup Rows("platform", Withdrawn)

\* A row that is counted without a payout is one of Phantom.
LEMMA CountedButNotPaid ==
  ASSUME TypeOK, RowsAgree
  PROVE  Counted \ PaidOut = Phantom
<1>1. \A p \in Payouts : status[p] = Handed \/ status[p] = "PENDING" => kind[p] \in Kinds
  BY StatusNames DEF TypeOK
<1>2. \A p \in Payouts : status[p] = Done => p \in PaidOut
  BY DEF RowsAgree, RowAgrees, PaidOut
<1> QED
  BY <1>1, <1>2, StatusNames DEF Counted, Rows, Withdrawn, SpokenFor, Phantom, Kinds, PaidOut

\* A payout that was made without a row that counts is one of Hidden.
LEMMA PaidButNotCounted ==
  ASSUME TypeOK, RowsAgree
  PROVE  PaidOut \ Counted = Hidden
<1>1. ASSUME NEW p \in PaidOut
      PROVE  status[p] \in {"PENDING", Handed, Done} /\ kind[p] \in Kinds
  BY <1>1 DEF PaidOut, TypeOK, PayoutTypeOK, Statuses, RowsAgree, RowAgrees
<1> QED
  BY <1>1, StatusNames DEF Counted, Rows, Withdrawn, SpokenFor, Hidden, Kinds, PaidOut

\* What the books subtract and what the wallet paid out differ by such rows.
LEMMA PayoutsDiffer ==
  ASSUME TypeOK, RowsAgree
  PROVE  /\ TotalWithdrawn \in Nat /\ TotalDisbursed \in Nat /\ TotalFeesWithdrawn \in Nat
         /\ Sum(amount, PaidOut) \in Nat
         /\ Sum(amount, Hidden) \in Nat /\ Sum(amount, Phantom) \in Nat
         /\ TotalWithdrawn + TotalDisbursed + TotalFeesWithdrawn + Sum(amount, Hidden)
              = Sum(amount, PaidOut) + Sum(amount, Phantom)
                + (Earlier["withdrawal"] + Earlier["disbursement"] + Earlier["platform"])
<1> DEFINE W == Rows("withdrawal", Withdrawn)
           D == Rows("disbursement", SpokenFor)
           F == Rows("platform", Withdrawn)
<1>1. /\ W \in SUBSET Payouts /\ D \in SUBSET Payouts /\ F \in SUBSET Payouts
      /\ W \cup D \in SUBSET Payouts /\ Counted \in SUBSET Payouts
      /\ PaidOut \in SUBSET Payouts
  BY DEF Rows, Counted, PaidOut
<1>2. W \cap D = {} /\ (W \cup D) \cap F = {}
  BY DEF Rows
<1>3. /\ TotalWithdrawn = Earlier["withdrawal"] + Sum(amount, W)
      /\ TotalDisbursed = Earlier["disbursement"] + Sum(amount, D)
      /\ TotalFeesWithdrawn = Earlier["platform"] + Sum(amount, F)
  BY DEF TotalWithdrawn, TotalDisbursed, TotalFeesWithdrawn
<1>4. Counted = (W \cup D) \cup F
  BY DEF Counted
<1> HIDE DEF W, D, F
<1>5. Sum(amount, W \cup D) = Sum(amount, W) + Sum(amount, D)
  BY <1>1, <1>2, RowsFinite, SumDisjoint
<1>6. Sum(amount, (W \cup D) \cup F) = Sum(amount, W \cup D) + Sum(amount, F)
  <2>1. /\ IsFiniteSet(W \cup D) /\ IsFiniteSet(F)
        /\ \A p \in (W \cup D) \cup F : amount[p] \in Nat
    BY <1>1, RowsFinite
  <2> QED
    BY <1>2, <2>1, SumDisjoint
<1>7. /\ Sum(amount, W) \in Nat /\ Sum(amount, D) \in Nat /\ Sum(amount, F) \in Nat
  BY <1>1, RowsFinite
<1>8. /\ Sum(amount, PaidOut \ Counted) \in Nat /\ Sum(amount, Counted \ PaidOut) \in Nat
      /\ Sum(amount, PaidOut) \in Nat
      /\ Sum(amount, Counted) + Sum(amount, PaidOut \ Counted)
           = Sum(amount, PaidOut) + Sum(amount, Counted \ PaidOut)
  <2>1. /\ IsFiniteSet(Counted) /\ IsFiniteSet(PaidOut)
        /\ \A p \in Counted \cup PaidOut : amount[p] \in Nat
    BY <1>1, RowsFinite
  <2> QED
    BY <2>1, SumDifference
<1>9. PaidOut \ Counted = Hidden /\ Counted \ PaidOut = Phantom
  BY CountedButNotPaid, PaidButNotCounted
<1> QED
  <2>1. Sum(amount, Counted) = Sum(amount, W) + Sum(amount, D) + Sum(amount, F)
    BY <1>4, <1>5, <1>6
  <2>2. /\ Sum(amount, Hidden) \in Nat /\ Sum(amount, Phantom) \in Nat
        /\ Sum(amount, Counted) + Sum(amount, Hidden)
             = Sum(amount, PaidOut) + Sum(amount, Phantom)
    BY <1>8, <1>9
  <2> QED
    BY <1>3, <1>7, <1>8, <2>1, <2>2, EarlierTyped

\* The wallet and the books hold the same charges but for those without a row and
\* the rows of money that is elsewhere, and so of anything they sum.
LEMMA ReceiptsDiffer ==
  ASSUME NEW f, f \in {Settled, Fee}
  PROVE  /\ Sum(f, InWallet) \in Nat /\ Sum(f, Credited \ Manual) \in Nat
         /\ Sum(f, Unrecorded) \in Nat /\ Sum(f, Elsewhere) \in Nat
         /\ Sum(f, InWallet) + Sum(f, Elsewhere)
              = Sum(f, Credited \ Manual) + Sum(f, Unrecorded)
<1>1. InWallet \ (Credited \ Manual) = Unrecorded
  BY DEF InWallet, Credited, Unrecorded, Charged
<1>2. (Credited \ Manual) \ InWallet = Elsewhere
  BY DEF InWallet, Credited, Elsewhere, Charged
<1>3. /\ InWallet \in SUBSET Contributions /\ Credited \ Manual \in SUBSET Contributions
      /\ Unrecorded \in SUBSET Contributions /\ Elsewhere \in SUBSET Contributions
  BY DEF InWallet, Credited, Unrecorded, Elsewhere, Charged
<1>4. \A S \in SUBSET Contributions :
        IsFiniteSet(S) /\ Sum(f, S) \in Nat /\ \A t \in S : f[t] \in Nat
  BY ReceiptsFinite
<1>5. Sum(f, Credited \ Manual) + Sum(f, InWallet \ (Credited \ Manual))
        = Sum(f, InWallet) + Sum(f, (Credited \ Manual) \ InWallet)
  <2>1. /\ IsFiniteSet(InWallet) /\ IsFiniteSet(Credited \ Manual)
        /\ \A t \in (Credited \ Manual) \cup InWallet : f[t] \in Nat
    BY <1>3, <1>4
  <2> QED
    BY <2>1, SumDifference
<1> QED
  BY <1>1, <1>2, <1>3, <1>4, <1>5

\* An entry by hand has no fee.
LEMMA FeesAreCharged ==
  TotalFees = Sum(Fee, Credited \ Manual)
<1>1. /\ Credited \ Manual \in SUBSET Contributions
      /\ Credited \cap Manual \in SUBSET Contributions
      /\ (Credited \ Manual) \cap (Credited \cap Manual) = {}
      /\ (Credited \ Manual) \cup (Credited \cap Manual) = Credited
  BY DEF Credited
<1>2. Sum(Fee, Credited \cap Manual) = 0
  <2>1. \A t \in Credited \cap Manual : Fee[t] = 0
    BY ContributionRows
  <2> QED
    BY <2>1, SumOfNothing
<1>3. Sum(Fee, (Credited \ Manual) \cup (Credited \cap Manual))
        = Sum(Fee, Credited \ Manual) + Sum(Fee, Credited \cap Manual)
  <2>1. /\ IsFiniteSet(Credited \ Manual) /\ IsFiniteSet(Credited \cap Manual)
        /\ \A t \in (Credited \ Manual) \cup (Credited \cap Manual) : Fee[t] \in Nat
    BY <1>1, ReceiptsFinite
  <2> QED
    BY <1>1, <2>1, SumDisjoint
<1>4. Sum(Fee, Credited \ Manual) \in Nat
  BY <1>1, ReceiptsFinite
<1>5. Sum(Fee, Credited) = Sum(Fee, (Credited \ Manual) \cup (Credited \cap Manual))
  BY <1>1
<1> QED
  BY <1>2, <1>3, <1>4, <1>5 DEF TotalFees

\* What reconciliation reports as drift is, at any time and to the unit, the gross
\* of the personal invoices and of the charges without a row, less the rows of
\* money that is elsewhere and the payouts that no balance counts, plus the rows
\* counted for payouts that were not made and what Paystack paid out.
THEOREM DriftIsExplained == Spec => []DriftExplained
<1>1. IInv => DriftExplained
  <2> SUFFICES ASSUME TypeOK, RowsAgree PROVE DriftExplained
    BY DEF IInv
  <2>1. Sum(Gross, personal) \in Nat
    <3>1. IsFiniteSet(personal) /\ \A i \in personal : Gross[i] \in Nat
      BY PersonalRows, FS_Subset DEF TypeOK
    <3> QED
      BY <3>1, SumType
  <2>2. /\ Sum(Settled, InWallet) \in Nat /\ Sum(Settled, Credited \ Manual) \in Nat
        /\ Sum(Settled, Unrecorded) \in Nat /\ Sum(Settled, Elsewhere) \in Nat
        /\ Sum(Settled, InWallet) + Sum(Settled, Elsewhere)
             = TotalReceived + Sum(Settled, Unrecorded)
        /\ TotalReceived \in Nat
    BY ReceiptsDiffer DEF TotalReceived
  <2>3. /\ Sum(Fee, InWallet) \in Nat /\ TotalFees \in Nat
        /\ Sum(Fee, Unrecorded) \in Nat /\ Sum(Fee, Elsewhere) \in Nat
        /\ Sum(Fee, InWallet) + Sum(Fee, Elsewhere) = TotalFees + Sum(Fee, Unrecorded)
    BY ReceiptsDiffer, FeesAreCharged
  <2>4. /\ Drift = (Sum(Settled, InWallet) + Sum(Fee, InWallet) + Sum(Gross, personal)
                     - Sum(amount, PaidOut))
                    - ((TotalReceived - TotalWithdrawn - TotalDisbursed)
                       + (TotalFees - TotalFeesWithdrawn))
        /\ Charge(Unrecorded) = Sum(Settled, Unrecorded) + Sum(Fee, Unrecorded)
        /\ Charge(Elsewhere) = Sum(Settled, Elsewhere) + Sum(Fee, Elsewhere)
    BY DEF Drift, LiveBalance, ExpectedTotal, TotalOwedToOrgs, PlatformBalance, Charge
  <2>5. /\ TotalWithdrawn \in Nat /\ TotalDisbursed \in Nat /\ TotalFeesWithdrawn \in Nat
        /\ Sum(amount, PaidOut) \in Nat
        /\ Sum(amount, Hidden) \in Nat /\ Sum(amount, Phantom) \in Nat
        /\ TotalWithdrawn + TotalDisbursed + TotalFeesWithdrawn + Sum(amount, Hidden)
             = Sum(amount, PaidOut) + Sum(amount, Phantom)
               + (Earlier["withdrawal"] + Earlier["disbursement"] + Earlier["platform"])
    BY PayoutsDiffer
  <2>6. Drift = Sum(Gross, personal)
                + (Sum(Settled, Unrecorded) + Sum(Fee, Unrecorded))
                - (Sum(Settled, Elsewhere) + Sum(Fee, Elsewhere))
                - Sum(amount, Hidden) + Sum(amount, Phantom)
                + (Earlier["withdrawal"] + Earlier["disbursement"] + Earlier["platform"])
    <3> DEFINE e == Earlier["withdrawal"] + Earlier["disbursement"] + Earlier["platform"]
    <3>1. e \in Nat
      BY EarlierTyped
    <3>2. TotalWithdrawn + TotalDisbursed + TotalFeesWithdrawn + Sum(amount, Hidden)
            = Sum(amount, PaidOut) + Sum(amount, Phantom) + e
      BY <2>5
    <3>3. /\ Sum(Settled, InWallet)
               = TotalReceived + Sum(Settled, Unrecorded) - Sum(Settled, Elsewhere)
          /\ Sum(Fee, InWallet) = TotalFees + Sum(Fee, Unrecorded) - Sum(Fee, Elsewhere)
      BY <2>2, <2>3
    <3>4. Sum(amount, PaidOut)
            = TotalWithdrawn + TotalDisbursed + TotalFeesWithdrawn + Sum(amount, Hidden)
              - Sum(amount, Phantom) - e
      <4> HIDE DEF e
      <4> QED
        BY <2>5, <3>1, <3>2
    <3> HIDE DEF e
    <3>5. Drift = Sum(Gross, personal)
                + (Sum(Settled, Unrecorded) + Sum(Fee, Unrecorded))
                - (Sum(Settled, Elsewhere) + Sum(Fee, Elsewhere))
                - Sum(amount, Hidden) + Sum(amount, Phantom) + e
      BY <2>1, <2>2, <2>3, <2>4, <2>5, <3>1, <3>3, <3>4
    <3> QED
      BY <3>5 DEF e
  <2> QED
    BY <2>4, <2>6 DEF DriftExplained
<1> QED
  BY <1>1, Inductive, PTL

=============================================================================

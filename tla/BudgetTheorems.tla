--------------------------- MODULE BudgetTheorems ---------------------------
(***************************************************************************)
(* The budget, its approval and its payouts, for any categories, amounts,  *)
(* vendors and number of requests.                                         *)
(*                                                                         *)
(* Overlapping or not, a change of a locked budget uses up a request that  *)
(* was at work when it was locked (LateWritersBounded), and nothing is     *)
(* funded that was never approved (ApprovalKnown); an allocation shrinks   *)
(* only with its category, whose payouts it then has none of               *)
(* (PaidWithinAllocation, SpendingKeepsPools).  While requests do not      *)
(* overlap there is one at work at most, so that what it read still holds  *)
(* when it writes (ReadsHold), and from there on the numbers that were     *)
(* approved are the numbers that are paid.                                 *)
(***************************************************************************)
EXTENDS BudgetSpending, MoneyTheorems

\* The requests that may still change the budget.
Writers ==
  {h \in Calls : \/ call[h].op \in {"create", "update", "remove", "allocate"}
                 \/ call[h].op = "apply" /\ call[h].at = "checked"}

\* Who funds, or has funded, has seen an approval.
ApprovalKnown ==
  approval \in {"APPROVED", "FUNDED"} \/ (\E h \in Calls : call[h].op = "fund") => approved # {}

\* The request that locked the budget is none of those that may still change it.
LateWritersBounded ==
  IF approval \in Editable THEN late = 0
  ELSE late + Cardinality(Writers) < Cardinality(Calls)

OneAtWork ==
  ~overlapped => \A g, h \in Calls : call[g].op # "idle" /\ call[h].op # "idle" => g = h

\* What a request has read is still so.
ReadsHold ==
  ~overlapped => \A h \in Calls :
    /\ call[h].op = "submit" => approval \in Editable
    /\ call[h].op = "submit" /\ call[h].at = "counted" => TotalAllocated > 0
    /\ call[h].op \in {"approve", "decline"} => approval = "SUBMITTED"
    /\ call[h].op = "fund" => approval = "APPROVED"
    /\ h \in Writers => approval \in Editable
    /\ call[h].op = "allocate" /\ call[h].at = "covered" =>
         TotalAllocated + call[h].amount <= EverReceived
    /\ call[h].op = "delete" => InFlight(call[h].vendor) = {}

SubmittedHasMoney ==
  ~overlapped /\ approval \in {"SUBMITTED", "APPROVED", "FUNDED"} => TotalAllocated > 0

\* Payouts are of a funded budget, ...
PaidFromFunded ==
  ~overlapped /\ (\E p \in Payouts : payout[p].status # "none") => approval = "FUNDED"

\* ... and, overlapping or not, within what their category has.
PaidWithinAllocation == \A c \in Categories : SpokenFor(c) <= allocated[c]

IInv ==
  /\ SpendingTypeOK
  /\ ApprovalKnown /\ LateWritersBounded
  /\ OneAtWork /\ ReadsHold /\ SubmittedHasMoney
  /\ SerialApprovalStands /\ SerialAllocationsCovered
  /\ PaidFromFunded /\ PaidWithinAllocation /\ SerialPayoutKeepsItsRows

-----------------------------------------------------------------------------
(* Types *)

\* The step is one of these.
LEMMA Cases ==
  ASSUME [SpendingNext]_allVars
  PROVE  \/ BudgetMoves /\ GetStatus
         \/ \E h \in Calls : BudgetMoves /\
              (\/ SubmitReads(h) \/ SubmitCounts(h) \/ SubmitWrites(h)
               \/ DecideReads(h) \/ DecideWrites(h) \/ FundReads(h) \/ FundWrites(h)
               \/ EditWrites(h) \/ ApplyReads(h) \/ ApplyChecks(h) \/ ApplyCreates(h)
               \/ AllocateCovers(h) \/ AllocateCommits(h) \/ CallBreaks(h))
         \/ \E h \in Calls, c \in Categories : BudgetMoves /\ (EditReads(h, c) \/ AllocateReads(h, c))
         \/ \E t \in Contributions : BudgetMoves /\ (ContributionSettles(t) \/ ContributionReversed(t))
         \/ \E v \in Vendors : CreateVendor(v)
         \/ \E h \in Calls, v \in Vendors : RemoveVendorReads(h, v)
         \/ \E h \in Calls : RemoveVendorWrites(h)
         \/ \E c \in Categories, v \in Vendors : AssignVendor(c, v)
         \/ \E c \in Categories : UnassignVendor(c)
         \/ \E c \in Categories, p \in Payouts : Pay(p, c)
         \/ \E p \in Payouts : PayoutEnds(p)
         \/ UNCHANGED allVars
BY DEF SpendingNext, BudgetMoves, Step

\* What each request being handled may be.
LEMMA RequestFields ==
  ASSUME SpendingTypeOK, NEW h \in Calls
  PROVE  /\ call[h].op = "submit" => call[h] \in [op : {"submit"}, at : {"read", "counted"}]
         /\ call[h].op \in {"create", "update", "remove"} => call[h].category \in Categories
         /\ call[h].op = "apply" =>
              call[h] \in [op : {"apply"}, left : SUBSET Categories, at : {"next", "checked"}]
         /\ call[h].op = "allocate" =>
              call[h] \in [op : {"allocate"}, category : Categories, amount : 1 .. MaxAmount,
                           at : {"read", "covered"}]
         /\ call[h].op = "delete" => call[h].vendor \in Vendors
         /\ call[h].op = "idle" <=> call[h] = Idle
BY RequestsOfVendors DEF SpendingTypeOK, TypeOK, Requests, Idle

\* Every call is a request afterwards.
LEMMA CallsTyped ==
  ASSUME SpendingTypeOK, [SpendingNext]_allVars
  PROVE  call' \in [Calls -> Requests] /\ overlapped' \in BOOLEAN
<1> DEFINE Typed == call' \in [Calls -> Requests] /\ overlapped' \in BOOLEAN
<1>0. call \in [Calls -> Requests] /\ overlapped \in BOOLEAN
  BY DEF SpendingTypeOK, TypeOK
<1>1. ASSUME NEW h \in Calls, NEW request \in Requests, Begins(h, request)
      PROVE  Typed
  BY <1>0, <1>1 DEF Begins
<1>2. ASSUME NEW h \in Calls, Ends(h)
      PROVE  Typed
  BY <1>0, <1>2 DEF Ends, Requests
<1>3. ASSUME NEW h \in Calls, NEW request \in Requests, call' = [call EXCEPT ![h] = request],
             overlapped' = overlapped
      PROVE  Typed
  BY <1>0, <1>3
<1>4. /\ \A a \in {"read", "counted"} : [op |-> "submit", at |-> a] \in Requests
      /\ \A o \in {"approve", "decline", "fund"} : [op |-> o] \in Requests
      /\ \A o \in {"create", "update", "remove"}, c \in Categories :
           [op |-> o, category |-> c] \in Requests
      /\ \A s \in SUBSET Categories, a \in {"next", "checked"} :
           [op |-> "apply", left |-> s, at |-> a] \in Requests
      /\ \A v \in Vendors : [op |-> "delete", vendor |-> v] \in Requests
      /\ \A c \in Categories, n \in 1 .. MaxAmount, a \in {"read", "covered"} :
           [op |-> "allocate", category |-> c, amount |-> n, at |-> a] \in Requests
  BY RequestsOfVendors DEF Requests
<1>5. ASSUME NEW h \in Calls, SubmitReads(h) \/ DecideReads(h) \/ FundReads(h)
      PROVE  Typed
  <2> HIDE DEF Typed
  <2> QED
    BY <1>1, <1>4, <1>5 DEF SubmitReads, DecideReads, FundReads
<1>6. ASSUME NEW h \in Calls, ApplyReads(h)
      PROVE  Typed
  <2>1. PICK items \in SUBSET Fresh \ {{}} :
          Begins(h, [op |-> "apply", left |-> items, at |-> "next"])
    BY <1>6 DEF ApplyReads
  <2>2. [op |-> "apply", left |-> items, at |-> "next"] \in Requests
    BY <1>4 DEF Fresh
  <2> HIDE DEF Typed
  <2> QED
    BY <1>1, <2>1, <2>2
<1>7. ASSUME NEW h \in Calls, NEW c \in Categories, EditReads(h, c) \/ AllocateReads(h, c)
      PROVE  Typed
  <2> HIDE DEF Typed
  <2> QED
    BY <1>1, <1>4, <1>7 DEF EditReads, AllocateReads
<1>8. ASSUME NEW h \in Calls, NEW v \in Vendors, RemoveVendorReads(h, v)
      PROVE  Typed
  <2> HIDE DEF Typed
  <2> QED
    BY <1>1, <1>4, <1>8 DEF RemoveVendorReads
<1>9. ASSUME NEW h \in Calls, SubmitCounts(h)
      PROVE  Typed
  <2>1. [call[h] EXCEPT !.at = "counted"] \in Requests
    BY <1>9, RequestFields DEF SubmitCounts, Requests
  <2> HIDE DEF Typed
  <2> QED
    BY <1>3, <1>9, <2>1 DEF SubmitCounts
<1>10. ASSUME NEW h \in Calls, ApplyChecks(h)
       PROVE  Typed
  <2>1. [call[h] EXCEPT !.at = "checked"] \in Requests
    BY <1>10, RequestFields DEF ApplyChecks, Requests
  <2> HIDE DEF Typed
  <2> QED
    BY <1>3, <1>10, <2>1 DEF ApplyChecks
<1>11. ASSUME NEW h \in Calls, AllocateCovers(h)
       PROVE  Typed
  <2>1. [call[h] EXCEPT !.at = "covered"] \in Requests
    BY <1>11, RequestFields DEF AllocateCovers, Requests
  <2> HIDE DEF Typed
  <2> QED
    BY <1>3, <1>11, <2>1 DEF AllocateCovers
<1>12. ASSUME NEW h \in Calls, ApplyCreates(h)
       PROVE  Typed
  <2>1. PICK c : \/ Ends(h)
                 \/ /\ call' = [call EXCEPT ![h].left = @ \ {c}, ![h].at = "next"]
                    /\ UNCHANGED overlapped
    BY <1>12 DEF ApplyCreates
  <2>2. CASE Ends(h)
    BY <1>2, <2>2
  <2>3. CASE /\ call' = [call EXCEPT ![h].left = @ \ {c}, ![h].at = "next"]
             /\ UNCHANGED overlapped
    <3>1. [call[h] EXCEPT !.left = @ \ {c}, !.at = "next"] \in Requests
      BY <1>12, RequestFields DEF ApplyCreates, Requests
    <3>2. call' = [call EXCEPT ![h] = [call[h] EXCEPT !.left = @ \ {c}, !.at = "next"]]
      BY <1>0, <2>3
    <3> HIDE DEF Typed
    <3> QED
      BY <1>3, <2>3, <3>1, <3>2
  <2> QED
    BY <2>1, <2>2, <2>3
<1>13. ASSUME NEW p \in Payouts, NEW c \in Categories, Pay(p, c)
       PROVE  Typed
  BY <1>0, <1>13 DEF Pay
<1>14. ASSUME call' = call, overlapped' = overlapped
       PROVE  Typed
  BY <1>0, <1>14
<1>15. Typed
  <2> HIDE DEF Typed
  <2> QED
    BY <1>2, <1>5, <1>6, <1>7, <1>8, <1>9, <1>10, <1>11, <1>12, <1>13, <1>14, Cases
       DEF GetStatus, SubmitWrites, DecideWrites, FundWrites, EditWrites, AllocateCommits,
       CallBreaks, ContributionSettles, ContributionReversed, CreateVendor, RemoveVendorWrites,
       AssignVendor, UnassignVendor, PayoutEnds, vars, allVars
<1> QED
  BY <1>15

\* What an item of a template is estimated at is an amount.
LEMMA EstimateType ==
  ASSUME NEW item \in Items
  PROVE  EstimateOf(item) \in Nat
<1>1. \A a \in Nat, b \in Nat \ {0} : a \div b \in Nat
  OBVIOUS
<1>2. \A a, b \in Nat : a * b \in Nat /\ a + b \in Nat
  OBVIOUS
<1>3. PICK e \in 0 .. MaxEstimate : item = ItemFrom(e)
  BY DEF Items
<1>4. e \in Nat /\ Goal \in Nat /\ Precision \in Nat /\ 2 * Precision \in Nat \ {0}
  BY Bounds, GoalAndPrecision
<1>5. CASE Goal > 0
  <2> DEFINE pc == (2 * e * Precision + Goal) \div (2 * Goal)
  <2>1. pc \in Nat
    <3>1. 2 * e * Precision + Goal \in Nat /\ 2 * Goal \in Nat \ {0}
      BY <1>2, <1>4, <1>5
    <3> QED
      BY <1>1, <3>1
  <2> HIDE DEF pc
  <2>2. item = [percentage |-> pc]
    BY <1>3, <1>5 DEF ItemFrom, pc
  <2>3. EstimateOf(item) = (2 * Goal * pc + Precision) \div (2 * Precision)
    BY <2>2 DEF EstimateOf
  <2>4. 2 * Goal * pc + Precision \in Nat
    BY <1>2, <1>4, <2>1
  <2> QED
    BY <1>1, <1>4, <2>3, <2>4
<1>6. CASE ~(Goal > 0)
  <2>1. item = [fixedAmount |-> e]
    BY <1>3, <1>6 DEF ItemFrom
  <2> QED
    BY <1>4, <2>1 DEF EstimateOf
<1> QED
  BY <1>5, <1>6

\* The ways in which the budget changes: a category is created, estimated, removed,
\* or allocated an amount.
Created(c, e) ==
  /\ exists' = [exists EXCEPT ![c] = "live"]
  /\ estimate' = [estimate EXCEPT ![c] = e] /\ allocated' = allocated
Estimated(c, e) ==
  /\ exists[c] = "live" /\ exists' = exists
  /\ estimate' = [estimate EXCEPT ![c] = e] /\ allocated' = allocated
Removed(c) ==
  /\ exists[c] = "live" /\ exists' = [exists EXCEPT ![c] = "removed"]
  /\ estimate' = [estimate EXCEPT ![c] = 0] /\ allocated' = [allocated EXCEPT ![c] = 0]
Increased(c, n) ==
  /\ exists[c] = "live" /\ exists' = exists
  /\ estimate' = estimate /\ allocated' = [allocated EXCEPT ![c] = @ + n]

\* The three kinds of steps: those that leave the budget and its approval alone,
\* those that decide about it, those that change it.
Quiet ==
  /\ UNCHANGED budgetVars /\ approved' = approved
  /\ approval' = approval \/ (approval = "none" /\ approval' = "DRAFT")
Decides(h) ==
  /\ UNCHANGED budgetVars /\ contribution' = contribution /\ Ends(h)
  /\ \/ /\ call[h] = [op |-> "submit", at |-> "counted"]
        /\ approval' = "SUBMITTED" /\ approved' = approved
     \/ call[h].op = "approve" /\ approval' = "APPROVED" /\ approved' = {Numbers}
     \/ call[h].op = "decline" /\ approval' = "DECLINED" /\ approved' = approved
     \/ call[h].op = "fund" /\ approval' = "FUNDED" /\ approved' = approved
Writes(h) ==
  /\ approval' = approval /\ approved' = approved /\ contribution' = contribution
  /\ overlapped' = overlapped
  /\ h \in Writers /\ h \notin Writers' /\ \A g \in Calls : g # h => call'[g] = call[g]
  /\ \/ \E c \in Categories, e \in Nat : Created(c, e) \/ Estimated(c, e)
     \/ \E c \in Categories : Removed(c)
     \/ /\ call[h].op = "allocate" /\ call[h].at = "covered"
        /\ \E c \in Categories : Increased(c, call[h].amount)

\* Every step is of one of these kinds, and what the other modules' rows do follows
\* from the categories that are removed.
LEMMA StepKinds ==
  ASSUME SpendingTypeOK, [SpendingNext]_allVars
  PROVE  \/ Quiet
         \/ BudgetMoves /\ \E h \in Calls : Decides(h) \/ Writes(h)
<1> DEFINE Decided == BudgetMoves /\ \E h \in Calls : Decides(h)
           Written == BudgetMoves /\ \E h \in Calls : Writes(h)
<1>0. call \in [Calls -> Requests]
  BY DEF SpendingTypeOK, TypeOK
<1>1. ASSUME NEW h \in Calls, Ends(h)
      PROVE  /\ overlapped' = overlapped /\ h \notin Writers'
             /\ \A g \in Calls : g # h => call'[g] = call[g]
  BY <1>0, <1>1 DEF Ends, Writers, Idle
<1>2. ASSUME NEW h \in Calls, BudgetMoves, SubmitWrites(h) \/ DecideWrites(h) \/ FundWrites(h)
      PROVE  Decided
  <2>1. Decides(h)
    BY <1>2 DEF SubmitWrites, DecideWrites, FundWrites, Decides
  <2> QED
    BY <1>2, <2>1
<1>3. ASSUME NEW h \in Calls, BudgetMoves, EditWrites(h)
      PROVE  Written
  <2>1. PICK c \in Categories : c = call[h].category
    BY <1>3, RequestFields DEF EditWrites
  <2>2. h \in Writers /\ Ends(h)
    BY <1>3 DEF EditWrites, Writers
  <2>3. \/ \E e \in Nat : Created(c, e) \/ Estimated(c, e)
        \/ Removed(c)
    <3>1. CASE call[h].op = "create"
      BY <1>3, <2>1, <3>1, Bounds DEF EditWrites, Created
    <3>2. CASE call[h].op = "update"
      BY <1>3, <2>1, <3>2, Bounds DEF EditWrites, Estimated
    <3>3. CASE call[h].op = "remove"
      BY <1>3, <2>1, <3>3 DEF EditWrites, Removed
    <3> QED
      BY <1>3, <3>1, <3>2, <3>3 DEF EditWrites
  <2>4. approval' = approval /\ approved' = approved /\ contribution' = contribution
    BY <1>3 DEF EditWrites
  <2>5. Writes(h)
    BY <1>1, <2>2, <2>3, <2>4 DEF Writes
  <2> QED
    BY <1>3, <2>5
<1>4. ASSUME NEW h \in Calls, BudgetMoves, ApplyCreates(h)
      PROVE  Written
  <2>1. PICK c \in Categories, item \in Items :
          /\ exists' = [exists EXCEPT ![c] = "live"]
          /\ estimate' = [estimate EXCEPT ![c] = EstimateOf(item)]
          /\ IF call[h].left = {c} THEN Ends(h)
             ELSE /\ call' = [call EXCEPT ![h].left = @ \ {c}, ![h].at = "next"]
                  /\ UNCHANGED overlapped
    BY <1>4, RequestFields DEF ApplyCreates
  <2>2. Created(c, EstimateOf(item)) /\ EstimateOf(item) \in Nat
    BY <1>4, <2>1, EstimateType DEF ApplyCreates, Created
  <2>3. /\ overlapped' = overlapped /\ h \notin Writers'
        /\ \A g \in Calls : g # h => call'[g] = call[g]
    <3>1. CASE call[h].left = {c}
      BY <1>1, <2>1, <3>1
    <3>2. CASE call[h].left # {c}
      <4>1. /\ call' = [call EXCEPT ![h].left = @ \ {c}, ![h].at = "next"]
            /\ UNCHANGED overlapped
        BY <2>1, <3>2
      <4>2. call[h] \in [op : {"apply"}, left : SUBSET Categories, at : {"next", "checked"}]
        BY <1>4, RequestFields DEF ApplyCreates
      <4>3. call'[h].op = "apply" /\ call'[h].at = "next"
        BY <1>0, <4>1, <4>2
      <4> QED
        BY <1>0, <4>1, <4>3 DEF Writers
    <3> QED
      BY <3>1, <3>2
  <2>4. h \in Writers /\ approval' = approval /\ approved' = approved /\ contribution' = contribution
    BY <1>4 DEF ApplyCreates, Writers
  <2>5. Writes(h)
    BY <2>2, <2>3, <2>4 DEF Writes
  <2> QED
    BY <1>4, <2>5
<1>5. ASSUME NEW h \in Calls, BudgetMoves, AllocateCommits(h)
      PROVE  Written
  <2>1. PICK c \in Categories : c = call[h].category
    BY <1>5, RequestFields DEF AllocateCommits
  <2>2. Increased(c, call[h].amount)
    BY <1>5, <2>1 DEF AllocateCommits, Increased
  <2>3. Writes(h)
    BY <1>1, <1>5, <2>2 DEF AllocateCommits, Writes, Writers
  <2> QED
    BY <1>5, <2>3
<1>6. Quiet \/ Decided \/ Written
  <2> HIDE DEF Decided, Written
  <2>1. ASSUME UNCHANGED <<approval, budgetVars, approved>> PROVE Quiet
    BY <2>1 DEF Quiet, budgetVars
  <2>2. ASSUME GetStatus \/ \E h \in Calls : SubmitReads(h) PROVE Quiet
    BY <2>2 DEF GetStatus, SubmitReads, ReadStatus, Quiet, budgetVars
  <2> QED
    BY <1>2, <1>3, <1>4, <1>5, <2>1, <2>2, Cases DEF SubmitCounts, DecideReads,
       FundReads, EditReads, ApplyReads, ApplyChecks, AllocateReads, AllocateCovers,
       CallBreaks, ContributionSettles, ContributionReversed, CreateVendor, RemoveVendorReads,
       RemoveVendorWrites, AssignVendor, UnassignVendor, Pay, PayoutEnds, budgetVars, vars, allVars
<1> QED
  BY <1>6

\* The budget's rows keep their types; a category that is not there has no money.
LEMMA BudgetTyped ==
  ASSUME SpendingTypeOK, [SpendingNext]_allVars
  PROVE  /\ exists' \in [Categories -> {"none", "live", "removed"}]
         /\ estimate' \in [Categories -> Nat] /\ allocated' \in [Categories -> Nat]
         /\ \A c \in Categories : exists'[c] # "live" => estimate'[c] = 0 /\ allocated'[c] = 0
         /\ approval' \in ApprovalStatus
         /\ \A numbers \in approved' : DOMAIN numbers \subseteq Categories
<1> DEFINE Typed ==
         /\ exists' \in [Categories -> {"none", "live", "removed"}]
         /\ estimate' \in [Categories -> Nat] /\ allocated' \in [Categories -> Nat]
         /\ \A c \in Categories : exists'[c] # "live" => estimate'[c] = 0 /\ allocated'[c] = 0
           Approves ==
         /\ approval' \in ApprovalStatus
         /\ \A numbers \in approved' : DOMAIN numbers \subseteq Categories
<1>0. /\ exists \in [Categories -> {"none", "live", "removed"}]
      /\ estimate \in [Categories -> Nat] /\ allocated \in [Categories -> Nat]
      /\ \A c \in Categories : exists[c] # "live" => estimate[c] = 0 /\ allocated[c] = 0
      /\ approval \in ApprovalStatus
      /\ \A numbers \in approved : DOMAIN numbers \subseteq Categories
  BY DEF SpendingTypeOK, TypeOK
<1>1. ASSUME NEW c \in Categories, NEW e \in Nat, Created(c, e) \/ Estimated(c, e)
      PROVE  Typed
  BY <1>0, <1>1 DEF Created, Estimated
<1>2. ASSUME NEW c \in Categories, Removed(c)
      PROVE  Typed
  BY <1>0, <1>2 DEF Removed
<1>3. ASSUME NEW c \in Categories, NEW n \in Nat, Increased(c, n)
      PROVE  Typed
  BY <1>0, <1>3 DEF Increased
<1>4. CASE Quiet
  BY <1>0, <1>4 DEF Quiet, budgetVars, ApprovalStatus
<1>5. ASSUME NEW h \in Calls, Decides(h)
      PROVE  Typed /\ Approves
  <2>1. Typed
    BY <1>0, <1>5 DEF Decides, budgetVars
  <2>2. approval' \in ApprovalStatus
    BY <1>0, <1>5 DEF Decides, ApprovalStatus
  <2>3. DOMAIN Numbers \subseteq Categories
    BY DEF Numbers, Live
  <2>4. \A numbers \in approved' : DOMAIN numbers \subseteq Categories
    BY <1>0, <1>5, <2>3 DEF Decides
  <2> QED
    BY <2>1, <2>2, <2>4
<1>6. ASSUME NEW h \in Calls, Writes(h)
      PROVE  Typed /\ Approves
  <2>1. call[h].op = "allocate" => call[h].amount \in Nat
    BY RequestFields, Bounds
  <2>2. Approves
    BY <1>0, <1>6 DEF Writes
  <2> HIDE DEF Typed, Approves
  <2> QED
    BY <1>1, <1>2, <1>3, <1>6, <2>1, <2>2 DEF Writes
<1>7. Typed /\ Approves
  BY <1>4, <1>5, <1>6, StepKinds
<1> QED
  BY <1>7

\* Counters, contributions and vendors keep their types.
LEMMA RestTyped ==
  ASSUME SpendingTypeOK, [SpendingNext]_allVars
  PROVE  /\ late' \in Nat
         /\ contribution' \in [Contributions -> {"none", "SUCCESS", "REFUNDED"}]
         /\ vendors' \subseteq Vendors /\ toCome' \subseteq Vendors \ vendors'
<1>0. /\ late \in Nat /\ vendors \subseteq Vendors /\ toCome \subseteq Vendors \ vendors
      /\ contribution \in [Contributions -> {"none", "SUCCESS", "REFUNDED"}]
  BY DEF SpendingTypeOK, TypeOK
<1>1. late' \in Nat
  BY <1>0 DEF SpendingNext, CountsLate, vars, allVars
<1>2. contribution' \in [Contributions -> {"none", "SUCCESS", "REFUNDED"}]
  <2>1. CASE contribution' = contribution
    BY <1>0, <2>1
  <2>2. ASSUME NEW t \in Contributions, ContributionSettles(t) \/ ContributionReversed(t)
        PROVE  contribution' \in [Contributions -> {"none", "SUCCESS", "REFUNDED"}]
    BY <1>0, <2>2 DEF ContributionSettles, ContributionReversed
  <2> QED
    BY <2>1, <2>2, Cases DEF GetStatus, SubmitReads, SubmitCounts, SubmitWrites, DecideReads,
       DecideWrites, FundReads, FundWrites, EditReads, EditWrites, ApplyReads, ApplyChecks,
       ApplyCreates, AllocateReads, AllocateCovers, AllocateCommits, CallBreaks, CreateVendor,
       RemoveVendorReads, RemoveVendorWrites, AssignVendor, UnassignVendor, Pay, PayoutEnds,
       vars, allVars
<1>3. vendors' \subseteq Vendors /\ toCome' \subseteq Vendors \ vendors'
  <2>1. CASE vendors' = vendors /\ toCome' = toCome
    BY <1>0, <2>1
  <2>2. ASSUME NEW v \in Vendors, CreateVendor(v)
        PROVE  vendors' \subseteq Vendors /\ toCome' \subseteq Vendors \ vendors'
    BY <1>0, <2>2 DEF CreateVendor
  <2>3. ASSUME NEW h \in Calls, RemoveVendorWrites(h)
        PROVE  vendors' \subseteq Vendors /\ toCome' \subseteq Vendors \ vendors'
    BY <1>0, <2>3 DEF RemoveVendorWrites
  <2> QED
    BY <2>1, <2>2, <2>3, Cases DEF BudgetMoves, RemoveVendorReads, AssignVendor, UnassignVendor,
       Pay, PayoutEnds, spendingVars, allVars
<1> QED
  BY <1>1, <1>2, <1>3

Payout == [status : {"none", "PENDING", "SUCCESS", "FAILED"}, category : Categories \cup {Nobody},
           vendor : Vendors \cup {Nobody}, amount : Nat]

\* What is spoken for of a category, or of the event, is an amount.
LEMMA SpokenForType ==
  ASSUME SpendingTypeOK
  PROVE  /\ \A c : SpokenFor(c) \in Nat
         /\ Amounts \in [Payouts -> Nat]
<1>1. Amounts \in [Payouts -> Nat]
  BY DEF Amounts, SpendingTypeOK
<1>2. ASSUME NEW rows \in SUBSET Payouts
      PROVE  Sum(Amounts, rows) \in Nat
  <2>1. IsFiniteSet(rows)
    BY VendorsFinite, FS_Subset
  <2> HIDE DEF Amounts
  <2> QED
    BY <1>1, <2>1, SumType
<1>3. ASSUME NEW c PROVE SpokenFor(c) \in Nat
  <2>1. {p \in Payouts : payout[p].category = c /\ payout[p].status \in {"PENDING", "SUCCESS"}} \in SUBSET Payouts
    OBVIOUS
  <2> QED
    BY <1>2, <2>1 DEF SpokenFor
<1> QED
  BY <1>1, <1>3

\* Payouts and assignments name vendors and categories that exist.
LEMMA PayoutsTyped ==
  ASSUME SpendingTypeOK, [SpendingNext]_allVars
  PROVE  /\ assigned' \in [Categories -> Vendors \cup {Nobody}]
         /\ payout' \in [Payouts -> Payout]
         /\ \A c \in Categories : assigned'[c] # Nobody => c \in Live' /\ assigned'[c] \in vendors'
         /\ \A p \in Payouts : payout'[p].vendor \in vendors' \cup {Nobody}
         /\ \A p \in Payouts : payout'[p].category \in Live' \cup {Nobody}
<1> DEFINE Typed ==
         /\ assigned' \in [Categories -> Vendors \cup {Nobody}]
         /\ payout' \in [Payouts -> Payout]
         /\ \A c \in Categories : assigned'[c] # Nobody => c \in Live' /\ assigned'[c] \in vendors'
         /\ \A p \in Payouts : payout'[p].vendor \in vendors' \cup {Nobody}
         /\ \A p \in Payouts : payout'[p].category \in Live' \cup {Nobody}
<1>0. /\ assigned \in [Categories -> Vendors \cup {Nobody}]
      /\ payout \in [Payouts -> Payout]
      /\ \A c \in Categories : assigned[c] # Nobody => c \in Live /\ assigned[c] \in vendors
      /\ \A p \in Payouts : payout[p].vendor \in vendors \cup {Nobody}
      /\ \A p \in Payouts : payout[p].category \in Live \cup {Nobody}
      /\ Nobody \notin Vendors \cup Categories
      /\ vendors \subseteq Vendors /\ Live \subseteq Categories
  BY VendorsFinite DEF SpendingTypeOK, Payout, Live
<1>1. ASSUME BudgetMoves
      PROVE  Typed
  <2>1. /\ vendors' = vendors /\ Live' = {c \in Categories : exists'[c] = "live"}
        /\ assigned' = [c \in Categories |-> IF exists'[c] = "live" THEN assigned[c] ELSE Nobody]
        /\ payout' = [p \in Payouts |->
             IF payout[p].category \in Live /\ exists'[payout[p].category] # "live"
             THEN [payout[p] EXCEPT !.category = Nobody] ELSE payout[p]]
    BY <1>1 DEF BudgetMoves, Live
  <2>2. ASSUME NEW p \in Payouts
        PROVE  /\ payout'[p] \in Payout /\ payout'[p].vendor = payout[p].vendor
               /\ payout'[p].category \in Live' \cup {Nobody}
    <3>1. payout[p] \in Payout
      BY <1>0
    <3>2. CASE payout[p].category \in Live /\ exists'[payout[p].category] # "live"
      <4>1. payout'[p] = [payout[p] EXCEPT !.category = Nobody]
        BY <2>1, <3>2
      <4> QED
        BY <3>1, <4>1 DEF Payout
    <3>3. CASE ~(payout[p].category \in Live /\ exists'[payout[p].category] # "live")
      <4>1. payout'[p] = payout[p]
        BY <2>1, <3>3
      <4> QED
        BY <1>0, <2>1, <3>1, <3>3, <4>1
    <3> QED
      BY <3>2, <3>3
  <2>3. \A c \in Categories : /\ assigned'[c] \in Vendors \cup {Nobody}
                              /\ assigned'[c] # Nobody => c \in Live' /\ assigned'[c] \in vendors'
    BY <1>0, <2>1
  <2>4. assigned' \in [Categories -> Vendors \cup {Nobody}] /\ payout' \in [Payouts -> Payout]
    BY <2>1, <2>2, <2>3
  <2> QED
    BY <1>0, <2>1, <2>2, <2>3, <2>4
<1>2. ASSUME NEW v \in Vendors, CreateVendor(v)
      PROVE  Typed
  <2>1. vendors \subseteq vendors' /\ Live' = Live /\ assigned' = assigned /\ payout' = payout
    BY <1>2 DEF CreateVendor, Live, budgetVars
  <2> QED
    BY <1>0, <2>1
<1>3. ASSUME NEW h \in Calls, RemoveVendorWrites(h)
      PROVE  Typed
  <2> DEFINE v == call[h].vendor
  <2>1. /\ vendors' = vendors \ {v} /\ Live' = Live
        /\ assigned' = [c \in Categories |-> IF assigned[c] = v THEN Nobody ELSE assigned[c]]
        /\ payout' = [p \in Payouts |->
             IF payout[p].vendor = v THEN [payout[p] EXCEPT !.vendor = Nobody] ELSE payout[p]]
    BY <1>3 DEF RemoveVendorWrites, Live, budgetVars
  <2> HIDE DEF v
  <2>2. ASSUME NEW p \in Payouts
        PROVE  /\ payout'[p] \in Payout /\ payout'[p].category = payout[p].category
               /\ payout'[p].vendor \in vendors' \cup {Nobody}
    <3>1. payout[p] \in Payout
      BY <1>0
    <3>2. CASE payout[p].vendor = v
      <4>1. payout'[p] = [payout[p] EXCEPT !.vendor = Nobody]
        BY <2>1, <3>2
      <4> QED
        BY <3>1, <4>1 DEF Payout
    <3>3. CASE payout[p].vendor # v
      <4>1. payout'[p] = payout[p]
        BY <2>1, <3>3
      <4> QED
        BY <1>0, <2>1, <3>1, <3>3, <4>1
    <3> QED
      BY <3>2, <3>3
  <2>3. \A c \in Categories : /\ assigned'[c] \in Vendors \cup {Nobody}
                              /\ assigned'[c] # Nobody => c \in Live' /\ assigned'[c] \in vendors'
    BY <1>0, <2>1
  <2>4. assigned' \in [Categories -> Vendors \cup {Nobody}] /\ payout' \in [Payouts -> Payout]
    BY <2>1, <2>2, <2>3
  <2> QED
    BY <1>0, <2>1, <2>2, <2>3, <2>4
<1>4. ASSUME NEW c \in Categories, UnassignVendor(c) \/ \E v \in Vendors : AssignVendor(c, v)
      PROVE  Typed
  <2>1. vendors' = vendors /\ Live' = Live /\ payout' = payout
    BY <1>4 DEF UnassignVendor, AssignVendor, Live, budgetVars
  <2>2. \E v \in vendors \cup {Nobody} : c \in Live /\ assigned' = [assigned EXCEPT ![c] = v]
    BY <1>4 DEF UnassignVendor, AssignVendor
  <2> QED
    BY <1>0, <2>1, <2>2
<1>5. ASSUME NEW c \in Categories, NEW p \in Payouts, Pay(p, c)
      PROVE  Typed
  <2> DEFINE row == [status |-> "PENDING", category |-> c, vendor |-> assigned[c], amount |-> ToPay(c)]
  <2>1. vendors' = vendors /\ Live' = Live /\ assigned' = assigned
    BY <1>5 DEF Pay, Live, budgetVars
  <2>2. /\ payout' = [payout EXCEPT ![p] = row] /\ c \in Live /\ assigned[c] # Nobody
        /\ ToPay(c) > 0
    BY <1>5 DEF Pay
  <2>3. ToPay(c) \in Nat
    BY <2>2, SpokenForType DEF ToPay, SpendingTypeOK, TypeOK
  <2>4. row \in Payout /\ row.category = c /\ row.vendor = assigned[c]
    BY <1>0, <2>3 DEF Payout
  <2> HIDE DEF row
  <2> QED
    BY <1>0, <2>1, <2>2, <2>4
<1>6. ASSUME NEW p \in Payouts, PayoutEnds(p)
      PROVE  Typed
  <2>1. vendors' = vendors /\ Live' = Live /\ assigned' = assigned
    BY <1>6 DEF PayoutEnds, Live, budgetVars
  <2>2. PICK o \in {"SUCCESS", "FAILED"} : payout' = [payout EXCEPT ![p].status = o]
    BY <1>6 DEF PayoutEnds
  <2>3. payout[p] \in Payout
    BY <1>0
  <2>4. /\ payout'[p] \in Payout /\ payout'[p].category = payout[p].category
        /\ payout'[p].vendor = payout[p].vendor
        /\ \A q \in Payouts : q # p => payout'[q] = payout[q]
    BY <1>0, <2>2, <2>3 DEF Payout
  <2>5. payout' \in [Payouts -> Payout]
    BY <1>0, <2>2, <2>4
  <2> QED
    BY <1>0, <2>1, <2>4, <2>5
<1>7. ASSUME UNCHANGED spendingVars, UNCHANGED budgetVars
      PROVE  Typed
  <2>1. vendors' = vendors /\ Live' = Live /\ assigned' = assigned /\ payout' = payout
    BY <1>7 DEF spendingVars, Live, budgetVars
  <2> QED
    BY <1>0, <2>1
<1>8. Typed
  <2> HIDE DEF Typed
  <2> QED
    BY <1>1, <1>2, <1>3, <1>4, <1>5, <1>6, <1>7, Cases DEF RemoveVendorReads, allVars, vars
<1> QED
  BY <1>8

\* Types are kept.
LEMMA TypeStep == SpendingTypeOK /\ [SpendingNext]_allVars => SpendingTypeOK'
BY CallsTyped, BudgetTyped, RestTyped, PayoutsTyped DEF SpendingTypeOK, TypeOK, Payout

-----------------------------------------------------------------------------
(* Requests *)

\* A request begins with its first read, of which it remembers this much.
Begun(h) ==
  /\ call[h] = Idle /\ \A g \in Calls : g # h => call'[g] = call[g]
  /\ overlapped' = (overlapped \/ \E g \in Calls : call[g] # Idle)
  /\ UNCHANGED <<budgetVars, contribution, approved>>
  /\ call'[h].op = "submit" => call'[h].at = "read" /\ approval \in Editable /\ approval' \in Editable
  /\ call'[h].op # "submit" => approval' = approval
  /\ call'[h].op \in {"approve", "decline"} => approval = "SUBMITTED"
  /\ call'[h].op = "fund" => approval = "APPROVED"
  /\ call'[h].op \in {"create", "update", "remove", "allocate"} => approval \in Editable
  /\ call'[h].op = "allocate" => call'[h].at = "read"
  /\ call'[h].op = "apply" => call'[h].at = "next"
  /\ call'[h].op = "delete" =>
       InFlight(call'[h].vendor) = {} /\ payout' = payout /\ call'[h].vendor \in Vendors

\* A request passes its second check.
Checked(h) ==
  /\ UNCHANGED <<approval, budgetVars, contribution, approved, overlapped>>
  /\ \A g \in Calls : g # h => call'[g] = call[g]
  /\ \/ call[h].op = "submit" /\ call'[h].op = "submit" /\ TotalAllocated > 0
     \/ call[h].op = "apply" /\ call'[h].op = "apply" /\ approval \in Editable
     \/ /\ call[h].op = "allocate" /\ call'[h].op = "allocate"
        /\ call'[h].amount = call[h].amount /\ call[h].amount <= Remaining

\* What a step does to a request.
LEMMA CallChanges ==
  ASSUME SpendingTypeOK, [SpendingNext]_allVars, NEW h \in Calls
  PROVE  \/ call'[h] = call[h]
         \/ call'[h] = Idle
         \/ call[h].op = "apply" /\ call'[h].op = "apply" /\ call'[h].at = "next"
         \/ Begun(h)
         \/ Checked(h)
<1> DEFINE Kept == call'[h] = call[h]
           Ended == call'[h] = Idle
           Applying == call[h].op = "apply" /\ call'[h].op = "apply" /\ call'[h].at = "next"
           Changes == Kept \/ Ended \/ Applying \/ Begun(h) \/ Checked(h)
<1>0. call \in [Calls -> Requests]
  BY DEF SpendingTypeOK, TypeOK
<1>1. ASSUME NEW g \in Calls, NEW request, Begins(g, request)
      PROVE  /\ call[g] = Idle /\ call'[g] = request
             /\ \A k \in Calls : k # g => call'[k] = call[k]
             /\ overlapped' = (overlapped \/ \E k \in Calls : call[k] # Idle)
  BY <1>0, <1>1 DEF Begins
<1>2. ASSUME NEW g \in Calls, Ends(g)
      PROVE  Kept \/ Ended
  BY <1>0, <1>2 DEF Ends
<1>3. ASSUME NEW g \in Calls, SubmitReads(g)
      PROVE  Kept \/ Begun(h)
  <2>1. /\ Begins(g, [op |-> "submit", at |-> "read"])
        /\ approval \in Editable /\ approval' \in Editable
        /\ UNCHANGED <<budgetVars, contribution, approved>>
    BY <1>3 DEF SubmitReads, ReadStatus, Editable
  <2> QED
    BY <1>1, <2>1 DEF Begun
<1>4. ASSUME NEW g \in Calls, DecideReads(g) \/ FundReads(g)
      PROVE  Kept \/ Begun(h)
  <2>1. PICK o \in {"approve", "decline", "fund"} :
          /\ Begins(g, [op |-> o])
          /\ o # "fund" => approval = "SUBMITTED"
          /\ o = "fund" => approval = "APPROVED"
    BY <1>4 DEF DecideReads, FundReads, ReadStatus
  <2>2. UNCHANGED <<approval, budgetVars, contribution, approved>>
    BY <1>4 DEF DecideReads, FundReads
  <2> QED
    BY <1>1, <2>1, <2>2 DEF Begun
<1>5. ASSUME NEW g \in Calls, NEW c \in Categories, EditReads(g, c)
      PROVE  Kept \/ Begun(h)
  <2>1. PICK o \in {"create", "update", "remove"} : Begins(g, [op |-> o, category |-> c])
    BY <1>5 DEF EditReads
  <2>2. UNCHANGED <<approval, budgetVars, contribution, approved>> /\ approval \in Editable
    BY <1>5 DEF EditReads
  <2> QED
    BY <1>1, <2>1, <2>2 DEF Begun
<1>6. ASSUME NEW g \in Calls, NEW c \in Categories, AllocateReads(g, c)
      PROVE  Kept \/ Begun(h)
  <2>1. PICK a \in 1 .. MaxAmount :
          Begins(g, [op |-> "allocate", category |-> c, amount |-> a, at |-> "read"])
    BY <1>6 DEF AllocateReads
  <2>2. UNCHANGED <<approval, budgetVars, contribution, approved>> /\ approval \in Editable
    BY <1>6 DEF AllocateReads
  <2> QED
    BY <1>1, <2>1, <2>2 DEF Begun
<1>7. ASSUME NEW g \in Calls, ApplyReads(g)
      PROVE  Kept \/ Begun(h)
  <2>1. PICK items : Begins(g, [op |-> "apply", left |-> items, at |-> "next"])
    BY <1>7 DEF ApplyReads
  <2>2. UNCHANGED <<approval, budgetVars, contribution, approved>>
    BY <1>7 DEF ApplyReads
  <2> QED
    BY <1>1, <2>1, <2>2 DEF Begun
<1>8. ASSUME NEW g \in Calls, NEW v \in Vendors, RemoveVendorReads(g, v)
      PROVE  Kept \/ Begun(h)
  <2>1. Begins(g, [op |-> "delete", vendor |-> v])
    BY <1>8 DEF RemoveVendorReads
  <2>2. /\ UNCHANGED <<approval, budgetVars, contribution, approved>> /\ payout' = payout
        /\ InFlight(v) = {}
    BY <1>8 DEF RemoveVendorReads, spendingVars
  <2> QED
    BY <1>1, <2>1, <2>2 DEF Begun
<1>9. ASSUME NEW g \in Calls, NEW a, call' = [call EXCEPT ![g].at = a],
             call[g].op \in {"submit", "apply", "allocate"}
      PROVE  /\ \A k \in Calls : k # g => call'[k] = call[k]
             /\ call'[g].op = call[g].op
             /\ call[g].op = "allocate" => call'[g].amount = call[g].amount
  <2>1. call'[g] = [call[g] EXCEPT !.at = a]
    BY <1>0, <1>9
  <2>2. CASE call[g].op = "submit"
    BY <1>0, <1>9, <2>1, <2>2, RequestFields
  <2>3. CASE call[g].op = "apply"
    BY <1>0, <1>9, <2>1, <2>3, RequestFields
  <2>4. CASE call[g].op = "allocate"
    BY <1>0, <1>9, <2>1, <2>4, RequestFields
  <2> QED
    BY <1>9, <2>2, <2>3, <2>4
<1>10. ASSUME NEW g \in Calls, SubmitCounts(g) \/ ApplyChecks(g) \/ AllocateCovers(g)
       PROVE  Kept \/ Checked(h)
  <2>1. PICK a : call' = [call EXCEPT ![g].at = a]
    BY <1>10 DEF SubmitCounts, ApplyChecks, AllocateCovers
  <2>2. /\ UNCHANGED <<approval, budgetVars, contribution, approved, overlapped>>
        /\ \/ call[g].op = "submit" /\ TotalAllocated > 0
           \/ call[g].op = "apply" /\ approval \in Editable
           \/ call[g].op = "allocate" /\ call[g].amount <= Remaining
    BY <1>10 DEF SubmitCounts, ApplyChecks, AllocateCovers
  <2>3. /\ \A k \in Calls : k # g => call'[k] = call[k]
        /\ call'[g].op = call[g].op
        /\ call[g].op = "allocate" => call'[g].amount = call[g].amount
    BY <1>9, <2>1, <2>2
  <2>4. Checked(g)
    BY <2>2, <2>3 DEF Checked
  <2> QED
    BY <2>3, <2>4
<1>11. ASSUME NEW g \in Calls, ApplyCreates(g)
       PROVE  Kept \/ Ended \/ Applying
  <2>1. PICK c : \/ Ends(g)
                 \/ call' = [call EXCEPT ![g].left = @ \ {c}, ![g].at = "next"]
    BY <1>11 DEF ApplyCreates
  <2>2. CASE Ends(g)
    BY <1>2, <2>2
  <2>3. CASE call' = [call EXCEPT ![g].left = @ \ {c}, ![g].at = "next"]
    <3>1. call[g] \in [op : {"apply"}, left : SUBSET Categories, at : {"next", "checked"}]
      BY <1>11, RequestFields DEF ApplyCreates
    <3> QED
      BY <1>0, <2>3, <3>1
  <2> QED
    BY <2>1, <2>2, <2>3
<1>12. ASSUME call' = call
       PROVE  Kept
  BY <1>12
<1>13. Changes
  <2> HIDE DEF Kept, Ended, Applying
  <2> QED
    BY <1>2, <1>3, <1>4, <1>5, <1>6, <1>7, <1>8, <1>10, <1>11, <1>12, Cases
       DEF GetStatus, SubmitWrites, DecideWrites, FundWrites, EditWrites, AllocateCommits,
       CallBreaks, ContributionSettles, ContributionReversed, CreateVendor, RemoveVendorWrites,
       AssignVendor, UnassignVendor, Pay, PayoutEnds, vars, allVars
<1> QED
  BY <1>13

-----------------------------------------------------------------------------
(* Overlapping or not *)

\* While the budget is locked no request joins those that may change it.
LEMMA NoNewWriters ==
  ASSUME SpendingTypeOK, [SpendingNext]_allVars, approval \notin Editable
  PROVE  Writers' \subseteq Writers
<1> SUFFICES ASSUME NEW h \in Writers' PROVE h \in Writers
  OBVIOUS
<1>1. /\ h \in Calls
      /\ \/ call'[h].op \in {"create", "update", "remove", "allocate"}
         \/ call'[h].op = "apply" /\ call'[h].at = "checked"
  BY DEF Writers
<1>2. CASE call'[h] = call[h]
  BY <1>1, <1>2 DEF Writers
<1>3. CASE Begun(h)
  BY <1>1, <1>3 DEF Begun
<1>4. CASE Checked(h)
  BY <1>1, <1>4 DEF Checked, Writers
<1> QED
  BY <1>1, <1>2, <1>3, <1>4, CallChanges DEF Idle

\* A locked budget's change uses up a request.
LEMMA LateStep == SpendingTypeOK /\ LateWritersBounded /\ [SpendingNext]_allVars => LateWritersBounded'
<1> SUFFICES ASSUME SpendingTypeOK, LateWritersBounded, [SpendingNext]_allVars
             PROVE  LateWritersBounded'
  OBVIOUS
<1>0. /\ late \in Nat /\ IsFiniteSet(Calls) /\ Cardinality(Calls) \in Nat
      /\ \A S \in SUBSET Calls : IsFiniteSet(S) /\ Cardinality(S) \in Nat
      /\ Writers \subseteq Calls /\ Writers' \subseteq Calls
  BY SomeCalls, FS_Subset, FS_CardinalityType DEF SpendingTypeOK, TypeOK, Writers
<1>1. ASSUME NEW h, NEW S \in SUBSET Calls, h \in S, NEW T \in SUBSET (S \ {h})
      PROVE  Cardinality(T) < Cardinality(S)
  <2>1. IsFiniteSet(S) /\ Cardinality(S \ {h}) = Cardinality(S) - 1 /\ IsFiniteSet(S \ {h})
    BY <1>0, <1>1, FS_RemoveElement
  <2>2. Cardinality(T) <= Cardinality(S \ {h})
    BY <2>1, FS_Subset
  <2>3. Cardinality(T) \in Nat /\ Cardinality(S) \in Nat
    BY <1>0
  <2> QED
    BY <2>1, <2>2, <2>3
<1>2. CASE approval' \in Editable
  BY <1>2 DEF LateWritersBounded, SpendingNext, CountsLate, allVars, vars
<1>3. CASE approval' \notin Editable
  <2>1. ASSUME approval \notin Editable
        PROVE  Writers' \subseteq Writers /\ late + Cardinality(Writers) < Cardinality(Calls)
    BY <2>1, NoNewWriters DEF LateWritersBounded
  <2>2. late' = IF budgetVars' # budgetVars THEN late + 1 ELSE late
    BY <1>3 DEF SpendingNext, CountsLate, allVars, vars
  <2>3. CASE Quiet
    <3>1. approval' = approval /\ late' = late
      BY <1>3, <2>2, <2>3 DEF Quiet, Editable
    <3>2. Writers' \subseteq Writers /\ late + Cardinality(Writers) < Cardinality(Calls)
      BY <1>3, <2>1, <3>1
    <3>3. Cardinality(Writers') <= Cardinality(Writers)
      BY <1>0, <3>2, FS_Subset
    <3>4. late' + Cardinality(Writers') < Cardinality(Calls)
      BY <1>0, <3>1, <3>2, <3>3
    <3> QED
      BY <1>3, <3>4 DEF LateWritersBounded
  <2>4. ASSUME NEW h \in Calls, Decides(h)
        PROVE  LateWritersBounded'
    <3>1. late' = late /\ h \notin Writers'
      <4>1. call'[h] = Idle
        BY <2>4 DEF Decides, Ends, SpendingTypeOK, TypeOK
      <4> QED
        BY <2>2, <2>4, <4>1 DEF Decides, Writers, Idle
    <3>2. late' + Cardinality(Writers') < Cardinality(Calls)
      <4>1. CASE approval \in Editable
        <5>1. late = 0
          BY <4>1 DEF LateWritersBounded
        <5>2. Cardinality(Writers') < Cardinality(Calls)
          BY <1>0, <1>1, <3>1
        <5> QED
          BY <1>0, <3>1, <5>1, <5>2
      <4>2. CASE approval \notin Editable
        <5>1. Cardinality(Writers') <= Cardinality(Writers)
          BY <1>0, <2>1, <4>2, FS_Subset
        <5> QED
          BY <1>0, <2>1, <3>1, <4>2, <5>1
      <4> QED
        BY <4>1, <4>2
    <3> QED
      BY <1>3, <3>2 DEF LateWritersBounded
  <2>5. ASSUME NEW h \in Calls, Writes(h)
        PROVE  LateWritersBounded'
    <3>1. approval \notin Editable /\ h \in Writers /\ h \notin Writers'
      BY <1>3, <2>5 DEF Writes
    <3>2. Cardinality(Writers') < Cardinality(Writers)
      BY <1>0, <1>1, <2>1, <3>1
    <3>3. late' <= late + 1 /\ late' \in Nat
      BY <1>0, <2>2
    <3>4. late' + Cardinality(Writers') < Cardinality(Calls)
      BY <1>0, <2>1, <3>1, <3>2, <3>3
    <3> QED
      BY <1>3, <3>4 DEF LateWritersBounded
  <2> QED
    BY <2>3, <2>4, <2>5, StepKinds
<1> QED
  BY <1>2, <1>3

\* Who is about to fund has seen an approval, which is never forgotten.
LEMMA ApprovalKnownStep ==
  SpendingTypeOK /\ ApprovalKnown /\ [SpendingNext]_allVars => ApprovalKnown'
<1> SUFFICES ASSUME SpendingTypeOK, ApprovalKnown, [SpendingNext]_allVars,
                    approval' \in {"APPROVED", "FUNDED"} \/ \E h \in Calls : call'[h].op = "fund"
             PROVE  approved' # {}
  BY DEF ApprovalKnown
<1>1. approved # {} => approved' # {}
  BY StepKinds DEF Quiet, Decides, Writes
<1>2. ASSUME NEW h \in Calls, call'[h].op = "fund"
      PROVE  approved # {}
  <2>1. CASE call'[h] = call[h]
    BY <1>2, <2>1 DEF ApprovalKnown
  <2>2. CASE Begun(h)
    BY <1>2, <2>2 DEF Begun, ApprovalKnown
  <2>3. CASE call'[h] # call[h] /\ ~Begun(h)
    BY <1>2, <2>3, CallChanges DEF Idle, Checked
  <2> QED
    BY <2>1, <2>2, <2>3
<1>3. CASE approval' \in {"APPROVED", "FUNDED"}
  <2>1. CASE Quiet
    BY <1>1, <1>3, <2>1 DEF Quiet, ApprovalKnown
  <2>2. ASSUME NEW h \in Calls, Decides(h)
        PROVE  approved' # {}
    BY <1>1, <1>3, <2>2 DEF Decides, ApprovalKnown
  <2>3. ASSUME NEW h \in Calls, Writes(h)
        PROVE  approved' # {}
    BY <1>1, <1>3, <2>3 DEF Writes, ApprovalKnown
  <2> QED
    BY <2>1, <2>2, <2>3, StepKinds
<1> QED
  BY <1>1, <1>2, <1>3

-----------------------------------------------------------------------------
(* The aggregates *)

\* What the event ever received only grows, and covers what it has.
LEMMA ReceivedGrows ==
  ASSUME SpendingTypeOK, [SpendingNext]_allVars
  PROVE  /\ EverReceived \in Nat /\ EverReceived' \in Nat /\ EverReceived <= EverReceived'
         /\ TotalReceived \in Nat /\ TotalReceived <= EverReceived
<1> DEFINE Ever == {t \in Contributions \ Manual : contribution[t] # "none"}
           Now == {t \in Contributions \ Manual : contribution[t] = "SUCCESS"}
<1>0. /\ contribution \in [Contributions -> {"none", "SUCCESS", "REFUNDED"}]
      /\ IsFiniteSet(Contributions) /\ \A t \in Contributions : Settled[t] \in Nat
  BY ContributionRows DEF SpendingTypeOK, TypeOK
<1>1. \A t \in Contributions : contribution[t] # "none" => contribution'[t] # "none"
  <2>1. CASE contribution' = contribution
    BY <2>1
  <2>2. ASSUME NEW t \in Contributions, ContributionSettles(t) \/ ContributionReversed(t)
        PROVE  \A u \in Contributions : contribution[u] # "none" => contribution'[u] # "none"
    BY <1>0, <2>2 DEF ContributionSettles, ContributionReversed
  <2> QED
    BY <2>1, <2>2, Cases DEF GetStatus, SubmitReads, SubmitCounts, SubmitWrites, DecideReads,
       DecideWrites, FundReads, FundWrites, EditReads, EditWrites, ApplyReads, ApplyChecks,
       ApplyCreates, AllocateReads, AllocateCovers, AllocateCommits, CallBreaks, CreateVendor,
       RemoveVendorReads, RemoveVendorWrites, AssignVendor, UnassignVendor, Pay, PayoutEnds,
       vars, allVars
<1>2. Ever \subseteq Ever' /\ Now \subseteq Ever /\ Ever' \subseteq Contributions
  BY <1>1
<1> HIDE DEF Ever, Now
<1>3. \A S \in SUBSET Contributions : IsFiniteSet(S) /\ Sum(Settled, S) \in Nat
  <2>1. ASSUME NEW S \in SUBSET Contributions PROVE IsFiniteSet(S) /\ Sum(Settled, S) \in Nat
    <3>1. IsFiniteSet(S) /\ \A t \in S : Settled[t] \in Nat
      BY <1>0, FS_Subset
    <3> QED
      BY <3>1, SumType
  <2> QED
    BY <2>1
<1>4. \A S \in SUBSET Contributions : \A T \in SUBSET S : Sum(Settled, T) <= Sum(Settled, S)
  <2>1. ASSUME NEW S \in SUBSET Contributions, NEW T \in SUBSET S
        PROVE  Sum(Settled, T) <= Sum(Settled, S)
    <3>1. IsFiniteSet(S) /\ \A t \in S : Settled[t] \in Nat
      BY <1>0, <1>3
    <3> QED
      BY <3>1, SumMonotone
  <2> QED
    BY <2>1
<1>5. /\ EverReceived = Sum(Settled, Ever) /\ EverReceived' = Sum(Settled, Ever')
      /\ TotalReceived = Sum(Settled, Now)
  BY DEF EverReceived, TotalReceived, Ever, Now
<1> QED
  BY <1>2, <1>3, <1>4, <1>5

\* What is allocated changes by what a category is increased by, or loses the
\* allocation of a category that is removed.
LEMMA AllocatedChanges ==
  ASSUME SpendingTypeOK
  PROVE  /\ TotalAllocated \in Nat
         /\ \A c \in Categories, e \in Nat :
              Created(c, e) \/ Estimated(c, e) => TotalAllocated' = TotalAllocated
         /\ \A c \in Categories : Removed(c) => TotalAllocated' <= TotalAllocated
         /\ \A c \in Categories, n \in Nat : Increased(c, n) => TotalAllocated' = TotalAllocated + n
<1>0. /\ allocated \in [Categories -> Nat] /\ Live \in SUBSET Categories
      /\ \A c \in Categories : c \notin Live => allocated[c] = 0
      /\ exists \in [Categories -> {"none", "live", "removed"}]
      /\ \A S \in SUBSET Categories : IsFiniteSet(S)
  BY CategoriesFinite, FS_Subset DEF SpendingTypeOK, TypeOK, Live
<1>1. \A S \in SUBSET Categories : Sum(allocated, S) \in Nat
  <2>1. ASSUME NEW S \in SUBSET Categories PROVE Sum(allocated, S) \in Nat
    <3>1. IsFiniteSet(S) /\ \A c \in S : allocated[c] \in Nat
      BY <1>0
    <3> QED
      BY <3>1, SumType
  <2> QED
    BY <2>1
<1>2. ASSUME NEW c \in Categories, NEW e \in Nat, Created(c, e)
      PROVE  TotalAllocated' = TotalAllocated
  <2>1. Live' = Live \cup {c} /\ allocated' = allocated
    BY <1>0, <1>2 DEF Created, Live
  <2>2. CASE c \in Live
    BY <2>1, <2>2 DEF TotalAllocated
  <2>3. CASE c \notin Live
    <3>1. \A d \in Live \cup {c} : allocated[d] \in Nat
      BY <1>0
    <3>2. Sum(allocated, Live \cup {c}) = Sum(allocated, Live) + allocated[c]
      BY <1>0, <2>3, <3>1, SumAdd
    <3> QED
      BY <1>0, <1>1, <2>1, <2>3, <3>2 DEF TotalAllocated
  <2> QED
    BY <2>2, <2>3
<1>3. ASSUME NEW c \in Categories, NEW e \in Nat, Estimated(c, e)
      PROVE  TotalAllocated' = TotalAllocated
  BY <1>3 DEF Estimated, TotalAllocated, Live
<1>4. ASSUME NEW c \in Categories, Removed(c)
      PROVE  TotalAllocated' <= TotalAllocated
  <2>1. Live' = Live \ {c} /\ c \in Live /\ \A d \in Live \ {c} : allocated'[d] = allocated[d]
    BY <1>0, <1>4 DEF Removed, Live
  <2>2. Sum(allocated', Live \ {c}) = Sum(allocated, Live \ {c})
    BY <2>1, SumExt
  <2>3. Sum(allocated, Live \ {c}) <= Sum(allocated, Live)
    BY <1>0, SumMonotone
  <2> QED
    BY <2>1, <2>2, <2>3 DEF TotalAllocated
<1>5. ASSUME NEW c \in Categories, NEW n \in Nat, Increased(c, n)
      PROVE  TotalAllocated' = TotalAllocated + n
  <2>1. /\ Live' = Live /\ c \in Live /\ \A d \in Live \ {c} : allocated'[d] = allocated[d]
        /\ allocated'[c] = allocated[c] + n /\ \A d \in Live : allocated'[d] \in Nat
    BY <1>0, <1>5 DEF Increased, Live
  <2>2. Sum(allocated', Live \ {c}) = Sum(allocated, Live \ {c})
    BY <2>1, SumExt
  <2>3. Sum(allocated, Live) = Sum(allocated, Live \ {c}) + allocated[c]
    BY <1>0, <2>1, SumRemove
  <2>4. Sum(allocated', Live) = Sum(allocated', Live \ {c}) + allocated'[c]
    <3>1. IsFiniteSet(Live) /\ c \in Live /\ \A d \in Live : allocated'[d] \in Nat
      BY <1>0, <2>1
    <3>2. PICK a : a = allocated'
      OBVIOUS
    <3>3. Sum(a, Live) = Sum(a, Live \ {c}) + a[c]
      BY <3>1, <3>2, SumRemove
    <3> QED
      BY <3>2, <3>3
  <2>5. Sum(allocated, Live \ {c}) \in Nat /\ allocated[c] \in Nat
    BY <1>0, <1>1
  <2>6. TotalAllocated' = Sum(allocated', Live) /\ TotalAllocated = Sum(allocated, Live)
    BY <2>1 DEF TotalAllocated
  <2> QED
    BY <2>1, <2>2, <2>3, <2>4, <2>5, <2>6
<1>6. TotalAllocated \in Nat
  BY <1>0, <1>1 DEF TotalAllocated
<1> QED
  BY <1>2, <1>3, <1>4, <1>5, <1>6

\* An allocation stays, grows, or is gone with its category.
LEMMA AllocationFates ==
  ASSUME SpendingTypeOK, [SpendingNext]_allVars
  PROVE  \/ allocated' = allocated /\ \A c \in Categories : exists[c] = "live" => exists'[c] = "live"
         \/ BudgetMoves /\ \E c \in Categories, n \in Nat \ {0} : Increased(c, n)
         \/ BudgetMoves /\ \E c \in Categories : Removed(c)
<1> DEFINE Kept == allocated' = allocated /\ \A c \in Categories : exists[c] = "live" => exists'[c] = "live"
<1>1. ASSUME UNCHANGED budgetVars
      PROVE  Kept
  BY <1>1 DEF budgetVars
<1>2. ASSUME NEW h \in Calls, Writes(h), BudgetMoves
      PROVE  \/ Kept
             \/ \E c \in Categories, n \in Nat \ {0} : Increased(c, n)
             \/ \E c \in Categories : Removed(c)
  <2>1. ASSUME NEW c \in Categories, NEW e \in Nat, Created(c, e) \/ Estimated(c, e)
        PROVE  Kept
    BY <2>1 DEF Created, Estimated, SpendingTypeOK, TypeOK
  <2>2. call[h].op = "allocate" => call[h].amount \in Nat \ {0}
    BY RequestFields, Bounds
  <2> HIDE DEF Kept
  <2> QED
    BY <1>2, <2>1, <2>2 DEF Writes
<1>3. Quiet \/ (\E h \in Calls : Decides(h)) => UNCHANGED budgetVars
  BY DEF Quiet, Decides
<1> QED
  <2> HIDE DEF Kept
  <2>1. \/ Kept
        \/ BudgetMoves /\ \E c \in Categories, n \in Nat \ {0} : Increased(c, n)
        \/ BudgetMoves /\ \E c \in Categories : Removed(c)
    BY <1>1, <1>2, <1>3, StepKinds
  <2> QED
    BY <2>1 DEF Kept

\* The payouts of a category that is removed are of no category, the others stay.
LEMMA RemovalDetaches ==
  ASSUME SpendingTypeOK, BudgetMoves, NEW c \in Categories, Removed(c), NEW p \in Payouts
  PROVE  /\ payout'[p].category = IF payout[p].category = c THEN Nobody ELSE payout[p].category
         /\ payout'[p].status = payout[p].status /\ payout'[p].amount = payout[p].amount
<1>0. payout[p] \in Payout /\ exists \in [Categories -> {"none", "live", "removed"}]
  BY DEF SpendingTypeOK, TypeOK, Payout
<1>1. /\ c \in Live /\ exists'[c] # "live"
      /\ \A d \in Categories : d # c => exists'[d] = exists[d]
  BY <1>0 DEF Removed, Live
<1>2. CASE payout[p].category = c
  <2>1. payout'[p] = [payout[p] EXCEPT !.category = Nobody]
    BY <1>1, <1>2 DEF BudgetMoves
  <2> QED
    BY <1>0, <1>2, <2>1 DEF Payout
<1>3. CASE payout[p].category # c
  <2>1. payout[p].category \in Live => exists'[payout[p].category] = "live"
    BY <1>1, <1>3 DEF Live
  <2>2. payout'[p] = payout[p]
    BY <2>1 DEF BudgetMoves
  <2> QED
    BY <1>3, <2>2
<1> QED
  BY <1>2, <1>3

\* What becomes of a payout: it is reserved, or ends, or loses a row that is deleted.
LEMMA PayoutFates ==
  ASSUME SpendingTypeOK, [SpendingNext]_allVars, NEW p \in Payouts
  PROVE  \/ \E c \in Categories : Pay(p, c)
         \/ /\ payout'[p].amount = payout[p].amount
            /\ \/ payout'[p].status = payout[p].status
               \/ payout[p].status = "PENDING" /\ payout'[p].status \in {"SUCCESS", "FAILED"}
            /\ \/ payout'[p].vendor = payout[p].vendor
               \/ /\ payout'[p].vendor = Nobody
                  /\ \E h \in Calls : call[h].op = "delete" /\ call[h].vendor = payout[p].vendor
            /\ \/ payout'[p].category = payout[p].category
               \/ /\ payout'[p].category = Nobody
                  /\ exists[payout[p].category] = "live" /\ exists'[payout[p].category] # "live"
<1> DEFINE Paid == \E c \in Categories : Pay(p, c)
           Fate ==
            /\ payout'[p].amount = payout[p].amount
            /\ \/ payout'[p].status = payout[p].status
               \/ payout[p].status = "PENDING" /\ payout'[p].status \in {"SUCCESS", "FAILED"}
            /\ \/ payout'[p].vendor = payout[p].vendor
               \/ /\ payout'[p].vendor = Nobody
                  /\ \E h \in Calls : call[h].op = "delete" /\ call[h].vendor = payout[p].vendor
            /\ \/ payout'[p].category = payout[p].category
               \/ /\ payout'[p].category = Nobody
                  /\ exists[payout[p].category] = "live" /\ exists'[payout[p].category] # "live"
<1>0. payout \in [Payouts -> Payout] /\ payout[p] \in Payout
  BY DEF SpendingTypeOK, Payout
<1>1. ASSUME payout'[p] = payout[p]
      PROVE  Fate
  BY <1>1
<1>2. ASSUME BudgetMoves
      PROVE  Fate
  <2>1. CASE payout[p].category \in Live /\ exists'[payout[p].category] # "live"
    <3>1. payout'[p] = [payout[p] EXCEPT !.category = Nobody]
      BY <1>2, <2>1 DEF BudgetMoves
    <3>2. exists[payout[p].category] = "live"
      BY <2>1 DEF Live
    <3> QED
      BY <1>0, <2>1, <3>1, <3>2 DEF Payout
  <2>2. CASE ~(payout[p].category \in Live /\ exists'[payout[p].category] # "live")
    <3>1. payout'[p] = payout[p]
      BY <1>2, <2>2 DEF BudgetMoves
    <3> QED
      BY <1>1, <3>1
  <2> QED
    BY <2>1, <2>2
<1>3. ASSUME NEW h \in Calls, RemoveVendorWrites(h)
      PROVE  Fate
  <2>1. CASE payout[p].vendor = call[h].vendor
    <3>1. payout'[p] = [payout[p] EXCEPT !.vendor = Nobody] /\ call[h].op = "delete"
      BY <1>3, <2>1 DEF RemoveVendorWrites
    <3> QED
      BY <1>0, <2>1, <3>1 DEF Payout
  <2>2. CASE payout[p].vendor # call[h].vendor
    <3>1. payout'[p] = payout[p]
      BY <1>3, <2>2 DEF RemoveVendorWrites
    <3> QED
      BY <1>1, <3>1
  <2> QED
    BY <2>1, <2>2
<1>4. ASSUME NEW q \in Payouts, PayoutEnds(q)
      PROVE  Fate
  <2>1. PICK o \in {"SUCCESS", "FAILED"} : payout' = [payout EXCEPT ![q].status = o]
    BY <1>4 DEF PayoutEnds
  <2>2. CASE q = p
    <3>1. payout'[p] = [payout[p] EXCEPT !.status = o] /\ payout[p].status = "PENDING"
      BY <1>0, <1>4, <2>1, <2>2 DEF PayoutEnds
    <3> QED
      BY <1>0, <3>1 DEF Payout
  <2>3. CASE q # p
    <3>1. payout'[p] = payout[p]
      BY <1>0, <2>1, <2>3
    <3> QED
      BY <1>1, <3>1
  <2> QED
    BY <2>2, <2>3
<1>5. ASSUME NEW c \in Categories, NEW q \in Payouts, Pay(q, c)
      PROVE  Paid \/ Fate
  <2>1. CASE q = p
    BY <1>5, <2>1
  <2>2. CASE q # p
    <3>1. payout'[p] = payout[p]
      BY <1>0, <1>5, <2>2 DEF Pay
    <3> QED
      BY <1>1, <3>1
  <2> QED
    BY <2>1, <2>2
<1>6. Paid \/ Fate
  <2> HIDE DEF Paid, Fate
  <2> QED
    BY <1>1, <1>2, <1>3, <1>4, <1>5, Cases DEF CreateVendor, RemoveVendorReads, AssignVendor,
       UnassignVendor, spendingVars, allVars
<1> QED
  BY <1>6

-----------------------------------------------------------------------------
(* While requests do not overlap *)

\* A request begins alone, or the overlap is noted; so is a payout beside a request.
LEMMA Alone ==
  ASSUME SpendingTypeOK, OneAtWork, [SpendingNext]_allVars, ~overlapped'
  PROVE  /\ ~overlapped
         /\ \A g, h \in Calls : call[g].op # "idle" /\ call[h].op # "idle" => g = h
         /\ \A h \in Calls : Begun(h) => \A g \in Calls : call[g].op = "idle"
         /\ \A p \in Payouts, c \in Categories : Pay(p, c) => \A g \in Calls : call[g].op = "idle"
<1>1. overlapped => overlapped'
  BY Cases DEF BudgetMoves, GetStatus, SubmitReads, SubmitCounts, SubmitWrites, DecideReads,
     DecideWrites, FundReads, FundWrites, EditReads, EditWrites, ApplyReads, ApplyChecks,
     ApplyCreates, AllocateReads, AllocateCovers, AllocateCommits, CallBreaks, Begins, Ends,
     ContributionSettles, ContributionReversed, CreateVendor, RemoveVendorReads,
     RemoveVendorWrites, AssignVendor, UnassignVendor, Pay, PayoutEnds, vars, allVars
<1>2. \A g \in Calls : call[g] = Idle => call[g].op = "idle"
  BY DEF Idle
<1>3. \A h \in Calls : Begun(h) => \A g \in Calls : call[g].op = "idle"
  BY <1>2 DEF Begun
<1>4. \A p \in Payouts, c \in Categories : Pay(p, c) => \A g \in Calls : call[g].op = "idle"
  BY <1>2 DEF Pay
<1> QED
  BY <1>1, <1>3, <1>4 DEF OneAtWork

\* There is still one request at work at most.
LEMMA OneAtWorkStep == SpendingTypeOK /\ OneAtWork /\ [SpendingNext]_allVars => OneAtWork'
<1> SUFFICES ASSUME SpendingTypeOK, OneAtWork, [SpendingNext]_allVars, ~overlapped',
                    NEW g \in Calls, NEW h \in Calls, g # h,
                    call'[g].op # "idle", call'[h].op # "idle"
             PROVE  FALSE
  BY DEF OneAtWork
<1>1. ASSUME NEW k \in Calls, NEW l \in Calls, k # l, Begun(k)
      PROVE  call'[l].op = "idle"
  BY <1>1, Alone DEF Begun
<1>2. ~Begun(g) /\ ~Begun(h)
  BY <1>1
<1>3. ASSUME NEW k \in Calls, call'[k].op # "idle", ~Begun(k)
      PROVE  call[k].op # "idle"
  <2>1. CASE call'[k] = call[k]
    BY <1>3, <2>1
  <2>2. CASE Checked(k)
    BY <2>2 DEF Checked
  <2> QED
    BY <1>3, <2>1, <2>2, CallChanges DEF Idle
<1> QED
  BY <1>2, <1>3, Alone

\* What a request has read still holds, as nothing else is at work.
LEMMA ReadsHoldStep ==
  SpendingTypeOK /\ OneAtWork /\ ReadsHold /\ [SpendingNext]_allVars => ReadsHold'
<1> DEFINE Holds(h) ==
      /\ call[h].op = "submit" => approval \in Editable
      /\ call[h].op = "submit" /\ call[h].at = "counted" => TotalAllocated > 0
      /\ call[h].op \in {"approve", "decline"} => approval = "SUBMITTED"
      /\ call[h].op = "fund" => approval = "APPROVED"
      /\ h \in Writers => approval \in Editable
      /\ call[h].op = "allocate" /\ call[h].at = "covered" =>
           TotalAllocated + call[h].amount <= EverReceived
      /\ call[h].op = "delete" => InFlight(call[h].vendor) = {}
<1> SUFFICES ASSUME SpendingTypeOK, OneAtWork, ReadsHold, [SpendingNext]_allVars, ~overlapped',
                    NEW h \in Calls
             PROVE  Holds(h)'
  BY DEF ReadsHold
<1>0. /\ Holds(h) /\ TotalAllocated \in Nat
      /\ EverReceived \in Nat /\ EverReceived' \in Nat /\ EverReceived <= EverReceived'
      /\ TotalReceived \in Nat /\ TotalReceived <= EverReceived
      /\ call[h].op = "allocate" => call[h].amount \in Nat
      /\ call[h].op = "delete" => call[h].vendor \in Vendors
      /\ (h \in Writers)' <=>
           \/ call'[h].op \in {"create", "update", "remove", "allocate"}
           \/ call'[h].op = "apply" /\ call'[h].at = "checked"
      /\ h \in Writers <=>
           \/ call[h].op \in {"create", "update", "remove", "allocate"}
           \/ call[h].op = "apply" /\ call[h].at = "checked"
  <2>1. Holds(h)
    BY Alone DEF ReadsHold
  <2>2. call[h].op = "allocate" => call[h].amount \in Nat
    BY RequestFields, Bounds
  <2> QED
    BY <2>1, <2>2, ReceivedGrows, AllocatedChanges, RequestFields DEF Writers
<1>1. UNCHANGED budgetVars => TotalAllocated' = TotalAllocated
  BY DEF TotalAllocated, Live, budgetVars
<1>2. CASE call'[h].op = "idle"
  BY <1>0, <1>2
<1>3. CASE call'[h] = call[h] /\ call'[h].op # "idle"
  <2>1. ASSUME call[h].op = "delete" PROVE InFlight(call[h].vendor)' = {}
    <3>1. \A p \in Payouts, c \in Categories : ~Pay(p, c)
      BY <1>3, Alone
    <3>2. \A p \in Payouts : p \notin InFlight(call[h].vendor)
      BY <1>0, <2>1
    <3>3. ASSUME NEW p \in Payouts, payout'[p].vendor = call[h].vendor, payout'[p].status = "PENDING"
          PROVE  FALSE
      <4>1. payout[p].status = "PENDING" /\ payout[p].vendor = call[h].vendor
        BY <1>0, <2>1, <3>1, <3>3, PayoutFates, VendorsFinite
      <4> QED
        BY <3>2, <4>1 DEF InFlight
    <3> QED
      BY <1>3, <3>3 DEF InFlight
  <2>2. CASE Quiet
    <3>1. TotalAllocated' = TotalAllocated
      BY <1>1, <2>2 DEF Quiet
    <3>2. \/ approval' = approval
          \/ approval = "none" /\ approval' = "DRAFT"
      BY <2>2 DEF Quiet
    <3>3. approval \in Editable => approval' \in Editable
      BY <3>2 DEF Editable
    <3> QED
      BY <1>0, <1>3, <2>1, <3>1, <3>2, <3>3
  <2>3. ASSUME NEW g \in Calls, Decides(g)
        PROVE  FALSE
    <3>1. call[g].op # "idle" /\ call'[g] = Idle
      BY <2>3 DEF Decides, Ends, SpendingTypeOK, TypeOK
    <3>2. g = h
      BY <1>3, <3>1, Alone
    <3> QED
      BY <1>3, <3>1, <3>2 DEF Idle
  <2>4. ASSUME NEW g \in Calls, Writes(g)
        PROVE  FALSE
    <3>1. call[g].op # "idle" /\ (g \in Writers) /\ ~(g \in Writers)'
      BY <2>4 DEF Writes, Writers
    <3>2. g = h
      BY <1>3, <3>1, Alone
    <3> QED
      BY <1>0, <1>3, <3>1, <3>2
  <2> QED
    BY <2>2, <2>3, <2>4, StepKinds
<1>4. CASE call[h].op = "apply" /\ call'[h].op = "apply" /\ call'[h].at = "next"
  BY <1>0, <1>4
<1>5. CASE Begun(h)
  <2>1. call'[h].op = "delete" => InFlight(call[h].vendor)' = {}
    BY <1>5 DEF Begun, InFlight
  <2> QED
    BY <1>0, <1>5, <2>1 DEF Begun
<1>6. CASE Checked(h)
  <2>1. TotalAllocated' = TotalAllocated
    BY <1>1, <1>6 DEF Checked
  <2>2. CASE call[h].op = "submit" /\ call'[h].op = "submit" /\ TotalAllocated > 0
    BY <1>0, <1>6, <2>1, <2>2 DEF Checked
  <2>3. CASE call[h].op = "apply" /\ call'[h].op = "apply" /\ approval \in Editable
    BY <1>0, <1>6, <2>3 DEF Checked
  <2>4. CASE /\ call[h].op = "allocate" /\ call'[h].op = "allocate"
             /\ call'[h].amount = call[h].amount /\ call[h].amount <= Remaining
    <3>1. TotalAllocated' + call'[h].amount <= EverReceived'
      BY <1>0, <2>1, <2>4 DEF Remaining
    <3> QED
      BY <1>0, <1>6, <2>4, <3>1 DEF Checked
  <2> QED
    BY <1>6, <2>2, <2>3, <2>4 DEF Checked
<1> QED
  BY <1>2, <1>3, <1>4, <1>5, <1>6, CallChanges DEF Idle

\* What is allocated is an amount after the step, too.
LEMMA TotalAllocatedTyped ==
  ASSUME SpendingTypeOK, [SpendingNext]_allVars
  PROVE  TotalAllocated' \in Nat
<1>1. PICK a, L : a = allocated' /\ L = Live'
  OBVIOUS
<1>2. IsFiniteSet(L) /\ \A c \in L : a[c] \in Nat
  BY <1>1, BudgetTyped, CategoriesFinite, FS_Subset DEF Live
<1>3. Sum(a, L) \in Nat
  BY <1>2, SumType
<1> QED
  BY <1>1, <1>3 DEF TotalAllocated

\* No request that may change the budget is at work once it is submitted.
LEMMA NoLateWrites ==
  ASSUME SpendingTypeOK, OneAtWork, ReadsHold, [SpendingNext]_allVars, ~overlapped',
         NEW h \in Calls, Writes(h)
  PROVE  approval \in Editable /\ approval' \in Editable
BY Alone DEF ReadsHold, Writes

\* Only what was received is allocated.
LEMMA CoveredStep ==
  /\ SpendingTypeOK /\ OneAtWork /\ ReadsHold /\ SerialAllocationsCovered
  /\ [SpendingNext]_allVars
  => SerialAllocationsCovered'
<1> SUFFICES ASSUME SpendingTypeOK, OneAtWork, ReadsHold, SerialAllocationsCovered,
                    [SpendingNext]_allVars, ~overlapped'
             PROVE  TotalAllocated' <= EverReceived'
  BY DEF SerialAllocationsCovered
<1>1. /\ TotalAllocated \in Nat /\ TotalAllocated <= EverReceived
      /\ EverReceived \in Nat /\ EverReceived' \in Nat /\ EverReceived <= EverReceived'
  BY Alone, AllocatedChanges, ReceivedGrows DEF SerialAllocationsCovered
<1>2. CASE UNCHANGED budgetVars
  <2>1. TotalAllocated' = TotalAllocated
    BY <1>2 DEF TotalAllocated, Live, budgetVars
  <2> QED
    BY <1>1, <2>1
<1>3. ASSUME NEW h \in Calls, Writes(h)
      PROVE  TotalAllocated' <= EverReceived'
  <2>1. CASE \E c \in Categories, e \in Nat : Created(c, e) \/ Estimated(c, e)
    <3>1. TotalAllocated' = TotalAllocated
      BY <2>1, AllocatedChanges
    <3> QED
      BY <1>1, <3>1
  <2>2. CASE \E c \in Categories : Removed(c)
    <3>1. PICK c \in Categories : Removed(c)
      BY <2>2
    <3>2. TotalAllocated' <= TotalAllocated
      BY <3>1, AllocatedChanges
    <3>3. TotalAllocated' \in Nat
      BY TotalAllocatedTyped
    <3> QED
      BY <1>1, <3>2, <3>3
  <2>3. CASE /\ call[h].op = "allocate" /\ call[h].at = "covered"
             /\ \E c \in Categories : Increased(c, call[h].amount)
    <3>1. PICK c \in Categories : Increased(c, call[h].amount)
      BY <2>3
    <3>2. call[h].amount \in Nat
      BY <2>3, RequestFields, Bounds
    <3>3. TotalAllocated' = TotalAllocated + call[h].amount
      BY <3>1, <3>2, AllocatedChanges
    <3>4. TotalAllocated + call[h].amount <= EverReceived
      BY <2>3, Alone DEF ReadsHold
    <3> QED
      BY <1>1, <3>2, <3>3, <3>4
  <2> QED
    BY <1>3, <2>1, <2>2, <2>3 DEF Writes
<1> QED
  BY <1>2, <1>3, StepKinds DEF Quiet, Decides

\* A budget that was submitted has money in it.
LEMMA MoneyStep ==
  /\ SpendingTypeOK /\ OneAtWork /\ ReadsHold /\ SubmittedHasMoney
  /\ [SpendingNext]_allVars
  => SubmittedHasMoney'
<1> SUFFICES ASSUME SpendingTypeOK, OneAtWork, ReadsHold, SubmittedHasMoney,
                    [SpendingNext]_allVars, ~overlapped',
                    approval' \in {"SUBMITTED", "APPROVED", "FUNDED"}
             PROVE  TotalAllocated' > 0
  BY DEF SubmittedHasMoney
<1>1. UNCHANGED budgetVars => TotalAllocated' = TotalAllocated
  BY DEF TotalAllocated, Live, budgetVars
<1>2. CASE Quiet
  BY <1>1, <1>2, Alone DEF Quiet, SubmittedHasMoney
<1>3. ASSUME NEW h \in Calls, Decides(h)
      PROVE  TotalAllocated' > 0
  <2>1. TotalAllocated' = TotalAllocated
    BY <1>1, <1>3 DEF Decides
  <2>2. /\ call[h].op = "submit" /\ call[h].at = "counted" => TotalAllocated > 0
        /\ call[h].op \in {"approve", "decline"} => approval = "SUBMITTED"
        /\ call[h].op = "fund" => approval = "APPROVED"
    BY Alone DEF ReadsHold
  <2>3. TotalAllocated > 0
    BY <1>3, <2>2, Alone DEF Decides, SubmittedHasMoney
  <2> QED
    BY <2>1, <2>3
<1>4. ASSUME NEW h \in Calls, Writes(h)
      PROVE  FALSE
  BY <1>4, NoLateWrites DEF Editable
<1> QED
  BY <1>2, <1>3, <1>4, StepKinds

\* The numbers that were approved stand.
LEMMA ApprovalStandsStep ==
  /\ SpendingTypeOK /\ OneAtWork /\ ReadsHold /\ SubmittedHasMoney /\ SerialApprovalStands
  /\ [SpendingNext]_allVars
  => SerialApprovalStands'
<1> SUFFICES ASSUME SpendingTypeOK, OneAtWork, ReadsHold, SubmittedHasMoney,
                    SerialApprovalStands, [SpendingNext]_allVars, ~overlapped',
                    approval' \in {"APPROVED", "FUNDED"}
             PROVE  approved' = {Numbers'} /\ TotalAllocated' > 0
  BY DEF SerialApprovalStands
<1>1. UNCHANGED budgetVars => Numbers' = Numbers
  BY DEF Numbers, Live, budgetVars
<1>2. TotalAllocated' > 0
  BY MoneyStep DEF SubmittedHasMoney
<1>3. CASE Quiet
  BY <1>1, <1>2, <1>3, Alone DEF Quiet, SerialApprovalStands
<1>4. ASSUME NEW h \in Calls, Decides(h)
      PROVE  approved' = {Numbers'}
  <2>1. call[h].op = "fund" => approval = "APPROVED"
    BY Alone DEF ReadsHold
  <2>2. Numbers' = Numbers
    BY <1>1, <1>4 DEF Decides
  <2> QED
    BY <1>4, <2>1, <2>2, Alone DEF Decides, SerialApprovalStands
<1>5. ASSUME NEW h \in Calls, Writes(h)
      PROVE  FALSE
  BY <1>5, NoLateWrites DEF Editable
<1> QED
  BY <1>2, <1>3, <1>4, <1>5, StepKinds

\* A funded budget stays funded.
LEMMA StaysFunded ==
  ASSUME SpendingTypeOK, OneAtWork, ReadsHold, [SpendingNext]_allVars, ~overlapped',
         approval = "FUNDED"
  PROVE  approval' = "FUNDED" /\ UNCHANGED budgetVars
<1>1. \A h \in Calls : ~Decides(h)
  BY Alone DEF ReadsHold, Decides, Editable
<1>2. \A h \in Calls : ~Writes(h)
  BY NoLateWrites DEF Editable
<1> QED
  BY <1>1, <1>2, StepKinds DEF Quiet

\* Payouts are of a funded budget.
LEMMA PaidFromFundedStep ==
  /\ SpendingTypeOK /\ OneAtWork /\ ReadsHold /\ PaidFromFunded
  /\ [SpendingNext]_allVars
  => PaidFromFunded'
<1> SUFFICES ASSUME SpendingTypeOK, OneAtWork, ReadsHold, PaidFromFunded,
                    [SpendingNext]_allVars, ~overlapped',
                    NEW p \in Payouts, payout'[p].status # "none"
             PROVE  approval' = "FUNDED"
  BY DEF PaidFromFunded
<1>1. CASE \E c \in Categories : Pay(p, c)
  BY <1>1 DEF Pay
<1>2. CASE \A c \in Categories : ~Pay(p, c)
  <2>1. payout[p].status # "none"
    BY <1>2, PayoutFates
  <2>2. approval = "FUNDED"
    BY <2>1, Alone DEF PaidFromFunded
  <2> QED
    BY <2>2, StaysFunded
<1> QED
  BY <1>1, <1>2

\* What is spoken for is an amount after the step, too.
LEMMA SpokenForTyped ==
  ASSUME SpendingTypeOK, [SpendingNext]_allVars, NEW c
  PROVE  SpokenFor(c)' \in Nat
<1>1. PICK A, S : A = Amounts' /\ S = {p \in Payouts : payout'[p].category = c
                                        /\ payout'[p].status \in {"PENDING", "SUCCESS"}}
  OBVIOUS
<1>2. \A p \in Payouts : A[p] \in Nat
  BY <1>1, PayoutsTyped DEF Amounts, Payout
<1>3. IsFiniteSet(S) /\ S \subseteq Payouts
  <2>1. S \in SUBSET Payouts
    BY <1>1
  <2> QED
    BY <2>1, VendorsFinite, FS_Subset
<1>4. Sum(A, S) \in Nat
  BY <1>2, <1>3, SumType
<1> QED
  BY <1>1, <1>4 DEF SpokenFor

\* The payouts a category has spoken for.
Spoken(c) == {p \in Payouts : payout[p].category = c /\ payout[p].status \in {"PENDING", "SUCCESS"}}

\* A step that reserves nothing for a category leaves it with less spoken for, or as much.
LEMMA SpokenForShrinks ==
  ASSUME SpendingTypeOK, [SpendingNext]_allVars, NEW c \in Categories,
         \A p \in Payouts : ~Pay(p, c)
  PROVE  SpokenFor(c)' <= SpokenFor(c)
<1>1. PICK A, B, S, T : A = Amounts /\ B = Amounts' /\ S = Spoken(c) /\ T = Spoken(c)'
  OBVIOUS
<1>2. ASSUME NEW p \in T
      PROVE  p \in S /\ B[p] = A[p]
  <2>1. p \in Payouts /\ payout'[p].category = c /\ payout'[p].status \in {"PENDING", "SUCCESS"}
    BY <1>1, <1>2 DEF Spoken
  <2>2. ~(\E d \in Categories : Pay(p, d))
    BY <2>1 DEF Pay, SpendingTypeOK
  <2>3. c # Nobody
    BY VendorsFinite
  <2>4. /\ payout'[p].amount = payout[p].amount /\ payout[p].category = c
        /\ payout[p].status \in {"PENDING", "SUCCESS"}
    BY <2>1, <2>2, <2>3, PayoutFates
  <2> QED
    BY <1>1, <2>1, <2>4 DEF Spoken, Amounts
<1>3. IsFiniteSet(S) /\ \A p \in S : A[p] \in Nat
  <2>1. S \in SUBSET Payouts
    BY <1>1 DEF Spoken
  <2> QED
    BY <1>1, <2>1, SpokenForType, VendorsFinite, FS_Subset
<1>4. Sum(B, T) = Sum(A, T)
  BY <1>2, SumExt
<1>5. Sum(A, T) <= Sum(A, S)
  BY <1>2, <1>3, SumMonotone
<1>6. SpokenFor(c) = Sum(A, S) /\ SpokenFor(c)' = Sum(B, T)
  BY <1>1 DEF SpokenFor, Spoken
<1> QED
  BY <1>4, <1>5, <1>6

\* A payout brings what its category has spoken for to what it was allocated.
LEMMA PaySpeaks ==
  ASSUME SpendingTypeOK, NEW p \in Payouts, NEW c \in Categories, Pay(p, c)
  PROVE  SpokenFor(c)' = allocated[c]
<1>1. PICK A, B, S, T : A = Amounts /\ B = Amounts' /\ S = Spoken(c) /\ T = Spoken(c)'
  OBVIOUS
<1> DEFINE row == [status |-> "PENDING", category |-> c, vendor |-> assigned[c], amount |-> ToPay(c)]
<1>2. payout'[p] = row /\ \A q \in Payouts : q # p => payout'[q] = payout[q]
  BY DEF Pay, SpendingTypeOK
<1>3. p \notin S /\ T = S \cup {p} /\ IsFiniteSet(S)
  <2>1. S \in SUBSET Payouts /\ p \notin S
    BY <1>1 DEF Spoken, Pay
  <2>2. row.category = c /\ row.status = "PENDING"
    OBVIOUS
  <2> HIDE DEF row
  <2>3. T = S \cup {p}
    BY <1>1, <1>2, <2>2 DEF Spoken
  <2> QED
    BY <2>1, <2>3, VendorsFinite, FS_Subset
<1>4. /\ \A q \in S : B[q] = A[q] /\ A[q] \in Nat
      /\ B[p] = ToPay(c)
  <2>1. row.amount = ToPay(c)
    OBVIOUS
  <2> HIDE DEF row
  <2>2. S \in SUBSET Payouts /\ p \notin S
    BY <1>1, <1>3 DEF Spoken
  <2> QED
    BY <1>1, <1>2, <2>1, <2>2, SpokenForType DEF Amounts
<1>5. ToPay(c) \in Nat /\ ToPay(c) = allocated[c] - SpokenFor(c) /\ SpokenFor(c) \in Nat
      /\ allocated[c] \in Nat
  BY SpokenForType DEF Pay, ToPay, SpendingTypeOK, TypeOK
<1>6. Sum(B, S \cup {p}) = Sum(B, S) + B[p]
  <2>1. \A q \in S \cup {p} : B[q] \in Nat
    BY <1>4, <1>5
  <2> QED
    BY <1>3, <2>1, SumAdd
<1>7. Sum(B, S) = Sum(A, S)
  BY <1>4, SumExt
<1>8. SpokenFor(c) = Sum(A, S) /\ SpokenFor(c)' = Sum(B, T)
  BY <1>1 DEF SpokenFor, Spoken
<1> QED
  BY <1>3, <1>4, <1>5, <1>6, <1>7, <1>8

\* A category's payouts never exceed what it is allocated: an allocation does not
\* shrink, and a category that is removed keeps no payouts.
LEMMA WithinAllocationStep ==
  SpendingTypeOK /\ PaidWithinAllocation /\ [SpendingNext]_allVars => PaidWithinAllocation'
<1> SUFFICES ASSUME SpendingTypeOK, PaidWithinAllocation, [SpendingNext]_allVars,
                    NEW c \in Categories
             PROVE  SpokenFor(c)' <= allocated'[c]
  BY DEF PaidWithinAllocation
<1>1. /\ SpokenFor(c) \in Nat /\ allocated[c] \in Nat /\ SpokenFor(c) <= allocated[c]
      /\ allocated'[c] \in Nat /\ SpokenFor(c)' \in Nat
  BY SpokenForType, SpokenForTyped, BudgetTyped DEF PaidWithinAllocation, SpendingTypeOK, TypeOK
<1>2. CASE \E p \in Payouts : Pay(p, c)
  <2>1. PICK p \in Payouts : Pay(p, c)
    BY <1>2
  <2>2. allocated' = allocated
    BY <2>1 DEF Pay, budgetVars
  <2> QED
    BY <1>1, <2>1, <2>2, PaySpeaks
<1>3. CASE \A p \in Payouts : ~Pay(p, c)
  <2>1. SpokenFor(c)' <= SpokenFor(c)
    BY <1>3, SpokenForShrinks
  <2>2. CASE allocated' = allocated
    BY <1>1, <2>1, <2>2
  <2>3. ASSUME NEW d \in Categories, NEW n \in Nat, Increased(d, n)
        PROVE  allocated'[c] >= allocated[c]
    BY <2>3, <1>1 DEF Increased, SpendingTypeOK, TypeOK
  <2>4. ASSUME BudgetMoves, NEW d \in Categories, Removed(d)
        PROVE  SpokenFor(c)' <= allocated'[c]
    <3>1. CASE d = c
      <4>1. \A p \in Payouts : payout'[p].category # c
        BY <2>4, <3>1, RemovalDetaches, VendorsFinite
      <4>2. SpokenFor(c)' = Sum(Amounts', {})
        BY <4>1 DEF SpokenFor
      <4> QED
        BY <1>1, <4>2, SumEmpty
    <3>2. CASE d # c
      <4>1. allocated'[c] = allocated[c]
        BY <2>4, <3>2 DEF Removed, SpendingTypeOK, TypeOK
      <4> QED
        BY <1>1, <2>1, <4>1
    <3> QED
      BY <3>1, <3>2
  <2> QED
    BY <1>1, <2>1, <2>2, <2>3, <2>4, AllocationFates
<1> QED
  BY <1>2, <1>3

\* A payout in flight keeps its vendor and its category.
LEMMA KeepsRowsStep ==
  /\ SpendingTypeOK /\ OneAtWork /\ ReadsHold /\ PaidFromFunded /\ SerialPayoutKeepsItsRows
  /\ [SpendingNext]_allVars
  => SerialPayoutKeepsItsRows'
<1> SUFFICES ASSUME SpendingTypeOK, OneAtWork, ReadsHold, PaidFromFunded,
                    SerialPayoutKeepsItsRows, [SpendingNext]_allVars, ~overlapped',
                    NEW p \in Payouts, payout'[p].status = "PENDING"
             PROVE  payout'[p].vendor # Nobody /\ payout'[p].category # Nobody
  BY DEF SerialPayoutKeepsItsRows
<1>1. CASE \E c \in Categories : Pay(p, c)
  <2>1. PICK c \in Categories : Pay(p, c)
    BY <1>1
  <2>2. payout'[p].vendor = assigned[c] /\ payout'[p].category = c
    BY <2>1 DEF Pay, SpendingTypeOK
  <2> QED
    BY <2>1, <2>2, VendorsFinite DEF Pay
<1>2. CASE \A c \in Categories : ~Pay(p, c)
  <2>1. payout[p].status = "PENDING"
    BY <1>2, PayoutFates
  <2>2. payout[p].vendor # Nobody /\ payout[p].category # Nobody /\ approval = "FUNDED"
    BY <2>1, Alone DEF SerialPayoutKeepsItsRows, PaidFromFunded
  <2>3. payout'[p].category = payout[p].category
    <3>1. exists' = exists
      BY <2>2, StaysFunded DEF budgetVars
    <3> QED
      BY <1>2, <3>1, PayoutFates
  <2>4. \A h \in Calls : ~(call[h].op = "delete" /\ call[h].vendor = payout[p].vendor)
    <3>1. \A h \in Calls : call[h].op = "delete" => InFlight(call[h].vendor) = {}
      BY Alone DEF ReadsHold
    <3>2. p \in InFlight(payout[p].vendor)
      BY <2>1 DEF InFlight
    <3> QED
      BY <3>1, <3>2
  <2>5. payout'[p].vendor = payout[p].vendor
    BY <1>2, <2>4, PayoutFates
  <2> QED
    BY <2>2, <2>3, <2>5
<1> QED
  BY <1>1, <1>2

-----------------------------------------------------------------------------
(* The specification *)

\* The event starts without a budget.
LEMMA InitInv == SpendingInit => IInv
<1> SUFFICES ASSUME SpendingInit PROVE IInv
  OBVIOUS
<1>1. /\ Live = {} /\ \A h \in Calls : call[h] = Idle /\ call[h].op = "idle"
      /\ \A p \in Payouts : payout[p] = Unpaid /\ payout[p].status = "none"
      /\ Writers = {} /\ approval = "none" /\ late = 0 /\ approved = {} /\ ~overlapped
  BY DEF SpendingInit, Init, Live, Idle, Unpaid, Writers
<1>2. SpendingTypeOK
  <2>1. TypeOK
    <3>1. call \in [Calls -> Requests]
      BY DEF SpendingInit, Init, Requests
    <3>2. /\ exists \in [Categories -> {"none", "live", "removed"}]
          /\ estimate \in [Categories -> Nat] /\ allocated \in [Categories -> Nat]
          /\ \A c \in Categories : estimate[c] = 0 /\ allocated[c] = 0
          /\ contribution \in [Contributions -> {"none", "SUCCESS", "REFUNDED"}]
      BY DEF SpendingInit, Init
    <3>3. overlapped = FALSE
      BY DEF SpendingInit, Init
    <3> QED
      BY <1>1, <3>1, <3>2, <3>3 DEF TypeOK, ApprovalStatus
  <2>2. /\ payout \in [Payouts -> Payout] /\ \A p \in Payouts : payout[p].vendor = Nobody
        /\ \A p \in Payouts : payout[p].category = Nobody
    <3>1. Unpaid \in Payout /\ Unpaid.vendor = Nobody /\ Unpaid.category = Nobody
      BY DEF Unpaid, Payout
    <3> QED
      BY <1>1, <3>1 DEF SpendingInit
  <2>3. /\ vendors \subseteq Vendors /\ toCome \subseteq Vendors \ vendors
        /\ assigned \in [Categories -> Vendors \cup {Nobody}]
        /\ \A c \in Categories : assigned[c] = Nobody
    BY DEF SpendingInit
  <2> QED
    BY <2>1, <2>2, <2>3 DEF SpendingTypeOK, Payout
<1>3. TotalAllocated = 0
  BY <1>1, SumEmpty DEF TotalAllocated
<1>4. EverReceived \in Nat
  <2>1. {t \in Contributions \ Manual : contribution[t] # "none"} = {}
    BY DEF SpendingInit, Init
  <2> QED
    BY <2>1, SumEmpty DEF EverReceived
<1>5. \A c \in Categories : SpokenFor(c) <= allocated[c]
  <2>1. \A c \in Categories :
          {p \in Payouts : payout[p].category = c /\ payout[p].status \in {"PENDING", "SUCCESS"}} = {}
    BY <1>1
  <2>2. \A c \in Categories : SpokenFor(c) = 0
    BY <2>1, SumEmpty DEF SpokenFor
  <2>3. \A c \in Categories : allocated[c] \in Nat
    BY <1>2 DEF SpendingTypeOK, TypeOK
  <2> QED
    BY <2>2, <2>3
<1>6. ApprovalKnown /\ LateWritersBounded
  BY <1>1 DEF ApprovalKnown, LateWritersBounded, Editable
<1>7. OneAtWork /\ ReadsHold /\ SubmittedHasMoney /\ SerialApprovalStands
  BY <1>1 DEF OneAtWork, ReadsHold, SubmittedHasMoney, SerialApprovalStands
<1>8. SerialAllocationsCovered /\ PaidFromFunded /\ PaidWithinAllocation /\ SerialPayoutKeepsItsRows
  BY <1>1, <1>3, <1>4, <1>5 DEF SerialAllocationsCovered, PaidFromFunded, PaidWithinAllocation,
     SerialPayoutKeepsItsRows
<1> QED
  BY <1>2, <1>6, <1>7, <1>8 DEF IInv

\* The invariant is inductive.
THEOREM Inductive == SpendingSpec => []IInv
<1>1. IInv /\ [SpendingNext]_allVars => IInv'
  BY TypeStep, ApprovalKnownStep, LateStep, OneAtWorkStep, ReadsHoldStep, MoneyStep,
     ApprovalStandsStep, CoveredStep, PaidFromFundedStep, WithinAllocationStep, KeepsRowsStep
     DEF IInv
<1> QED
  BY <1>1, InitInv, PTL DEF SpendingSpec

\* The budget's, the vendors' and the payouts' rows keep their types, and no foreign
\* key leads to a row that is gone.
THEOREM TypeCorrect == SpendingSpec => []SpendingTypeOK
BY Inductive, PTL DEF IInv

\* Whatever submits, decisions and fundings overlap, no budget is funded that was
\* never approved.
THEOREM FundedAfterApproval == SpendingSpec => []FundedWasApproved
<1>1. IInv => FundedWasApproved
  BY DEF IInv, ApprovalKnown, FundedWasApproved
<1> QED
  BY <1>1, Inductive, PTL

\* A locked budget changes at most once for each other request that was at work when
\* it was locked, however many categories, templates and requests there are.
THEOREM LateChanges == SpendingSpec => []LateChangesBounded
<1>1. IInv => LateChangesBounded
  <2> SUFFICES ASSUME IInv PROVE late < Cardinality(Calls)
    BY DEF LateChangesBounded
  <2>1. late \in Nat /\ Cardinality(Calls) \in Nat /\ Cardinality(Calls) # 0
    BY SomeCalls, FS_CardinalityType, FS_EmptySet DEF IInv, SpendingTypeOK, TypeOK
  <2>2. Cardinality(Writers) \in Nat
    BY SomeCalls, FS_Subset, FS_CardinalityType DEF Writers
  <2> QED
    BY <2>1, <2>2 DEF IInv, LateWritersBounded
<1> QED
  BY <1>1, Inductive, PTL

\* allocate() never hands out more than the event received through the gateway, while
\* requests do not overlap.
THEOREM AllocationsCovered == SpendingSpec => []SerialAllocationsCovered
BY Inductive, PTL DEF IInv

\* While requests do not overlap, what is paid out under an approval are the numbers
\* the approver saw.
THEOREM ApprovalStands == SpendingSpec => []SerialApprovalStands
BY Inductive, PTL DEF IInv

\* While requests do not overlap, a category's payouts, with the failed ones that are
\* repeated, stay within what was approved for it.
THEOREM PaidAsApproved == SpendingSpec => []SerialPaidAsApproved
<1>1. IInv => SerialPaidAsApproved
  <2> SUFFICES ASSUME IInv, ~overlapped, NEW c \in Categories, SpokenFor(c) > 0
               PROVE  \E numbers \in approved : c \in DOMAIN numbers /\ SpokenFor(c) <= numbers[c][2]
    BY DEF SerialPaidAsApproved
  <2>1. \E p \in Payouts : payout[p].status # "none"
    <3>1. CASE Spoken(c) = {}
      <4>1. SpokenFor(c) = Sum(Amounts, {})
        BY <3>1 DEF SpokenFor, Spoken
      <4> QED
        BY <4>1, SumEmpty
    <3> QED
      BY <3>1 DEF Spoken
  <2>2. approved = {Numbers} /\ SpokenFor(c) <= allocated[c]
    BY <2>1 DEF IInv, PaidFromFunded, SerialApprovalStands, PaidWithinAllocation
  <2>3. c \in Live
    <3>1. SpokenFor(c) \in Nat /\ allocated[c] \in Nat
      BY SpokenForType DEF IInv, SpendingTypeOK, TypeOK
    <3>2. allocated[c] # 0
      BY <2>2, <3>1
    <3> QED
      BY <3>2 DEF IInv, SpendingTypeOK, TypeOK, Live
  <2>4. c \in DOMAIN Numbers /\ Numbers[c][2] = allocated[c]
    BY <2>3 DEF Numbers
  <2> QED
    BY <2>2, <2>4
<1> QED
  BY <1>1, Inductive, PTL

\* While requests do not overlap, neither the vendor nor the category of a payout in
\* flight is deleted.
THEOREM PayoutKeepsItsRows == SpendingSpec => []SerialPayoutKeepsItsRows
BY Inductive, PTL DEF IInv

-----------------------------------------------------------------------------
(* The promise of PayoutPool *)

\* What the pool sees of the payouts.
PoolOf == [p \in Payouts |-> payout[p].category]
Standing ==
  [none |-> "free", PENDING |-> "held", SUCCESS |-> "paid", FAILED |-> "void"]
StateOf == [p \in Payouts |-> Standing[payout[p].status]]

\* A step that leaves category, status and amount of every row is none of the pool.
LEMMA RowsStay ==
  ASSUME allocated' = allocated,
         \A p \in Payouts : /\ payout'[p].category = payout[p].category
                            /\ payout'[p].status = payout[p].status
                            /\ payout'[p].amount = payout[p].amount
  PROVE  UNCHANGED SpendingPool!poolVars
<1>1. PoolOf' = PoolOf /\ StateOf' = StateOf /\ Amounts' = Amounts
  BY DEF PoolOf, StateOf, Amounts
<1> QED
  BY <1>1 DEF SpendingPool!poolVars, PoolOf, StateOf, Standing

\* A reservation holds what is left of its category.
LEMMA PayHolds ==
  ASSUME SpendingTypeOK, NEW p \in Payouts, NEW c \in Categories, Pay(p, c)
  PROVE  SpendingPool!Hold(p, c)
<1> DEFINE row == [status |-> "PENDING", category |-> c, vendor |-> assigned[c], amount |-> ToPay(c)]
<1>0. payout \in [Payouts -> Payout] /\ payout[p].status = "none" /\ allocated' = allocated
  BY DEF SpendingTypeOK, Payout, Pay, budgetVars
<1>1. /\ payout' = [payout EXCEPT ![p] = row]
      /\ row.status = "PENDING" /\ row.category = c /\ row.amount = ToPay(c)
  BY DEF Pay
<1> HIDE DEF row
<1>2. /\ StateOf[p] = "free" /\ StateOf' = [StateOf EXCEPT ![p] = "held"]
      /\ PoolOf' = [PoolOf EXCEPT ![p] = c]
      /\ Amounts' = [Amounts EXCEPT ![p] = ToPay(c)]
  <2>1. \A q \in Payouts : payout'[q] = IF q = p THEN row ELSE payout[q]
    BY <1>0, <1>1
  <2>2. Standing["none"] = "free" /\ Standing["PENDING"] = "held"
    BY DEF Standing
  <2>3. StateOf[p] = "free" /\ StateOf' = [StateOf EXCEPT ![p] = "held"]
    BY <1>0, <1>1, <2>1, <2>2 DEF StateOf
  <2>4. PoolOf' = [PoolOf EXCEPT ![p] = c]
    <3>1. row.category = c
      BY <1>1
    <3>2. \A q \in Payouts : payout'[q].category = IF q = p THEN c ELSE payout[q].category
      BY <2>1, <3>1
    <3> QED
      BY <3>2 DEF PoolOf
  <2>5. Amounts' = [Amounts EXCEPT ![p] = ToPay(c)]
    <3>1. PICK n : n = ToPay(c)
      OBVIOUS
    <3>2. row.amount = n
      BY <1>1, <3>1
    <3>3. Amounts' = [Amounts EXCEPT ![p] = n]
      BY <2>1, <3>2 DEF Amounts
    <3> QED
      BY <3>1, <3>3
  <2> QED
    BY <2>3, <2>4, <2>5
<1>3. SpendingPool!Committed(c) = Spoken(c)
  <2>1. \A q \in Payouts : StateOf[q] \in {"held", "paid"} <=> payout[q].status \in {"PENDING", "SUCCESS"}
    BY <1>0 DEF StateOf, Standing, Payout
  <2> QED
    BY <2>1 DEF SpendingPool!Committed, Spoken, StateOf, Standing
<1>4. SpendingPool!Sum(Amounts, Spoken(c)) = SpokenFor(c)
  <2>1. SpendingPool!Sum(Amounts, Spoken(c)) = Sum(Amounts, Spoken(c))
    BY DEF SpendingPool!Sum, Sum, SpendingPool!Units, Units, SpendingPool!Cardinality, Cardinality
  <2> QED
    BY <2>1 DEF Spoken, SpokenFor
<1>5. ToPay(c) \in 1 .. allocated[c] /\ SpokenFor(c) + ToPay(c) <= allocated[c]
  <2>1. SpokenFor(c) \in Nat /\ allocated[c] \in Nat /\ ToPay(c) > 0
    BY SpokenForType DEF Pay, SpendingTypeOK, TypeOK
  <2> QED
    BY <2>1 DEF ToPay
<1>6. \E a \in 1 .. allocated[c] :
        /\ SpendingPool!Sum(Amounts, SpendingPool!Committed(c)) + a <= allocated[c]
        /\ Amounts' = [Amounts EXCEPT ![p] = a]
  BY <1>2, <1>3, <1>4, <1>5
<1> QED
  BY <1>0, <1>2, <1>6 DEF SpendingPool!Hold, StateOf, PoolOf, Standing

\* A payout that ends is paid or released.
LEMMA EndsInPool ==
  ASSUME SpendingTypeOK, NEW p \in Payouts, PayoutEnds(p)
  PROVE  SpendingPool!Pay(p) \/ SpendingPool!Release(p)
<1>0. payout \in [Payouts -> Payout] /\ payout[p].status = "PENDING" /\ allocated' = allocated
  BY DEF SpendingTypeOK, Payout, PayoutEnds, budgetVars
<1>1. PICK o \in {"SUCCESS", "FAILED"} : payout' = [payout EXCEPT ![p].status = o]
  BY DEF PayoutEnds
<1>2. payout'[p] = [payout[p] EXCEPT !.status = o] /\ \A q \in Payouts : q # p => payout'[q] = payout[q]
  BY <1>0, <1>1
<1>3. /\ payout'[p].status = o /\ payout'[p].category = payout[p].category
      /\ payout'[p].amount = payout[p].amount
  BY <1>0, <1>2 DEF Payout
<1>4. PoolOf' = PoolOf /\ Amounts' = Amounts
  BY <1>2, <1>3 DEF PoolOf, Amounts
<1>5. StateOf[p] = "held" /\ StateOf' = [StateOf EXCEPT ![p] = Standing[o]]
  <2>1. Standing["PENDING"] = "held"
    BY DEF Standing
  <2>2. payout[p].status = "PENDING"
    BY <1>0
  <2>3. StateOf[p] = "held"
    BY <2>1, <2>2 DEF StateOf
  <2>4. \A q \in Payouts : StateOf'[q] = IF q = p THEN Standing[o] ELSE StateOf[q]
    BY <1>2, <1>3 DEF StateOf
  <2> QED
    BY <2>3, <2>4 DEF StateOf
<1>6. Standing[o] \in {"paid", "void"}
  BY DEF Standing
<1> QED
  BY <1>0, <1>4, <1>5, <1>6 DEF SpendingPool!Pay, SpendingPool!Release, PoolOf, StateOf, Standing

\* A change of the budget lets a pool grow, closes it, or leaves them alone.
LEMMA BudgetInPool ==
  ASSUME SpendingTypeOK, [SpendingNext]_allVars, BudgetMoves
  PROVE  \/ \E c \in Categories : SpendingPool!Grow(c) \/ SpendingPool!Close(c)
         \/ UNCHANGED SpendingPool!poolVars
<1>0. payout \in [Payouts -> Payout] /\ allocated \in [Categories -> Nat]
      /\ exists \in [Categories -> {"none", "live", "removed"}]
  BY DEF SpendingTypeOK, TypeOK, Payout
<1>1. ASSUME \A c \in Categories : exists[c] = "live" => exists'[c] = "live", NEW p \in Payouts
      PROVE  payout'[p] = payout[p]
  BY <1>1 DEF BudgetMoves, Live
<1>2. ASSUME allocated' = allocated, \A c \in Categories : exists[c] = "live" => exists'[c] = "live"
      PROVE  UNCHANGED SpendingPool!poolVars
  BY <1>1, <1>2, RowsStay
<1>3. ASSUME NEW c \in Categories, NEW n \in Nat \ {0}, Increased(c, n)
      PROVE  SpendingPool!Grow(c)
  <2>1. \A p \in Payouts : payout'[p] = payout[p]
    BY <1>1, <1>3 DEF Increased
  <2>2. PoolOf' = PoolOf /\ StateOf' = StateOf /\ Amounts' = Amounts
    BY <2>1 DEF PoolOf, StateOf, Amounts
  <2>3. /\ allocated' = [allocated EXCEPT ![c] = allocated'[c]]
        /\ allocated'[c] > allocated[c] /\ allocated' \in [Categories -> Nat]
    BY <1>0, <1>3 DEF Increased
  <2> QED
    BY <2>2, <2>3 DEF SpendingPool!Grow, PoolOf, StateOf, Standing
<1>4. ASSUME NEW c \in Categories, Removed(c)
      PROVE  SpendingPool!Close(c)
  <2>1. \A p \in Payouts :
          /\ payout'[p].category = IF payout[p].category = c THEN Nobody ELSE payout[p].category
          /\ payout'[p].status = payout[p].status /\ payout'[p].amount = payout[p].amount
    BY <1>4, RemovalDetaches
  <2>2. /\ PoolOf' = [p \in Payouts |-> IF PoolOf[p] = c THEN Nobody ELSE PoolOf[p]]
        /\ StateOf' = StateOf /\ Amounts' = Amounts
    BY <2>1 DEF PoolOf, StateOf, Amounts
  <2>3. allocated' = [allocated EXCEPT ![c] = 0]
    BY <1>4 DEF Removed
  <2> QED
    BY <2>2, <2>3 DEF SpendingPool!Close, PoolOf, StateOf, Standing
<1> QED
  BY <1>2, <1>3, <1>4, AllocationFates

\* Whatever requests overlap, payouts are held before they are sent and fit what
\* their category has, allocations do not shrink under them, and a category that is
\* deleted changes no payout.
THEOREM SpendingKeepsPools == SpendingSpec => SpendingWithinPools
<1>1. SpendingInit => SpendingPool!PoolInit
  BY DEF SpendingInit, Init, SpendingPool!PoolInit, Unpaid, Amounts
<1>2. SpendingTypeOK /\ [SpendingNext]_allVars => [SpendingPool!PoolNext]_(SpendingPool!poolVars)
  <2> SUFFICES ASSUME SpendingTypeOK, [SpendingNext]_allVars
               PROVE  SpendingPool!PoolNext \/ UNCHANGED SpendingPool!poolVars
    OBVIOUS
  <2>1. CASE BudgetMoves
    BY <2>1, BudgetInPool DEF SpendingPool!PoolNext
  <2>2. ASSUME NEW p \in Payouts, NEW c \in Categories, Pay(p, c)
        PROVE  SpendingPool!PoolNext
    BY <2>2, PayHolds DEF SpendingPool!PoolNext
  <2>3. ASSUME NEW p \in Payouts, PayoutEnds(p)
        PROVE  SpendingPool!PoolNext
    BY <2>3, EndsInPool DEF SpendingPool!PoolNext
  <2>4. ASSUME NEW h \in Calls, RemoveVendorWrites(h)
        PROVE  UNCHANGED SpendingPool!poolVars
    <3>1. ASSUME NEW p \in Payouts
          PROVE  /\ payout'[p].category = payout[p].category
                 /\ payout'[p].status = payout[p].status /\ payout'[p].amount = payout[p].amount
      <4>1. payout[p] \in Payout
        BY DEF SpendingTypeOK, Payout
      <4>2. payout'[p] = payout[p] \/ payout'[p] = [payout[p] EXCEPT !.vendor = Nobody]
        BY <2>4 DEF RemoveVendorWrites
      <4> QED
        BY <4>1, <4>2 DEF Payout
    <3> QED
      BY <2>4, <3>1, RowsStay DEF RemoveVendorWrites, budgetVars
  <2>5. UNCHANGED <<allocated, payout>> => UNCHANGED SpendingPool!poolVars
    BY RowsStay
  <2> QED
    BY <2>1, <2>2, <2>3, <2>4, <2>5, Cases DEF CreateVendor, RemoveVendorReads, AssignVendor,
       UnassignVendor, budgetVars, spendingVars, allVars, vars
<1> QED
  BY <1>1, <1>2, TypeCorrect, PTL DEF SpendingSpec, SpendingWithinPools, SpendingPool!PoolSpec

=============================================================================

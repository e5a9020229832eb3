--------------------------- MODULE BudgetApproval ---------------------------
(***************************************************************************)
(* The budget of one event: its categories and what is allocated to them   *)
(* (BudgetCategoriesService, and BudgetTemplatesService, which creates     *)
(* categories through it), and the approval that locks it                  *)
(* (BudgetApprovalsService).  Module BudgetSpending adds the vendors.      *)
(*                                                                         *)
(* Every operation reads the approval's status, decides, and writes in a   *)
(* later statement.  Only allocate() has a database transaction around its *)
(* statements, at Postgres' default isolation (Read Committed), where each *)
(* statement sees what is committed when it runs and a commit is never     *)
(* refused for what was read.  So a call is a sequence of steps here, and  *)
(* other calls run between them.                                           *)
(***************************************************************************)
EXTENDS Integers, Money

CONSTANTS
  Categories,     \* budget categories the event may get
  Contributions,  \* transaction rows of the event
  Manual,         \* those recorded by hand: money outside the platform
  Settled,        \* amountSettled of each contribution
  Goal,           \* targetGoal of the event, 0 when it has none
  Precision,      \* a template's percentage is kept in units of 1 / Precision
  MaxEstimate,    \* bound: largest estimatedCost
  MaxAmount,      \* bound: largest amount of one allocation
  OtherRequests,  \* requests of other services that are at work with these
  Calls           \* bound: requests being handled at the same time

ASSUME CategoriesFinite == IsFiniteSet(Categories)
ASSUME ContributionRows ==
  /\ IsFiniteSet(Contributions)
  /\ Manual \subseteq Contributions
  /\ Settled \in [Contributions -> Nat]
ASSUME SomeCalls == IsFiniteSet(Calls) /\ Calls # {}
ASSUME Bounds == MaxEstimate \in Nat /\ MaxAmount \in Nat
ASSUME GoalAndPrecision == Goal \in Nat /\ Precision \in Nat \ {0}

VARIABLES
  approval,      \* status of the approval row, "none" before its first read
  exists,        \* each category: "none", "live" or "removed"
  estimate,      \* estimatedCost of each category
  allocated,     \* allocatedFunds of each category
  contribution,  \* status of each transaction row
  call,          \* each request: its operation, where it stands, what it read
  overlapped,    \* history: a request began while another was at work
  approved,      \* history: the numbers the last approval was given for, {} before
  late           \* history: changes of the budget since it was last editable

budgetVars == <<exists, estimate, allocated>>
vars == <<approval, budgetVars, contribution, call, overlapped, approved, late>>

ApprovalStatus == {"none", "DRAFT", "SUBMITTED", "APPROVED", "DECLINED", "FUNDED"}

\* EDITABLE_STATUSES; an event without a row has never been submitted.
Editable == {"none", "DRAFT", "DECLINED"}

Idle == [op |-> "idle"]
Requests ==
  {Idle}
  \cup [op : {"submit"}, at : {"read", "counted"}]
  \cup [op : {"approve", "decline", "fund"}]
  \cup [op : {"create", "update", "remove"}, category : Categories]
  \cup [op : {"apply"}, left : SUBSET Categories, at : {"next", "checked"}]
  \cup OtherRequests
  \cup [op : {"allocate"}, category : Categories, amount : 1 .. MaxAmount,
        at : {"read", "covered"}]

Live == {c \in Categories : exists[c] = "live"}

\* Each request that creates categories has rows of its own to insert.
Promised ==
  {c \in Categories : \E g \in Calls :
     \/ call[g].op = "create" /\ call[g].category = c
     \/ call[g].op = "apply" /\ c \in call[g].left}
Fresh == {c \in Categories : exists[c] = "none"} \ Promised

-----------------------------------------------------------------------------
(* The aggregates *)

\* Mutant: cash entries count as received.
TotalReceivedCash == Sum(Settled, {t \in Contributions : contribution[t] = "SUCCESS"})

\* SUCCESS contributions that went through the payment gateway.
TotalReceived ==
  Sum(Settled, {t \in Contributions \ Manual : contribution[t] = "SUCCESS"})
TotalAllocated == Sum(allocated, Live)
Remaining == TotalReceived - TotalAllocated

-----------------------------------------------------------------------------
(* Templates *)

\* createFromEvent(): a category as an item; the column rounds the percentage.
ItemFrom(estimated) ==
  IF Goal > 0 THEN [percentage |-> (2 * estimated * Precision + Goal) \div (2 * Goal)]
  ELSE [fixedAmount |-> estimated]

\* apply(): an item as a category.
EstimateOf(item) ==
  IF "percentage" \in DOMAIN item
  THEN (2 * Goal * item.percentage + Precision) \div (2 * Precision)
  ELSE item.fixedAmount

\* The items of templates saved from, or written for, such an event.
Items == {ItemFrom(e) : e \in 0 .. MaxEstimate}

-----------------------------------------------------------------------------
\* The numbers an approver sees.
Numbers == [c \in Live |-> <<estimate[c], allocated[c]>>]

-----------------------------------------------------------------------------
TypeOK ==
  /\ approval \in ApprovalStatus
  /\ exists \in [Categories -> {"none", "live", "removed"}]
  /\ estimate \in [Categories -> Nat]
  /\ allocated \in [Categories -> Nat]
  /\ contribution \in [Contributions -> {"none", "SUCCESS", "REFUNDED"}]
  /\ call \in [Calls -> Requests]
  /\ overlapped \in BOOLEAN
  /\ \A numbers \in approved : DOMAIN numbers \subseteq Categories
  /\ late \in Nat
  /\ \A c \in Categories : exists[c] # "live" => estimate[c] = 0 /\ allocated[c] = 0

Init ==
  /\ approval = "none"
  /\ exists = [c \in Categories |-> "none"]
  /\ estimate = [c \in Categories |-> 0]
  /\ allocated = [c \in Categories |-> 0]
  /\ contribution = [t \in Contributions |-> "none"]
  /\ call = [h \in Calls |-> Idle]
  /\ overlapped = FALSE
  /\ approved = {}
  /\ late = 0

\* A request starts: its first read of the approval is behind it.
Begins(h, request) ==
  /\ call[h] = Idle
  /\ call' = [call EXCEPT ![h] = request]
  /\ overlapped' = (overlapped \/ \E g \in Calls : call[g] # Idle)

Ends(h) ==
  /\ call' = [call EXCEPT ![h] = Idle]
  /\ UNCHANGED overlapped

-----------------------------------------------------------------------------
(* BudgetApprovalsService *)

\* getStatus() creates the row on the first read.
ReadStatus == IF approval = "none" THEN "DRAFT" ELSE approval

\* Anyone may look at the status, or be refused after having looked.
GetStatus ==
  /\ approval = "none"
  /\ approval' = ReadStatus
  /\ UNCHANGED <<budgetVars, contribution, call, overlapped, approved>>

SubmitReads(h) ==
  /\ ReadStatus \in Editable
  /\ approval' = ReadStatus
  /\ Begins(h, [op |-> "submit", at |-> "read"])
  /\ UNCHANGED <<budgetVars, contribution, approved>>

\* Something must have been allocated.
SubmitCounts(h) ==
  /\ call[h] = [op |-> "submit", at |-> "read"]
  /\ TotalAllocated > 0
  /\ call' = [call EXCEPT ![h].at = "counted"]
  /\ UNCHANGED <<approval, budgetVars, contribution, overlapped, approved>>

SubmitWrites(h) ==
  /\ call[h] = [op |-> "submit", at |-> "counted"]
  /\ approval' = "SUBMITTED"
  /\ Ends(h)
  /\ UNCHANGED <<budgetVars, contribution, approved>>

DecideReads(h) ==
  /\ ReadStatus = "SUBMITTED"
  /\ \E op \in {"approve", "decline"} : Begins(h, [op |-> op])
  /\ UNCHANGED <<approval, budgetVars, contribution, approved>>

DecideWrites(h) ==
  /\ \/ /\ call[h].op = "approve"
        /\ approval' = "APPROVED"
        /\ approved' = {Numbers}
     \/ /\ call[h].op = "decline"
        /\ approval' = "DECLINED"
        /\ UNCHANGED approved
  /\ Ends(h)
  /\ UNCHANGED <<budgetVars, contribution>>

\* Mutant: a submitted budget can be funded.
FundReadsSubmitted(h) ==
  /\ ReadStatus \in {"SUBMITTED", "APPROVED"}
  /\ Begins(h, [op |-> "fund"])
  /\ UNCHANGED <<approval, budgetVars, contribution, approved>>

FundReads(h) ==
  /\ ReadStatus = "APPROVED"
  /\ Begins(h, [op |-> "fund"])
  /\ UNCHANGED <<approval, budgetVars, contribution, approved>>

FundWrites(h) ==
  /\ call[h].op = "fund"
  /\ approval' = "FUNDED"
  /\ Ends(h)
  /\ UNCHANGED <<budgetVars, contribution, approved>>

-----------------------------------------------------------------------------
(* BudgetCategoriesService *)

\* Mutant: categories may be edited whatever the approval says.
EditReadsAlways(h, c) ==
  /\ \/ /\ c \in Fresh
        /\ Begins(h, [op |-> "create", category |-> c])
     \/ /\ exists[c] = "live"
        /\ \E op \in {"update", "remove"} : Begins(h, [op |-> op, category |-> c])
  /\ UNCHANGED <<approval, budgetVars, contribution, approved>>

\* assertBudgetEditable, the first half of create, update and remove.
EditReads(h, c) ==
  /\ approval \in Editable
  /\ \/ /\ c \in Fresh
        /\ Begins(h, [op |-> "create", category |-> c])
     \/ /\ exists[c] = "live"
        /\ \E op \in {"update", "remove"} : Begins(h, [op |-> op, category |-> c])
  /\ UNCHANGED <<approval, budgetVars, contribution, approved>>

EditWrites(h) ==
  LET c == call[h].category
  IN /\ \/ /\ call[h].op = "create"
           /\ exists' = [exists EXCEPT ![c] = "live"]
           /\ \E e \in 0 .. MaxEstimate : estimate' = [estimate EXCEPT ![c] = e]
           /\ UNCHANGED allocated
        \/ /\ call[h].op = "update"
           /\ exists[c] = "live"
           /\ \E e \in 0 .. MaxEstimate : estimate' = [estimate EXCEPT ![c] = e]
           /\ UNCHANGED <<exists, allocated>>
        \/ /\ call[h].op = "remove"
           /\ exists[c] = "live"
           /\ exists' = [exists EXCEPT ![c] = "removed"]
           /\ estimate' = [estimate EXCEPT ![c] = 0]
           /\ allocated' = [allocated EXCEPT ![c] = 0]
     /\ Ends(h)
     /\ UNCHANGED <<approval, contribution, approved>>

\* apply(): creates a category for each item of a template, one create() after
\* the other, each with its own look at the approval.
ApplyReads(h) ==
  /\ \E items \in SUBSET Fresh \ {{}} :
       Begins(h, [op |-> "apply", left |-> items, at |-> "next"])
  /\ UNCHANGED <<approval, budgetVars, contribution, approved>>

\* Mutant: an item is created without a look at the approval.
ApplyChecksNothing(h) ==
  /\ call[h].op = "apply" /\ call[h].at = "next"
  /\ call' = [call EXCEPT ![h].at = "checked"]
  /\ UNCHANGED <<approval, budgetVars, contribution, overlapped, approved>>

ApplyChecks(h) ==
  /\ call[h].op = "apply" /\ call[h].at = "next"
  /\ approval \in Editable
  /\ call' = [call EXCEPT ![h].at = "checked"]
  /\ UNCHANGED <<approval, budgetVars, contribution, overlapped, approved>>

ApplyCreates(h) ==
  /\ call[h].op = "apply" /\ call[h].at = "checked"
  /\ \E c \in call[h].left, item \in Items :
       /\ exists' = [exists EXCEPT ![c] = "live"]
       /\ estimate' = [estimate EXCEPT ![c] = EstimateOf(item)]
       /\ IF call[h].left = {c} THEN Ends(h)
          ELSE /\ call' = [call EXCEPT ![h].left = @ \ {c}, ![h].at = "next"]
               /\ UNCHANGED overlapped
  /\ UNCHANGED <<approval, allocated, contribution, approved>>

\* allocate(): the category and the approval are read,
AllocateReads(h, c) ==
  /\ exists[c] = "live"
  /\ approval \in Editable
  /\ \E a \in 1 .. MaxAmount :
       Begins(h, [op |-> "allocate", category |-> c, amount |-> a, at |-> "read"])
  /\ UNCHANGED <<approval, budgetVars, contribution, approved>>

\* then the aggregates: the amount must fit in what is not allocated yet,
AllocateCovers(h) ==
  /\ call[h].op = "allocate" /\ call[h].at = "read"
  /\ call[h].amount <= Remaining
  /\ call' = [call EXCEPT ![h].at = "covered"]
  /\ UNCHANGED <<approval, budgetVars, contribution, overlapped, approved>>

\* then the allocation row and the increment of allocatedFunds are committed.
AllocateCommits(h) ==
  LET c == call[h].category
  IN /\ call[h].op = "allocate" /\ call[h].at = "covered"
     /\ exists[c] = "live"
     /\ allocated' = [allocated EXCEPT ![c] = @ + call[h].amount]
     /\ Ends(h)
     /\ UNCHANGED <<approval, exists, estimate, contribution, approved>>

\* A request is refused at its second check, fails or loses its process; what it
\* did not commit is not written.
CallBreaks(h) ==
  /\ call[h] # Idle
  /\ Ends(h)
  /\ UNCHANGED <<approval, budgetVars, contribution, approved>>

-----------------------------------------------------------------------------
(* The rest of the application *)

\* The webhook processor or recordManual inserts a SUCCESS transaction.
ContributionSettles(t) ==
  /\ contribution[t] = "none"
  /\ contribution' = [contribution EXCEPT ![t] = "SUCCESS"]
  /\ UNCHANGED <<approval, budgetVars, call, overlapped, approved>>

\* reverseTransactionCredit after a refund or a lost dispute (gateway only).
ContributionReversed(t) ==
  /\ contribution[t] = "SUCCESS"
  /\ t \notin Manual
  /\ contribution' = [contribution EXCEPT ![t] = "REFUNDED"]
  /\ UNCHANGED <<approval, budgetVars, call, overlapped, approved>>

Step ==
  \/ GetStatus
  \/ \E h \in Calls :
       \/ SubmitReads(h)
       \/ SubmitCounts(h)
       \/ SubmitWrites(h)
       \/ DecideReads(h)
       \/ DecideWrites(h)
       \/ FundReads(h)
       \/ FundWrites(h)
       \/ EditWrites(h)
       \/ ApplyReads(h)
       \/ ApplyChecks(h)
       \/ ApplyCreates(h)
       \/ AllocateCovers(h)
       \/ AllocateCommits(h)
       \/ CallBreaks(h)
  \/ \E h \in Calls, c \in Categories : EditReads(h, c) \/ AllocateReads(h, c)
  \/ \E t \in Contributions : ContributionSettles(t) \/ ContributionReversed(t)

CountsLate ==
  late' = IF approval' \in Editable THEN 0
          ELSE IF budgetVars' # budgetVars THEN late + 1 ELSE late

Next == Step /\ CountsLate

Spec == Init /\ [][Next]_vars

-----------------------------------------------------------------------------
(* Properties *)

EverReceived ==
  Sum(Settled, {t \in Contributions \ Manual : contribution[t] # "none"})

\* While requests do not overlap, no more is allocated than the event received
\* through the gateway: cash entries, and money another category already has,
\* are never allocated.
SerialAllocationsCovered == ~overlapped => TotalAllocated <= EverReceived

\* While requests do not overlap, what is paid out under an approval is what was
\* approved: no category, estimate or allocation moves until it is declined.
SerialApprovalStands ==
  ~overlapped /\ approval \in {"APPROVED", "FUNDED"} =>
    approved = {Numbers} /\ TotalAllocated > 0

\* Overlapping or not, no budget is released to vendors without an approval
\* having been given at some time.
FundedWasApproved == approval = "FUNDED" => approved # {}

\* Overlapping or not, once a budget is submitted it changes at most once more for
\* each other request at work: a template that is being applied stops at its next
\* item, and what starts later is refused.
LateChangesBounded == late < Cardinality(Calls)

\* allocate()'s comment: it is "correctly blocked by what's already been
\* allocated to others", overlapping or not.
NeverOverAllocated == TotalAllocated <= EverReceived

\* The schema's "mutations are locked ... whenever status is anything other than
\* DRAFT/DECLINED", overlapping or not.
LockedUnlessEditable == [][approval \notin Editable => UNCHANGED budgetVars]_vars

\* fund()'s "only an approved budget can be funded", overlapping or not.
FundsOnlyApproved == [][approval' = "FUNDED" => approval \in {"APPROVED", "FUNDED"}]_vars

=============================================================================

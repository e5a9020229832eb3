--------------------------- MODULE Disbursements ---------------------------
(***************************************************************************)
(* Vendor payouts of one event (DisbursementsService).                     *)
(*                                                                         *)
(* pay() pays a budget category's whole unpaid allocation to its vendor.   *)
(* The reservation is one Serializable transaction, so it is one step here;*)
(* a transaction that loses the conflict answers 409 and changes nothing.  *)
(* The payout it starts then lives as module GatewayPayout says.           *)
(*                                                                         *)
(* The rest of the application moves what the reservation reads:           *)
(* contributions are credited and reversed (Settlement, Reversals), the    *)
(* budget workflow allocates, funds and deletes categories (BudgetApproval)*)
(* and organizers reassign vendors.  Those steps are kept as free as these *)
(* components leave them, races included.                                  *)
(***************************************************************************)
EXTENDS Integers, Money, GatewayPayout

CONSTANTS
  Categories,     \* budget categories of the event
  NoCategory,     \* budgetCategoryId of a row that has none, or is not there yet
  Contributions,  \* transaction rows of the event
  Manual,         \* those recorded by hand: money outside the platform
  Settled,        \* amountSettled of each contribution
  MaxAllocation   \* bound: largest allocatedFunds of each category

ASSUME CategoryNames == NoCategory \notin Categories
ASSUME ContributionRows ==
  /\ IsFiniteSet(Contributions)
  /\ Manual \subseteq Contributions
  /\ Settled \in [Contributions -> Nat]
ASSUME AllocationBound == MaxAllocation \in [Categories -> Nat]

VARIABLES
  category,      \* budgetCategoryId of each disbursement
  amount,        \* amount of each disbursement
  allocated,     \* allocatedFunds of each category
  contribution,  \* status of each transaction row
  funded,        \* the budget approval is FUNDED
  payable        \* categories whose vendor takes PawaPay mobile money

eventVars == <<category, amount, allocated, contribution, funded, payable>>
vars == <<payoutVars, eventVars>>

-----------------------------------------------------------------------------
(* The aggregates the reservation reads *)

\* Mutant: rows count only once PawaPay accepted them.
SpokenForAccepted == {Handed, Done}

\* PENDING, QUEUED, SUCCESS: sent, or possibly about to be.
SpokenFor == {"PENDING", Handed, Done}

EventRows == {p \in Payouts : status[p] \in SpokenFor}
CategoryRows(c) == {p \in EventRows : category[p] = c}

AlreadyPaid(c) == Sum(amount, CategoryRows(c))
Remaining(c) == allocated[c] - AlreadyPaid(c)

\* SUCCESS contributions that went through the payment gateway.
EventReceived ==
  Sum(Settled, {t \in Contributions \ Manual : contribution[t] = "SUCCESS"})
EventDisbursed == Sum(amount, EventRows)

\* Mutant: payouts not answered for are left out of what the event disbursed.
EventRealRemainingSent ==
  EventReceived - Sum(amount, {p \in Payouts : status[p] \in {Handed, Done}})

EventRealRemaining == EventReceived - EventDisbursed

-----------------------------------------------------------------------------
TypeOK ==
  /\ PayoutTypeOK
  /\ category \in [Payouts -> Categories \cup {NoCategory}]
  /\ amount \in [Payouts -> Nat]
  /\ allocated \in [Categories -> Nat]
  /\ \A c \in Categories : allocated[c] <= MaxAllocation[c]
  /\ contribution \in [Contributions -> {"none", "SUCCESS", "REFUNDED"}]
  /\ funded \in BOOLEAN
  /\ payable \in SUBSET Categories
  /\ \A p \in Payouts : (status[p] = "none") <=> (request[p] = "idle")
  /\ \A p \in Payouts : status[p] # "none" => amount[p] > 0
  /\ \A p \in Payouts : status[p] = "none" => category[p] = NoCategory
  /\ \A p \in refStored : status[p] # "none"

Init ==
  /\ PayoutInit
  /\ category = [p \in Payouts |-> NoCategory]
  /\ amount = [p \in Payouts |-> 0]
  /\ allocated = [c \in Categories |-> 0]
  /\ contribution = [t \in Contributions |-> "none"]
  /\ funded = FALSE
  /\ payable = {}

-----------------------------------------------------------------------------
\* Mutant: a category with nothing left is not refused.
PayNothing(p, c) ==
  /\ funded
  /\ c \in payable
  /\ Remaining(c) >= 0
  /\ Remaining(c) <= EventRealRemaining
  /\ CreateRow(p)
  /\ category' = [category EXCEPT ![p] = c]
  /\ amount' = [amount EXCEPT ![p] = Remaining(c)]
  /\ UNCHANGED <<allocated, contribution, funded, payable>>

\* pay(), up to the commit of reserveDisbursement: every refusal is a conjunct.
Pay(p, c) ==
  /\ funded
  /\ c \in payable
  /\ Remaining(c) > 0
  /\ Remaining(c) <= EventRealRemaining
  /\ CreateRow(p)
  /\ category' = [category EXCEPT ![p] = c]
  /\ amount' = [amount EXCEPT ![p] = Remaining(c)]
  /\ UNCHANGED <<allocated, contribution, funded, payable>>

\* allocate() commits its increment of allocatedFunds.
AllocationGrows(c) ==
  /\ \E a \in 1 .. MaxAllocation[c] - allocated[c] :
       allocated' = [allocated EXCEPT ![c] = @ + a]
  /\ UNCHANGED <<payoutVars, category, amount, contribution, funded, payable>>

\* remove() of a category that was paid before, after a budget was declined again
\* or by a request that overlapped its submission: its rows lose it (onDelete:
\* SetNull), whatever became of their payouts.  Its name may serve a new one.
CategoryRemoved(c) ==
  /\ allocated' = [allocated EXCEPT ![c] = 0]
  /\ category' = [p \in Payouts |-> IF category[p] = c THEN NoCategory ELSE category[p]]
  /\ payable' = payable \ {c}
  /\ UNCHANGED <<payoutVars, amount, contribution, funded>>

\* The webhook processor or recordManual inserts a SUCCESS transaction.
ContributionSettles(t) ==
  /\ contribution[t] = "none"
  /\ contribution' = [contribution EXCEPT ![t] = "SUCCESS"]
  /\ UNCHANGED <<payoutVars, category, amount, allocated, funded, payable>>

\* reverseTransactionCredit after a refund or a lost dispute (gateway only).
ContributionReversed(t) ==
  /\ contribution[t] = "SUCCESS"
  /\ t \notin Manual
  /\ contribution' = [contribution EXCEPT ![t] = "REFUNDED"]
  /\ UNCHANGED <<payoutVars, category, amount, allocated, funded, payable>>

\* fund() writes FUNDED; a decide() that raced it writes over FUNDED.
FundingChanges ==
  /\ funded' = ~funded
  /\ UNCHANGED <<payoutVars, category, amount, allocated, contribution, payable>>

\* assignVendor(): the vendor becomes one that can be paid, or one that cannot.
VendorChanges(c) ==
  /\ payable' = IF c \in payable THEN payable \ {c} ELSE payable \cup {c}
  /\ UNCHANGED <<payoutVars, category, amount, allocated, contribution, funded>>

Next ==
  \/ \E p \in Payouts, c \in Categories : Pay(p, c)
  \/ \E p \in Payouts : PayoutStep(p) /\ UNCHANGED eventVars
  \/ \E c \in Categories : AllocationGrows(c) \/ CategoryRemoved(c) \/ VendorChanges(c)
  \/ \E t \in Contributions : ContributionSettles(t) \/ ContributionReversed(t)
  \/ FundingChanges

Spec == Init /\ [][Next]_vars

\* PawaPay settles what it accepted and repeats a callback until it is
\* answered; nothing is assumed of the organizers or of the request.
Settles(p) ==
  /\ GatewaySettles(p, "paid") \/ GatewaySettles(p, "failed")
  /\ UNCHANGED eventVars
Delivers(p) ==
  /\ CallbackMatches(p) \/ CallbackUnknown(p)
  /\ UNCHANGED eventVars
FairSpec ==
  Spec /\ \A p \in Payouts : WF_vars(Settles(p)) /\ WF_vars(Delivers(p))

-----------------------------------------------------------------------------
(* Properties *)

LiveRows(c) == {p \in Payouts : category[p] = c /\ Live(p)}

\* A vendor is never paid twice: what left PawaPay or still can for a category
\* stays within its allocation, whatever breaks between reservation, payout,
\* answer and callback, and however often Pay is pressed again.
NeverOverpaid ==
  \A c \in Categories : Sum(amount, LiveRows(c)) <= allocated[c]

\* Money that ever reached the event through the gateway, reversed since or not.
EverReceived ==
  Sum(Settled, {t \in Contributions \ Manual : contribution[t] # "none"})

\* Vendor payouts never draw on money the event never got: neither cash entries
\* nor an allocation that outgrew the pool can be paid out, and a payout counts
\* although its category is gone.
NeverBeyondReceipts == EventDisbursed <= EverReceived

\* The service implements the promise of PayoutPool, per category, with the
\* payout's state read off PawaPay and not off the row.
Pool == INSTANCE PayoutPool WITH
  Payouts <- Payouts,
  Pools <- Categories,
  NoPool <- NoCategory,
  granted <- allocated,
  worth <- amount,
  pool <- category,
  state <- [p \in Payouts |->
    IF request[p] = "idle" THEN "free"
    ELSE IF gateway[p] \in {"none", "accepted"} THEN "held"
    ELSE IF gateway[p] = "paid" THEN "paid"
    ELSE "void"]

ImplementsPool == Pool!PoolSpec

=============================================================================

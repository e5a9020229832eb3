--------------------------- MODULE BudgetSpending ---------------------------
(***************************************************************************)
(* Who is paid from a budget: the organization's vendors (VendorsService), *)
(* the vendor of each category (assignVendor), and the payouts reserved    *)
(* for them, beside everything that moves the budget itself (module        *)
(* BudgetApproval).                                                        *)
(*                                                                         *)
(* reserveDisbursement is a Serializable transaction, one step here; what  *)
(* becomes of a payout between its reservation and its end is module       *)
(* Disbursements.  A row of a vendor or category that is deleted gets null *)
(* in its place (onDelete: SetNull).                                       *)
(***************************************************************************)
EXTENDS BudgetApproval

CONSTANTS
  Vendors,   \* bound: vendors the organization gets
  Nobody,    \* no vendor, or no category
  Payouts    \* bound: payouts reserved

ASSUME VendorsFinite == IsFiniteSet(Payouts) /\ Nobody \notin Vendors \cup Categories
ASSUME RequestsOfVendors == OtherRequests = [op : {"delete"}, vendor : Vendors]

VARIABLES
  vendors,   \* the vendors there are
  toCome,    \* the vendors there have not been yet
  assigned,  \* vendorId of each category
  payout     \* disbursement rows

spendingVars == <<vendors, toCome, assigned, payout>>
allVars == <<vars, spendingVars>>

Unpaid == [status |-> "none", category |-> Nobody, vendor |-> Nobody, amount |-> 0]

SpendingTypeOK ==
  /\ TypeOK
  /\ vendors \subseteq Vendors /\ toCome \subseteq Vendors \ vendors
  /\ assigned \in [Categories -> Vendors \cup {Nobody}]
  /\ payout \in [Payouts -> [status : {"none", "PENDING", "SUCCESS", "FAILED"},
                             category : Categories \cup {Nobody},
                             vendor : Vendors \cup {Nobody}, amount : Nat]]
  \* Foreign keys lead to rows that exist.
  /\ \A c \in Categories : assigned[c] # Nobody => c \in Live /\ assigned[c] \in vendors
  /\ \A p \in Payouts : payout[p].vendor \in vendors \cup {Nobody}
  /\ \A p \in Payouts : payout[p].category \in Live \cup {Nobody}

SpendingInit ==
  /\ Init
  /\ vendors = {}
  /\ toCome = Vendors
  /\ assigned = [c \in Categories |-> Nobody]
  /\ payout = [p \in Payouts |-> Unpaid]

-----------------------------------------------------------------------------
\* Mutant: the payouts of a category that is deleted stay in it.
BudgetMovesKeeping ==
  /\ Step
  /\ assigned' = [c \in Categories |-> IF exists'[c] = "live" THEN assigned[c] ELSE Nobody]
  /\ UNCHANGED <<vendors, toCome, payout>>

\* A step of the budget: the rows of a category that is deleted lose it.
BudgetMoves ==
  /\ Step
  /\ assigned' = [c \in Categories |-> IF exists'[c] = "live" THEN assigned[c] ELSE Nobody]
  /\ payout' = [p \in Payouts |->
       IF payout[p].category \in Live /\ exists'[payout[p].category] # "live"
       THEN [payout[p] EXCEPT !.category = Nobody] ELSE payout[p]]
  /\ UNCHANGED <<vendors, toCome>>

-----------------------------------------------------------------------------
(* VendorsService *)

\* create(): a mobile money vendor of an operator of the organization's country.
CreateVendor(v) ==
  /\ v \in toCome
  /\ vendors' = vendors \cup {v}
  /\ toCome' = toCome \ {v}
  /\ UNCHANGED <<approval, budgetVars, contribution, call, overlapped, approved, assigned, payout>>

InFlight(v) == {p \in Payouts : payout[p].vendor = v /\ payout[p].status = "PENDING"}

\* Mutant: payouts in flight are not counted.
RemoveVendorReadsBlind(h, v) ==
  /\ v \in vendors
  /\ Begins(h, [op |-> "delete", vendor |-> v])
  /\ UNCHANGED <<approval, budgetVars, contribution, approved, spendingVars>>

\* remove() counts the payouts in flight ...
RemoveVendorReads(h, v) ==
  /\ v \in vendors
  /\ InFlight(v) = {}
  /\ Begins(h, [op |-> "delete", vendor |-> v])
  /\ UNCHANGED <<approval, budgetVars, contribution, approved, spendingVars>>

\* ... and deletes the vendor.
RemoveVendorWrites(h) ==
  LET v == call[h].vendor
  IN /\ call[h].op = "delete"
     /\ v \in vendors
     /\ vendors' = vendors \ {v}
     /\ assigned' = [c \in Categories |-> IF assigned[c] = v THEN Nobody ELSE assigned[c]]
     /\ payout' = [p \in Payouts |->
          IF payout[p].vendor = v THEN [payout[p] EXCEPT !.vendor = Nobody] ELSE payout[p]]
     /\ Ends(h)
     /\ UNCHANGED <<approval, budgetVars, contribution, approved, toCome>>

-----------------------------------------------------------------------------
(* BudgetCategoriesService.assignVendor(), whatever the approval says *)

\* The category and the vendor are looked up first, and the update fails when one
\* of them is gone by then: one step.
AssignVendor(c, v) ==
  /\ c \in Live /\ v \in vendors
  /\ assigned' = [assigned EXCEPT ![c] = v]
  /\ UNCHANGED <<approval, budgetVars, contribution, call, overlapped, approved, vendors, toCome, payout>>

\* A vendorId of null.
UnassignVendor(c) ==
  /\ c \in Live
  /\ assigned' = [assigned EXCEPT ![c] = Nobody]
  /\ UNCHANGED <<approval, budgetVars, contribution, call, overlapped, approved, vendors, toCome, payout>>

-----------------------------------------------------------------------------
(* DisbursementsService *)

Amounts == [p \in Payouts |-> payout[p].amount]
SpokenFor(c) ==
  Sum(Amounts, {p \in Payouts : payout[p].category = c /\ payout[p].status \in {"PENDING", "SUCCESS"}})
EventSpokenFor ==
  Sum(Amounts, {p \in Payouts : payout[p].status \in {"PENDING", "SUCCESS"}})

ToPay(c) == allocated[c] - SpokenFor(c)

\* Mutant: the budget need not be funded.
PayUnfunded(p, c) ==
  /\ payout[p].status = "none"
  /\ c \in Live /\ assigned[c] # Nobody
  /\ ToPay(c) > 0
  /\ ToPay(c) <= TotalReceived - EventSpokenFor
  /\ payout' = [payout EXCEPT ![p] =
       [status |-> "PENDING", category |-> c, vendor |-> assigned[c], amount |-> ToPay(c)]]
  /\ overlapped' = (overlapped \/ \E g \in Calls : call[g] # Idle)
  /\ UNCHANGED <<approval, budgetVars, contribution, call, approved, vendors, toCome, assigned>>

\* reserveDisbursement: what is left of the category's allocation, once the budget
\* is FUNDED, to the vendor assigned.
Pay(p, c) ==
  /\ payout[p].status = "none"
  /\ approval = "FUNDED"
  /\ c \in Live /\ assigned[c] # Nobody
  /\ ToPay(c) > 0
  /\ ToPay(c) <= TotalReceived - EventSpokenFor
  /\ payout' = [payout EXCEPT ![p] =
       [status |-> "PENDING", category |-> c, vendor |-> assigned[c], amount |-> ToPay(c)]]
  /\ overlapped' = (overlapped \/ \E g \in Calls : call[g] # Idle)
  /\ UNCHANGED <<approval, budgetVars, contribution, call, approved, vendors, toCome, assigned>>

PayoutEnds(p) ==
  /\ payout[p].status = "PENDING"
  /\ \E o \in {"SUCCESS", "FAILED"} : payout' = [payout EXCEPT ![p].status = o]
  /\ UNCHANGED <<approval, budgetVars, contribution, call, overlapped, approved, vendors, toCome, assigned>>

-----------------------------------------------------------------------------
SpendingNext ==
  /\ \/ BudgetMoves
     \/ \E v \in Vendors : CreateVendor(v)
     \/ \E h \in Calls, v \in Vendors : RemoveVendorReads(h, v)
     \/ \E h \in Calls : RemoveVendorWrites(h)
     \/ \E c \in Categories, v \in Vendors : AssignVendor(c, v)
     \/ \E c \in Categories : UnassignVendor(c)
     \/ \E c \in Categories, p \in Payouts : Pay(p, c)
     \/ \E p \in Payouts : PayoutEnds(p)
  /\ CountsLate

SpendingSpec == SpendingInit /\ [][SpendingNext]_allVars

-----------------------------------------------------------------------------
(* Properties *)

\* A category's payouts as the promise of PayoutPool has them.
SpendingPool == INSTANCE PayoutPool WITH
  Pools <- Categories,
  NoPool <- Nobody,
  granted <- allocated,
  worth <- Amounts,
  pool <- [p \in Payouts |-> payout[p].category],
  state <- [p \in Payouts |->
    [none |-> "free", PENDING |-> "held", SUCCESS |-> "paid", FAILED |-> "void"][payout[p].status]]

\* Overlapping or not, the budget's requests leave payouts the promise of PayoutPool
\* that Disbursements has on its own.  An allocation or a removal that read the
\* budget as open is written under payouts of its category: the one only adds to
\* what they may use, and the other takes none of them with it.
SpendingWithinPools == SpendingPool!PoolSpec

\* While requests do not overlap, a category's vendors are never sent more than
\* what the approver saw allocated to it, failed payouts and their repetitions
\* included.
SerialPaidAsApproved ==
  ~overlapped =>
    \A c \in Categories : SpokenFor(c) > 0 =>
      \E numbers \in approved : c \in DOMAIN numbers /\ SpokenFor(c) <= numbers[c][2]

\* While requests do not overlap, a payout in flight knows its vendor and its
\* category: neither is deleted under it.
SerialPayoutKeepsItsRows ==
  ~overlapped =>
    \A p \in Payouts : payout[p].status = "PENDING" =>
      payout[p].vendor # Nobody /\ payout[p].category # Nobody

\* remove() "blocks deleting a vendor with a payout still in flight", overlapping
\* or not.
NeverOrphaned ==
  \A p \in Payouts : payout[p].status = "PENDING" => payout[p].vendor # Nobody

=============================================================================

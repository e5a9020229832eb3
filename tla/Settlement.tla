----------------------------- MODULE Settlement -----------------------------
(***************************************************************************)
(* How invoices and payment links are issued, and how a contribution is    *)
(* charged, confirmed and credited.                                        *)
(*                                                                         *)
(* InvoicesService issues an invoice of either shape.  PaymentsService     *)
(* .initializeCheckout reads it, decides what to charge and asks the       *)
(* gateway; a deposit is charged for the event itself.  WebhookProcessor   *)
(* works the jobs of module WebhookQueue.  What a checkout or a job reads  *)
(* of the invoice may be old when it writes; the increment itself is done  *)
(* by the database and is not.                                             *)
(*                                                                         *)
(* A refund or a lost dispute takes a payment off its invoice again, from a*)
(* reading that may be old as well.  What leads to it, and what the total  *)
(* then is worth, is the subject of module Reversals.                      *)
(***************************************************************************)
EXTENDS WebhookQueue, Fees, Money

CONSTANTS
  Invoices,       \* invoices and links of the event
  MaxAmount       \* bound: largest amount requested, and of one charge

ASSUME Amounts == MaxAmount \in Nat
ASSUME Names == "event" \notin Invoices /\ {"none", "given"} \cap Charges = {}

VARIABLES
  invoice,   \* the invoice rows
  expired,   \* invoices whose expiresAt has passed
  expiring,  \* invoices read as expired and open, about to be written so
  charge,    \* each charge: what it is for, what it credits, its checkout
  reversal   \* of each charge: the total its handler read, and whether it wrote

invoiceVars == <<invoice, expired, expiring, charge, reversal>>
vars == <<queueVars, invoiceVars>>

\* A row: permanent is expiresAt = null, an amountRequested of 0 is null, and
\* contributorEmail is "none", "given" with the invoice, or the payer of a charge.
InvoiceRow == [
  status : {"absent", "PENDING", "PARTIALLY_PAID", "PAID", "EXPIRED"},
  permanent : BOOLEAN, amountRequested : 0 .. MaxAmount, amountPaid : Nat,
  contributorEmail : {"none", "given"} \cup Charges]

\* A deposit belongs to no invoice.
Event == "event"

\* quote: the total the pay page showed; blank: the checkout read no e-mail;
\* outdated: a payment was taken off the invoice since the page was opened.
NoCheckout == [at |-> "idle", for |-> Event, net |-> 0, quote |-> 0, blank |-> FALSE,
               outdated |-> FALSE]
ChargeRecord == [at : {"idle", "viewing", "checkout", "charged"}, for : Invoices \cup {Event},
                 net : 0 .. MaxAmount, quote : Nat, blank : BOOLEAN, outdated : BOOLEAN]

\* A charge whose reversal is "done" has a row that is REFUNDED now.
NoReversal == [at |-> "none", paid |-> 0]
ReversalRecord == [at : {"none", "read", "done"}, paid : Nat]

-----------------------------------------------------------------------------
\* platformFeeAmount of the metadata: a deposit is not a contribution.
Fee(c) == IF charge[c].for = Event THEN 0 ELSE PlatformFee(charge[c].net)

\* grossAmount: what the payer is charged.
Gross(c) == charge[c].net + Fee(c)

\* netAmountSettled: the verified gross amount less the fee in the metadata.
NetSettled(c) == Gross(c) - Fee(c)

SingleUse == {i \in Invoices : invoice[i].status # "absent" /\ ~invoice[i].permanent}
Fixed(i) == invoice[i].amountRequested > 0

Remaining(i) ==
  LET left == invoice[i].amountRequested - invoice[i].amountPaid
  IN IF left > 0 THEN left ELSE 0

\* withFeeBreakdown: totalChargeAmount, the fee on what is still owed.
Quote(i) == Remaining(i) + PlatformFee(Remaining(i))

\* The payments of an invoice that stand, and whether one no longer does.
Stands(c) == row[c] = "SUCCESS" /\ reversal[c].at # "done"
Reduced(i) == \E c \in Charges : charge[c].for = i /\ reversal[c].at = "done"

\* Mutant: an invoice paid in full to the unit stays open.
NextStatusAbove(i, paid) ==
  IF paid > invoice[i].amountRequested THEN "PAID" ELSE "PARTIALLY_PAID"

NextStatus(i, paid) ==
  IF paid >= invoice[i].amountRequested THEN "PAID" ELSE "PARTIALLY_PAID"

-----------------------------------------------------------------------------
TypeOK ==
  /\ QueueTypeOK
  /\ invoice \in [Invoices -> InvoiceRow]
  /\ expired \subseteq SingleUse
  /\ expiring \subseteq expired
  /\ charge \in [Charges -> ChargeRecord]
  /\ \A c \in Charges : gateway[c] # "none" <=> charge[c].at = "charged"
  /\ \A c \in Charges : charge[c].at \in {"checkout", "charged"} => charge[c].net > 0
  /\ reversal \in [Charges -> ReversalRecord]
  /\ \A c \in Charges :
       reversal[c].at # "none" => row[c] = "SUCCESS" /\ charge[c].for \in SingleUse

Init ==
  /\ QueueInit
  /\ invoice = [i \in Invoices |->
       [status |-> "absent", permanent |-> FALSE, amountRequested |-> 0,
        amountPaid |-> 0, contributorEmail |-> "none"]]
  /\ expired = {}
  /\ expiring = {}
  /\ charge = [c \in Charges |-> NoCheckout]
  /\ reversal = [c \in Charges |-> NoReversal]

-----------------------------------------------------------------------------
(* Issuing *)

PersistInvoice(i, permanent, amount, email) ==
  /\ invoice[i].status = "absent"
  /\ invoice' = [invoice EXCEPT ![i] =
       [status |-> "PENDING", permanent |-> permanent, amountRequested |-> amount,
        amountPaid |-> 0, contributorEmail |-> email]]
  /\ UNCHANGED <<expired, expiring, charge, reversal, queueVars>>

\* create(): an organizer's invoice or link, with or without an amount.
Create(i) ==
  \E permanent \in BOOLEAN, amount \in 0 .. MaxAmount, email \in {"none", "given"} :
    PersistInvoice(i, permanent, amount, email)

\* createPledge(): single-use, with an amount and without an e-mail.
CreatePledge(i) ==
  \E amount \in 1 .. MaxAmount : PersistInvoice(i, FALSE, amount, "none")

ExpiryPasses(i) ==
  /\ i \in SingleUse \ expired
  /\ expired' = expired \cup {i}
  /\ UNCHANGED <<invoice, expiring, charge, reversal, queueVars>>

-----------------------------------------------------------------------------
(* The pay page *)

\* The link is opened (findByToken), or checked out, after the expiry: the
\* invoice is read as not paid ...
SeesExpired(i) ==
  /\ i \in expired \ expiring
  /\ invoice[i].status # "PAID"
  /\ expiring' = expiring \cup {i}
  /\ UNCHANGED <<invoice, expired, charge, reversal, queueVars>>

\* ... and written EXPIRED in a statement of its own, whatever it is by then.
WritesExpired(i) ==
  /\ i \in expiring
  /\ expiring' = expiring \ {i}
  /\ invoice' = [invoice EXCEPT ![i].status = "EXPIRED"]
  /\ UNCHANGED <<expired, charge, reversal, queueVars>>

\* A payer opens the page, which shows the total to pay of a fixed amount.
OpensPage(c, i) ==
  /\ charge[c].at = "idle"
  /\ invoice[i].status # "absent" /\ i \notin expired
  /\ charge' = [charge EXCEPT ![c] =
       [at |-> "viewing", for |-> i, net |-> 0, blank |-> FALSE, outdated |-> FALSE,
        quote |-> IF Fixed(i) THEN Quote(i) ELSE 0]]
  /\ UNCHANGED <<invoice, expired, expiring, reversal, queueVars>>

\* Mutant: a part payment is not capped.
ChargeAmountsUncapped(i) == 1 .. MaxAmount

\* resolveSingleUseChargeAmount: all or part of what is outstanding.
\* resolvePermanentLinkChargeAmount: the fixed amount, or the payer's choice;
\* a single-use invoice without an amount is resolved the same way.
ChargeAmounts(i) ==
  IF ~Fixed(i) THEN 1 .. MaxAmount
  ELSE IF i \in SingleUse THEN 1 .. Remaining(i)
  ELSE {invoice[i].amountRequested}

\* initializeCheckout() reads the invoice, and decides from it what to charge ...
CheckoutReads(c) ==
  LET i == charge[c].for
  IN /\ charge[c].at = "viewing"
     /\ i \in SingleUse => invoice[i].status # "PAID" /\ i \notin expired
     /\ \E amount \in ChargeAmounts(i) :
          charge' = [charge EXCEPT ![c].at = "checkout", ![c].net = amount,
                       ![c].blank = invoice[i].contributorEmail = "none"]
     /\ UNCHANGED <<invoice, expired, expiring, reversal, queueVars>>

\* Mutant: the payer's e-mail is always written.
CaptureContributorIdentityAlways(c) ==
  invoice' = [invoice EXCEPT ![charge[c].for].contributorEmail = c]

\* captureContributorIdentity: an e-mail that was read as blank is filled in.
CaptureContributorIdentity(c) ==
  invoice' = [invoice EXCEPT ![charge[c].for].contributorEmail =
                IF charge[c].blank THEN c ELSE @]

\* ... writes the payer's identity, and the gateway takes the charge ...
CheckoutCharges(c) ==
  /\ charge[c].at = "checkout"
  /\ CaptureContributorIdentity(c)
  /\ StartsCharge(c)
  /\ charge' = [charge EXCEPT ![c].at = "charged", ![c].quote = 0, ![c].blank = FALSE,
                                  ![c].outdated = FALSE]
  /\ UNCHANGED <<expired, expiring, reversal>>

\* ... or refuses it, or the number is missing or not of an operator here.
CheckoutRefused(c) ==
  /\ charge[c].at = "checkout"
  /\ CaptureContributorIdentity(c)
  /\ charge' = [charge EXCEPT ![c] = NoCheckout]
  /\ UNCHANGED <<expired, expiring, reversal, queueVars>>

\* initiateDeposit(): a member pays in for the event itself, without a fee.
InitiateDeposit(c) ==
  /\ charge[c].at = "idle"
  /\ StartsCharge(c)
  /\ \E amount \in 1 .. MaxAmount :
       charge' = [charge EXCEPT ![c].at = "charged", ![c].net = amount]
  /\ UNCHANGED <<invoice, expired, expiring, reversal>>

-----------------------------------------------------------------------------
(* WebhookProcessor's transaction *)

\* Only a single-use invoice that is not PAID is credited.
TakesCredit(c) ==
  charge[c].for \in SingleUse /\ invoice[charge[c].for].status # "PAID"

\* The row is inserted and the invoice is read.
Inserts(j) ==
  /\ InsertsRow(j, IF job[j].claim = "SUCCESS" /\ TakesCredit(job[j].charge)
                     THEN "open" ELSE "closed")
  /\ UNCHANGED invoiceVars

\* The invoice is credited and gets its status, if it was read as open, and the
\* transaction commits.
Commits(j) ==
  LET c == job[j].charge
      i == charge[c].for
      paid == invoice[i].amountPaid + NetSettled(c)
  IN /\ \/ /\ CommitsRow(j, "open")
           /\ invoice' = [invoice EXCEPT ![i].status = NextStatus(i, paid),
                                         ![i].amountPaid = paid]
        \/ /\ CommitsRow(j, "closed")
           /\ UNCHANGED invoice
     /\ UNCHANGED <<expired, expiring, charge, reversal>>

-----------------------------------------------------------------------------
(* reverseTransactionCredit *)

\* The handler of a refund or of a lost dispute reads the payment and its invoice,
\* again when it failed before its write.  Only a single-use invoice has a total to
\* take it off ...
ReversalReads(c) ==
  /\ Stands(c) /\ charge[c].for \in SingleUse
  /\ reversal' = [reversal EXCEPT ![c] =
       [at |-> "read", paid |-> invoice[charge[c].for].amountPaid]]
  /\ UNCHANGED <<invoice, expired, expiring, charge, queueVars>>

\* The total it computes from that reading, and the status.
Reversed(i, paid, c) ==
  LET left == IF paid > NetSettled(c) THEN paid - NetSettled(c) ELSE 0
  IN [invoice[i] EXCEPT
       !.amountPaid = left,
       !.status = IF left = 0 THEN "PENDING"
                  ELSE IF left >= invoice[i].amountRequested THEN "PAID"
                  ELSE "PARTIALLY_PAID"]

\* ... and writes both, whatever they are by then.
ReversalWrites(c) ==
  LET i == charge[c].for
  IN /\ reversal[c].at = "read"
     /\ reversal' = [reversal EXCEPT ![c] = [at |-> "done", paid |-> 0]]
     /\ invoice' = [invoice EXCEPT ![i] = Reversed(i, reversal[c].paid, c)]
     /\ charge' = [d \in Charges |-> [charge[d] EXCEPT !.outdated =
          @ \/ (charge[d].for = i /\ charge[d].at \in {"viewing", "checkout"})]]
     /\ UNCHANGED <<expired, expiring, queueVars>>

Next ==
  \/ QueueStep /\ UNCHANGED invoiceVars
  \/ \E i \in Invoices :
       \/ Create(i)
       \/ CreatePledge(i)
       \/ ExpiryPasses(i)
       \/ SeesExpired(i)
       \/ WritesExpired(i)
  \/ \E c \in Charges, i \in Invoices : OpensPage(c, i)
  \/ \E c \in Charges :
       \/ CheckoutReads(c)
       \/ CheckoutCharges(c)
       \/ CheckoutRefused(c)
       \/ InitiateDeposit(c)
       \/ ReversalReads(c)
       \/ ReversalWrites(c)
  \/ \E j \in Jobs : Inserts(j) \/ Commits(j)

Spec == Init /\ [][Next]_vars

-----------------------------------------------------------------------------
(* Properties *)

Net == [c \in Charges |-> charge[c].net]
Settled(i) == Sum(Net, {c \in Charges : row[c] = "SUCCESS" /\ charge[c].for = i})
\* Where an invoice closes: an open amount closes at the first payment.
ClosesAt(i) == IF Fixed(i) THEN invoice[i].amountRequested ELSE 1

\* Until a payment of it is reversed, a single-use invoice's running total is the
\* sum of its successful transactions, each counted once and net of the fee,
\* through retries, duplicates and concurrent jobs; only what arrives after the
\* target was met is left out.  A link, or a deposit, keeps no total.
NoCreditLostOrDoubled ==
  \A i \in Invoices :
    LET paid == invoice[i].amountPaid
    IN IF i \notin SingleUse THEN paid = 0
       ELSE ~Reduced(i) =>
              paid <= Settled(i) /\ (paid < Settled(i) => paid >= ClosesAt(i))

\* Invoices, links and the event as accounts, and the charges of them.
Accounts == Invoices \cup {Event}
Target(x) == IF x \in SingleUse THEN ClosesAt(x) ELSE 0
Total(x) == IF x \in Invoices THEN invoice[x].amountPaid ELSE 0
Worth(c) == IF gateway[c] = "none" THEN 0 ELSE charge[c].net
Owner(c) == IF gateway[c] = "none" THEN "none" ELSE charge[c].for

State(c) == IF reversal[c].at = "done" THEN "reversed" ELSE ChargeState(c)

Ledger == INSTANCE CreditLedger WITH
  Unowned <- "none",
  target <- [x \in Accounts |-> Target(x)],
  total <- [x \in Accounts |-> Total(x)],
  state <- [c \in Charges |-> State(c)],
  worth <- [c \in Charges |-> Worth(c)],
  owner <- [c \in Charges |-> Owner(c)]

\* Invoices are credited as CreditLedger promises: only a charge the gateway
\* confirmed is recorded, once; a running total moves only then, by the net amount
\* of that charge, or when a recorded charge is reversed, once; and only an invoice
\* that is closed, or has a charge reversed, is passed over, whatever old readings,
\* retries and expiries come between.
ImplementsLedger == Ledger!LedgerSpec

\* getContributorSummary: the single-use invoices by status.
Bucket(status) == {i \in SingleUse : invoice[i].status = status}

\* The contributor summary lists nobody as fully paid who still owes, nobody as
\* having paid a part who paid nothing or all, and nobody as having only pledged
\* who paid: each bucket says what the running totals say, those that a reversal
\* computed from an old reading included.
SummaryTellsTotals ==
  /\ \A i \in Bucket("PAID") : Remaining(i) = 0 /\ invoice[i].amountPaid > 0
  /\ \A i \in Bucket("PARTIALLY_PAID") : Remaining(i) > 0 /\ invoice[i].amountPaid > 0
  /\ \A i \in Bucket("PENDING") : invoice[i].amountPaid = 0

\* However long the pay page was open and whatever was paid meanwhile, the payer
\* of a fixed amount is never charged more than the total it showed, unless a
\* payment was taken off the invoice since: that makes more outstanding, and the
\* checkout charges what is outstanding then.
NeverAboveQuote ==
  \A c \in Charges :
    charge[c].at = "checkout" /\ Fixed(charge[c].for) /\ ~charge[c].outdated
      => Gross(c) <= charge[c].quote

\* Charges of an invoice that are made or about to be, the refused ones left out.
ChargesOf(i) ==
  {c \in Charges : /\ charge[c].for = i /\ charge[c].at \in {"checkout", "charged"}
                   /\ gateway[c] # "failed"}

\* resolveSingleUseChargeAmount: "never more than what's left outstanding".  It
\* takes another charge under way, or a reversal, to overcharge: a checkout that
\* reads an invoice whose other charges are all recorded, and stand, is for no more
\* than its amount leaves, together with everything its payers were ever charged.
AloneNeverOvercharges ==
  [][\A c \in Charges, i \in SingleUse :
       (/\ charge[c].at = "viewing" /\ charge'[c].at = "checkout"
        /\ charge[c].for = i /\ Fixed(i)
        /\ \A d \in ChargesOf(i) : Stands(d))
         => Sum(Net', ChargesOf(i)') <= invoice[i].amountRequested]_vars

\* captureContributorIdentity "never overwrites what the organizer already put
\* there", whichever checkouts run.
OrganizersEmailKept ==
  [][\A i \in Invoices :
       invoice[i].contributorEmail = "given" => invoice'[i].contributorEmail = "given"]_vars

\* "... (or an earlier payer)": a link keeps whichever identity got there first.
FirstEmailKept ==
  [][\A i \in Invoices :
       invoice[i].contributorEmail # "none"
         => invoice'[i].contributorEmail = invoice[i].contributorEmail]_vars

\* The same, of all checkouts: what payers were charged is within the amount.
NeverOvercharged ==
  \A i \in SingleUse :
    Fixed(i) => Sum(Net, {c \in Charges : gateway[c] = "completed" /\ charge[c].for = i})
                  <= invoice[i].amountRequested

=============================================================================

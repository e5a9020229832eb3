-------------------------- MODULE PersonalInvoices --------------------------
(***************************************************************************)
(* One personal invoice: a fixed amount between two people, paid through   *)
(* its own queue (PersonalInvoicesService, PersonalInvoiceWebhook-         *)
(* Processor).  The jobs are those of module WebhookQueue; the credit is   *)
(* not an increment but a conditional update that writes the amount.       *)
(* (Status CANCELLED is read by the service but nothing ever writes it.)   *)
(***************************************************************************)
EXTENDS WebhookQueue, Fees

CONSTANT PersonalAmount  \* amount of the invoice

ASSUME InvoiceAmount == PersonalAmount \in Nat \ {0}

VARIABLES
  personal,  \* status and amountPaid
  lapsed,    \* expiresAt has passed
  lapsing,   \* a visitor has read an expired, open invoice and is to write it
  paying     \* checkouts that have read an open invoice and are to charge it

personalRow == <<personal, lapsed, lapsing, paying>>
personalVars == <<queueVars, personalRow>>

-----------------------------------------------------------------------------
\* grossAmount: what the payer is charged.
PersonalGross == PersonalAmount + PlatformFee(PersonalAmount)

\* Mutant: the fee is credited to the issuer.
PersonalNetGross == PersonalGross

\* netAmountSettled: the verified gross amount less the fee in the metadata.
PersonalNet == PersonalGross - PlatformFee(PersonalAmount)

PersonalTypeOK ==
  /\ QueueTypeOK
  /\ personal \in [status : {"absent", "PENDING", "PAID", "EXPIRED"}, amountPaid : Nat]
  /\ lapsed \in BOOLEAN
  /\ lapsing \in BOOLEAN
  /\ paying \in SUBSET {c \in Charges : gateway[c] = "none"}

PersonalInit ==
  /\ QueueInit
  /\ personal = [status |-> "absent", amountPaid |-> 0]
  /\ lapsed = FALSE
  /\ lapsing = FALSE
  /\ paying = {}

-----------------------------------------------------------------------------
\* create(): by its issuer; assertOrgAccess writes nothing.
CreatePersonal ==
  /\ personal.status = "absent"
  /\ personal' = [status |-> "PENDING", amountPaid |-> 0]
  /\ UNCHANGED <<lapsed, lapsing, paying, queueVars>>

\* initializeCheckout() reads the invoice ...
PayerReads(c) ==
  /\ personal.status \in {"PENDING", "EXPIRED"}
  /\ ~lapsed
  /\ gateway[c] = "none" /\ c \notin paying
  /\ paying' = paying \cup {c}
  /\ UNCHANGED <<personal, lapsed, lapsing, queueVars>>

\* ... and the gateway takes a charge of the whole amount, whatever became of the
\* invoice and however many charges of it are under way ...
PayerCharges(c) ==
  /\ c \in paying
  /\ paying' = paying \ {c}
  /\ StartsCharge(c)
  /\ UNCHANGED <<personal, lapsed, lapsing>>

\* ... or refuses it, or the number is missing or not of an operator here.
PayerRefused(c) ==
  /\ c \in paying
  /\ paying' = paying \ {c}
  /\ UNCHANGED <<personal, lapsed, lapsing, queueVars>>

Lapses ==
  /\ ~lapsed
  /\ personal.status # "absent"
  /\ lapsed' = TRUE
  /\ UNCHANGED <<personal, lapsing, paying, queueVars>>

\* A visitor opens the link (findByToken) or checks out after the expiry: the
\* invoice is read as not paid ...
SeesLapsed ==
  /\ lapsed
  /\ ~lapsing
  /\ personal.status # "PAID"
  /\ lapsing' = TRUE
  /\ UNCHANGED <<personal, lapsed, paying, queueVars>>

\* ... and written EXPIRED in a statement of its own, whatever it is by then.
WritesLapsed ==
  /\ lapsing
  /\ lapsing' = FALSE
  /\ personal' = [personal EXCEPT !.status = "EXPIRED"]
  /\ UNCHANGED <<lapsed, paying, queueVars>>

\* The processor's transaction: the row is inserted ...
InsertsPersonal(j) ==
  /\ InsertsRow(j, "open")
  /\ UNCHANGED personalRow

\* Mutant: the update is conditional on PENDING, so an invoice that expired while
\* its charge was under way is not credited.
CommitsPersonalIfPending(j) ==
  /\ CommitsRow(j, "open")
  /\ \/ /\ job[j].claim = "SUCCESS" /\ personal.status = "PENDING"
        /\ personal' = [status |-> "PAID", amountPaid |-> PersonalNet]
     \/ /\ job[j].claim # "SUCCESS" \/ personal.status # "PENDING"
        /\ UNCHANGED personal
  /\ UNCHANGED <<lapsed, lapsing, paying>>

\* ... and for a SUCCESS the invoice is closed, if it is not PAID by now.
CommitsPersonal(j) ==
  /\ CommitsRow(j, "open")
  /\ \/ /\ job[j].claim = "SUCCESS" /\ personal.status # "PAID"
        /\ personal' = [status |-> "PAID", amountPaid |-> PersonalNet]
     \/ /\ job[j].claim # "SUCCESS" \/ personal.status = "PAID"
        /\ UNCHANGED personal
  /\ UNCHANGED <<lapsed, lapsing, paying>>

WorksPersonal(j) ==
  \/ (SkipsDuplicate(j) \/ Verifies(j) \/ Finishes(j)) /\ UNCHANGED personalRow
  \/ InsertsPersonal(j)
  \/ CommitsPersonal(j)

PersonalNext ==
  \/ QueueStep /\ UNCHANGED personalRow
  \/ CreatePersonal
  \/ \E c \in Charges : PayerReads(c) \/ PayerCharges(c) \/ PayerRefused(c)
  \/ \E j \in Jobs : InsertsPersonal(j) \/ CommitsPersonal(j)
  \/ Lapses
  \/ SeesLapsed
  \/ WritesLapsed

PersonalSpec == PersonalInit /\ [][PersonalNext]_personalVars

\* Queued jobs are worked, or fail their attempt when they cannot go on.
PersonalFairSpec ==
  /\ PersonalSpec
  /\ \A j \in Jobs :
       /\ WF_personalVars(WorksPersonal(j))
       /\ WF_personalVars(WorksPersonal(j) \/ (Retries(j) /\ UNCHANGED personalRow))

-----------------------------------------------------------------------------
(* Properties *)

Payments == {c \in Charges : row[c] = "SUCCESS"}

\* The issuer is credited exactly the invoice's own amount, fee excluded, once a
\* payment was confirmed and never before, however many payments, duplicates and
\* retries there are; PAID says so.
CreditedOnceExactly ==
  /\ personal.amountPaid = (IF Payments = {} THEN 0 ELSE PersonalAmount)
  /\ personal.status = "PAID" => Payments # {}

\* A payer's confirmed charge closes the invoice, unless its job runs out of
\* attempts or an interim status of the charge was recorded before.
ConfirmedChargeCredits ==
  \A j \in Jobs, c \in Charges :
    (/\ job[j].charge = c /\ job[j].at = "waiting" /\ job[j].claim = "SUCCESS"
     /\ gateway[c] = "completed")
      ~> (personal.amountPaid = PersonalAmount \/ job[j].at = "failed" \/ row[c] = "PENDING")

\* The invoice as an account, and its charges.
Account == {"personal"}
PersonalTarget == IF personal.status = "absent" THEN 0 ELSE PersonalAmount
PersonalWorth(c) == IF gateway[c] = "none" THEN 0 ELSE PersonalAmount
PersonalOwner(c) == IF gateway[c] = "none" THEN "none" ELSE "personal"

PersonalCredit == INSTANCE CreditLedger WITH
  Accounts <- Account,
  Unowned <- "none",
  target <- [x \in Account |-> PersonalTarget],
  total <- [x \in Account |-> personal.amountPaid],
  state <- [c \in Charges |-> ChargeState(c)],
  worth <- [c \in Charges |-> PersonalWorth(c)],
  owner <- [c \in Charges |-> PersonalOwner(c)]

\* A personal invoice is credited as CreditLedger promises: in the step that
\* records a confirmed payment of it and no other, by that payment, and a payment
\* is recorded without a credit only when the invoice has its amount already.
PersonalLedger == PersonalCredit!LedgerSpec

\* The processor's "one invoice, one payment".
OneInvoiceOnePayment == Cardinality(Payments) <= 1

=============================================================================

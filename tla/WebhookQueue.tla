---------------------------- MODULE WebhookQueue ----------------------------
(***************************************************************************)
(* Charges, and the queue of webhook jobs that records them.               *)
(*                                                                         *)
(* The two charge processors, WebhookProcessor (contributions) and         *)
(* PersonalInvoiceWebhookProcessor, take a job through the same steps: look*)
(* for a row of the charge, ask the gateway again when the webhook claims  *)
(* SUCCESS, then insert the row and credit the invoice in one database     *)
(* transaction at Postgres' default isolation (Read Committed), then write *)
(* an audit record.  Jobs run concurrently, several workers or instances;  *)
(* BullMQ gives each a number of attempts.  How an invoice is credited     *)
(* belongs to the component that extends this module.                      *)
(*                                                                         *)
(* A charge and its providerReference have one name.                       *)
(***************************************************************************)
EXTENDS Integers, FiniteSets, Providers

CONSTANTS
  Charges,        \* checkout attempts
  NoCharge,       \* what a free place in the queue is about
  Jobs,           \* bound: webhook deliveries that reach the queue
  Attempts,       \* attempts BullMQ gives a job
  Gateway,        \* the gateway of each charge: "PAWAPAY" or "PAYSTACK"
  ReportsInterim  \* gateways send webhooks about charges still under way, too

ASSUME ChargesFinite == IsFiniteSet(Charges) /\ IsFiniteSet(Jobs) /\ NoCharge \notin Charges
ASSUME AttemptsPositive == Attempts \in Nat \ {0}
ASSUME GatewayOfCharge == Gateway \in [Charges -> GatewayNames]
ASSUME Interim == ReportsInterim \in BOOLEAN

VARIABLES
  gateway,   \* what became of each charge
  row,       \* status of the transaction row of each charge
  job        \* the queue: each delivery's charge, claim, progress and attempts

queueVars == <<gateway, row, job>>

\* The statuses of a transaction row, and what a webhook may claim.
Claims == {"SUCCESS", "FAILED"} \cup (IF ReportsInterim THEN {"PENDING"} ELSE {})

\* Progress of a job: "open" and "closed" are inside its database transaction,
\* with an invoice that was read as one to credit or not.
Progress == {"free", "waiting", "verified", "open", "closed", "committed", "done", "failed"}

NoJob == [charge |-> NoCharge, claim |-> "FAILED",
          at |-> "free", tries |-> 0]

QueueTypeOK ==
  /\ gateway \in [Charges -> {"none", "pending", "completed", "failed"}]
  /\ row \in [Charges -> {"none"} \cup Claims]
  /\ job \in [Jobs -> [charge : Charges \cup {NoCharge}, claim : Claims, at : Progress,
                      tries : 0 .. Attempts]]
  /\ \A c \in Charges : row[c] # "none" => gateway[c] # "none"

QueueInit ==
  /\ gateway = [c \in Charges |-> "none"]
  /\ row = [c \in Charges |-> "none"]
  /\ job = [j \in Jobs |-> NoJob]

-----------------------------------------------------------------------------
(* The gateway (external) and the webhook controllers *)

\* initializeCharge with a fresh reference.
StartsCharge(c) ==
  /\ gateway[c] = "none"
  /\ gateway' = [gateway EXCEPT ![c] = "pending"]
  /\ UNCHANGED <<row, job>>

GatewayDecides(c) ==
  /\ gateway[c] = "pending"
  /\ \E o \in {"completed", "failed"} : gateway' = [gateway EXCEPT ![c] = o]
  /\ UNCHANGED <<row, job>>

\* A signed webhook about a charge is parsed, queued and answered.  Its word
\* need not be the last one, and a word of success need not be true: that is
\* what the processor's second look at the gateway is for.
WebhookArrives(j, c) ==
  LET words == ChargeWords[Gateway[c]]
      said == words.completed
                \cup (IF gateway[c] = "failed" THEN words.failed ELSE {})
                \cup (IF ReportsInterim THEN words.pending ELSE {})
  IN /\ job[j].at = "free"
     /\ gateway[c] # "none"
     /\ \E word \in said :
          job' = [job EXCEPT ![j] =
                    [charge |-> c, claim |-> ParseWebhookEvent(Gateway[c], word),
                     at |-> "waiting", tries |-> 0]]
     /\ UNCHANGED <<gateway, row>>

-----------------------------------------------------------------------------
(* process() *)

Moves(j, from, to) ==
  /\ job[j].at = from
  /\ job' = [job EXCEPT ![j].at = to]

\* existing: the charge has a row, the job is done.
SkipsDuplicate(j) ==
  /\ Moves(j, "waiting", "done")
  /\ row[job[j].charge] # "none"
  /\ UNCHANGED <<gateway, row>>

\* verifyTransaction confirms a SUCCESS; other statuses are not verified.
Verifies(j) ==
  LET c == job[j].charge
      Confirmed(word) == VerifyTransaction(Gateway[c], word) = "SUCCESS"
  IN /\ Moves(j, "waiting", "verified")
     /\ row[c] = "none"
     /\ job[j].claim = "SUCCESS" =>
          \E word \in ChargeWords[Gateway[c]][gateway[c]] : Confirmed(word)
     /\ UNCHANGED <<gateway, row>>

\* Mutant: the reference is not unique.
InsertsRowAgain(j, to) ==
  /\ Moves(j, "verified", to)
  /\ UNCHANGED <<gateway, row>>

\* The transaction inserts the row.  A concurrent insert of the same reference
\* waits for the first one to commit or roll back.
InsertsRow(j, to) ==
  LET c == job[j].charge
  IN /\ Moves(j, "verified", to)
     /\ row[c] = "none"
     /\ \A k \in Jobs \ {j} : job[k].at \in {"open", "closed"} => job[k].charge # c
     /\ UNCHANGED <<gateway, row>>

\* The transaction commits: the row is there.
CommitsRow(j, from) ==
  /\ Moves(j, from, "committed")
  /\ row' = [row EXCEPT ![job[j].charge] = job[j].claim]
  /\ UNCHANGED gateway

\* The audit record is written and the job is removed.
Finishes(j) ==
  /\ Moves(j, "committed", "done")
  /\ UNCHANGED <<gateway, row>>

\* The job throws (the database, the gateway, a taken reference, the audit) or
\* its worker stops: what was not committed is rolled back, and BullMQ runs the
\* job again from the start until its attempts are used up.
Retries(j) ==
  /\ job[j].at \in {"waiting", "verified", "open", "closed", "committed"}
  /\ job' = [job EXCEPT ![j].tries = @ + 1,
                        ![j].at = IF job[j].tries + 1 < Attempts THEN "waiting" ELSE "failed"]
  /\ UNCHANGED <<gateway, row>>

\* What concerns the queue alone.
QueueStep ==
  \/ \E c \in Charges : GatewayDecides(c)
  \/ \E j \in Jobs, c \in Charges : WebhookArrives(j, c)
  \/ \E j \in Jobs : SkipsDuplicate(j) \/ Verifies(j) \/ Finishes(j) \/ Retries(j)

\* What a charge is to CreditLedger: its row says that it was recorded, the
\* gateway the rest.
ChargeState(c) ==
  IF row[c] = "SUCCESS" THEN "recorded"
  ELSE [none |-> "free", pending |-> "made", completed |-> "confirmed",
        failed |-> "void"][gateway[c]]

-----------------------------------------------------------------------------
(* Properties *)

\* Nothing the gateway has not confirmed is ever recorded as received.
OnlyConfirmedMoney ==
  \A c \in Charges : row[c] = "SUCCESS" => gateway[c] = "completed"

\* The processors' "redelivered webhook ... is a no-op": a confirmed SUCCESS is
\* only skipped as a duplicate when it was recorded.
SkipsOnlyRedeliveries ==
  [][\A j \in Jobs :
       LET c == job[j].charge
       IN SkipsDuplicate(j) /\ job[j].claim = "SUCCESS" /\ gateway[c] = "completed"
            => row[c] = "SUCCESS"]_queueVars

=============================================================================

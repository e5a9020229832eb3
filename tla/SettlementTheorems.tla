------------------------- MODULE SettlementTheorems --------------------------
(***************************************************************************)
(* What contributions are charged and credited, for any invoices, charges, *)
(* deliveries, retries, amounts and fee.                                   *)
(*                                                                         *)
(* A job inside its transaction is alone with its charge, which has no row *)
(* yet, so each charge is counted once.  Until a payment is reversed, the  *)
(* total of an invoice only grows, so what a job or a payer has read of it *)
(* errs to one side only: an invoice read as closed has met its target for *)
(* good, and what was owed when the page was opened is never less than what*)
(* is owed later.  A reversal leaves the status in step with the total, and*)
(* marks the pages that were open.                                         *)
(*                                                                         *)
(* The lemmas about the queue speak of gateway, row and job alone, so they *)
(* serve its other processor too, PersonalInvoices, in the last section.   *)
(***************************************************************************)
EXTENDS Settlement, PersonalInvoices, MoneyTheorems

Working == {"waiting", "verified", "open", "closed", "committed"}
InTransaction == {"open", "closed"}

\* A job is about a charge that was made and has attempts left while it works;
\* past the second look at the gateway its SUCCESS is one.
JobsKnown ==
  \A j \in Jobs :
    /\ job[j].at # "free" => job[j].charge \in Charges /\ gateway[job[j].charge] # "none"
    /\ job[j].at \in Working => job[j].tries < Attempts
    /\ job[j].at \in {"verified", "open", "closed"} /\ job[j].claim = "SUCCESS" =>
         gateway[job[j].charge] = "completed"

\* A charge has no row while a job is inserting it, and one job does.
AloneInTransaction ==
  \A j \in Jobs : job[j].at \in InTransaction =>
    /\ row[job[j].charge] = "none"
    /\ \A k \in Jobs : job[k].at \in InTransaction /\ job[k].charge = job[j].charge => k = j

QueueInv == QueueTypeOK /\ JobsKnown /\ AloneInTransaction /\ OnlyConfirmedMoney

\* What a job read of the invoice: one it will credit is single-use, and one it
\* will not has met its target, unless a payment of it was reversed.
InvoiceReadsHold ==
  \A j \in Jobs :
    LET i == charge[job[j].charge].for
    IN /\ job[j].at = "open" => job[j].claim = "SUCCESS" /\ i \in SingleUse
       /\ job[j].at = "closed" /\ job[j].claim = "SUCCESS" /\ i \in SingleUse /\ ~Reduced(i)
            => invoice[i].amountPaid >= ClosesAt(i)

\* What a payer or a checkout read of the invoice: the total shown covers what is
\* owed until a reversal outdates it, and an e-mail that was blank was not the organizer's.
CheckoutReadsHold ==
  \A c \in Charges :
    LET i == charge[c].for
    IN /\ i # Event => i \in Invoices /\ invoice[i].status # "absent"
       /\ charge[c].at \in {"viewing", "checkout"} => i # Event
       /\ charge[c].at = "viewing" /\ Fixed(i) /\ ~charge[c].outdated =>
            Quote(i) <= charge[c].quote
       /\ charge[c].at = "checkout" /\ charge[c].blank => invoice[i].contributorEmail # "given"

\* A PAID invoice has met its target.
PaidMeansClosed ==
  \A i \in Invoices : invoice[i].status = "PAID" => invoice[i].amountPaid >= ClosesAt(i)

\* An invoice that has not been issued has no e-mail.
AbsentUnnamed ==
  \A i \in Invoices : invoice[i].status = "absent" => invoice[i].contributorEmail = "none"

IInv ==
  /\ TypeOK
  /\ AbsentUnnamed
  /\ QueueInv
  /\ InvoiceReadsHold
  /\ CheckoutReadsHold
  /\ PaidMeansClosed
  /\ NoCreditLostOrDoubled
  /\ SummaryTellsTotals
  /\ NeverAboveQuote

-----------------------------------------------------------------------------
(* The queue *)

\* What may happen to the queue, whichever component credits.
QueueMoves ==
  \/ QueueStep
  \/ \E c \in Charges : StartsCharge(c)
  \/ \E j \in Jobs : \E to \in InTransaction : InsertsRow(j, to)
  \/ \E j \in Jobs : \E from \in InTransaction : CommitsRow(j, from)
  \/ UNCHANGED queueVars

\* A webhook claims what some row may hold.
LEMMA ClaimsTyped ==
  ASSUME NEW c \in Charges, NEW word,
         \/ word \in ChargeWords[Gateway[c]].completed \cup ChargeWords[Gateway[c]].failed
         \/ ReportsInterim /\ word \in ChargeWords[Gateway[c]].pending
  PROVE  ParseWebhookEvent(Gateway[c], word) \in Claims
<1>1. Gateway[c] \in {"PAWAPAY", "PAYSTACK"}
  BY GatewayOfCharge DEF GatewayNames
<1>2. CASE Gateway[c] = "PAWAPAY"
  BY <1>2 DEF ChargeWords, ParseWebhookEvent, MapDepositStatus, Claims
<1>3. CASE Gateway[c] = "PAYSTACK"
  BY <1>3 DEF ChargeWords, ParseWebhookEvent, MapStatus, PaystackEvent, Claims
<1> QED
  BY <1>1, <1>2, <1>3

\* Only of a charge that went through does a gateway answer that it did.
LEMMA AnswersTrue ==
  ASSUME NEW c \in Charges, NEW standing \in {"pending", "completed", "failed"},
         NEW word \in ChargeWords[Gateway[c]][standing],
         VerifyTransaction(Gateway[c], word) = "SUCCESS"
  PROVE  standing = "completed"
<1>1. Gateway[c] \in {"PAWAPAY", "PAYSTACK"}
  BY GatewayOfCharge DEF GatewayNames
<1>2. CASE Gateway[c] = "PAWAPAY"
  BY <1>2 DEF ChargeWords, VerifyTransaction, MapDepositStatus
<1>3. CASE Gateway[c] = "PAYSTACK"
  BY <1>3 DEF ChargeWords, VerifyTransaction, MapStatus
<1> QED
  BY <1>1, <1>2, <1>3

\* A job's new place.
LEMMA JobMoves ==
  ASSUME QueueTypeOK, NEW j \in Jobs, NEW from, NEW to \in Progress, Moves(j, from, to)
  PROVE  /\ job[j].at = from /\ job'[j].at = to
         /\ job'[j].charge = job[j].charge /\ job'[j].claim = job[j].claim
         /\ job'[j].tries = job[j].tries
         /\ \A k \in Jobs : k # j => job'[k] = job[k]
         /\ job' \in [Jobs -> [charge : Charges \cup {NoCharge}, claim : Claims, at : Progress,
                               tries : 0 .. Attempts]]
BY DEF Moves, QueueTypeOK

\* A delivery takes a free place.
LEMMA JobArrives ==
  ASSUME QueueTypeOK, NEW j \in Jobs, NEW c \in Charges, WebhookArrives(j, c)
  PROVE  /\ \E claim \in Claims :
              job' = [job EXCEPT ![j] =
                        [charge |-> c, claim |-> claim, at |-> "waiting", tries |-> 0]]
         /\ gateway[c] # "none" /\ UNCHANGED <<gateway, row>>
<1>1. PICK word :
        /\ \/ word \in ChargeWords[Gateway[c]].completed \cup ChargeWords[Gateway[c]].failed
           \/ ReportsInterim /\ word \in ChargeWords[Gateway[c]].pending
        /\ job' = [job EXCEPT ![j] =
                     [charge |-> c, claim |-> ParseWebhookEvent(Gateway[c], word),
                      at |-> "waiting", tries |-> 0]]
  BY DEF WebhookArrives
<1>2. ParseWebhookEvent(Gateway[c], word) \in Claims
  BY <1>1, ClaimsTyped
<1> QED
  BY <1>1, <1>2 DEF WebhookArrives

\* A failed attempt puts the job back or ends it.
LEMMA JobRetries ==
  ASSUME QueueTypeOK, JobsKnown, NEW j \in Jobs, Retries(j)
  PROVE  /\ job[j].at \in Working /\ job'[j].at \in {"waiting", "failed"}
         /\ job'[j].charge = job[j].charge /\ job'[j].claim = job[j].claim
         /\ job'[j].at = "waiting" => job'[j].tries < Attempts
         /\ \A k \in Jobs : k # j => job'[k] = job[k]
         /\ job' \in [Jobs -> [charge : Charges \cup {NoCharge}, claim : Claims, at : Progress,
                               tries : 0 .. Attempts]]
         /\ UNCHANGED <<gateway, row>>
<1>1. job[j].at \in Working /\ job[j].tries \in 0 .. Attempts /\ job[j].tries < Attempts
  BY DEF Retries, Working, QueueTypeOK, JobsKnown
<1>2. PICK at \in {"waiting", "failed"} :
        /\ at = IF job[j].tries + 1 < Attempts THEN "waiting" ELSE "failed"
        /\ job' = [job EXCEPT ![j].tries = job[j].tries + 1, ![j].at = at]
  BY DEF Retries
<1>3. job[j].tries + 1 \in 0 .. Attempts
  BY <1>1, AttemptsPositive
<1>4. /\ job'[j].at = at /\ job'[j].tries = job[j].tries + 1
      /\ job'[j].charge = job[j].charge /\ job'[j].claim = job[j].claim
      /\ \A k \in Jobs : k # j => job'[k] = job[k]
  BY <1>2 DEF QueueTypeOK
<1>5. job' \in [Jobs -> [charge : Charges \cup {NoCharge}, claim : Claims, at : Progress,
                         tries : 0 .. Attempts]]
  <2> DEFINE tried == [job EXCEPT ![j].tries = job[j].tries + 1]
  <2>1. tried \in [Jobs -> [charge : Charges \cup {NoCharge}, claim : Claims, at : Progress,
                          tries : 0 .. Attempts]]
    BY <1>3 DEF QueueTypeOK
  <2>2. job' = [tried EXCEPT ![j].at = at]
    BY <1>2
  <2> HIDE DEF tried
  <2> QED
    BY <2>1, <2>2 DEF Progress
<1> QED
  BY <1>1, <1>2, <1>4, <1>5 DEF Retries

\* A job at its second look, or inserting.
LEMMA JobsStart ==
  ASSUME QueueTypeOK, JobsKnown, NEW j \in Jobs, job[j].at # "free"
  PROVE  job[j].charge \in Charges /\ gateway[job[j].charge] # "none"
BY DEF JobsKnown

\* A commit is made by one job inside a transaction.
LEMMA RowCommits ==
  ASSUME QueueInv, NEW j \in Jobs, NEW from \in InTransaction, CommitsRow(j, from)
  PROVE  /\ job[j].at \in InTransaction /\ job'[j].at = "committed"
         /\ job[j].charge \in Charges /\ gateway[job[j].charge] # "none"
         /\ row[job[j].charge] = "none" /\ job[j].claim \in Claims
         /\ job[j].claim = "SUCCESS" => gateway[job[j].charge] = "completed"
         /\ row' \in [Charges -> {"none"} \cup Claims]
         /\ \A c \in Charges : row'[c] = IF c = job[j].charge THEN job[j].claim ELSE row[c]
         /\ gateway' = gateway
<1>1. /\ job[j].at \in InTransaction /\ job'[j].at = "committed" /\ gateway' = gateway
      /\ row' = [row EXCEPT ![job[j].charge] = job[j].claim]
  BY JobMoves DEF CommitsRow, QueueInv, Progress
<1>2. /\ job[j].charge \in Charges /\ gateway[job[j].charge] # "none"
      /\ job[j].claim = "SUCCESS" => gateway[job[j].charge] = "completed"
  BY <1>1 DEF QueueInv, JobsKnown, InTransaction
<1>3. row[job[j].charge] = "none" /\ job[j].claim \in Claims
  BY <1>1 DEF QueueInv, QueueTypeOK, AloneInTransaction
<1> QED
  BY <1>1, <1>2, <1>3 DEF QueueInv, QueueTypeOK

\* An insert joins no other one of the same charge.
LEMMA RowInserts ==
  ASSUME QueueInv, NEW j \in Jobs, NEW to \in InTransaction, InsertsRow(j, to)
  PROVE  /\ job[j].at = "verified" /\ job'[j].at = to
         /\ job'[j].charge = job[j].charge /\ job'[j].claim = job[j].claim
         /\ job'[j].tries = job[j].tries
         /\ \A k \in Jobs : k # j => job'[k] = job[k]
         /\ row[job[j].charge] = "none" /\ UNCHANGED <<gateway, row>>
         /\ \A k \in Jobs : k # j /\ job[k].at \in InTransaction => job[k].charge # job[j].charge
<1>1. to \in Progress /\ QueueTypeOK /\ Moves(j, "verified", to)
  BY DEF InTransaction, Progress, QueueInv, InsertsRow
<1> QED
  BY <1>1, JobMoves DEF InsertsRow, InTransaction

\* The second look lets only a SUCCESS through that is one.
LEMMA JobVerifies ==
  ASSUME QueueTypeOK, JobsKnown, NEW j \in Jobs, Verifies(j)
  PROVE  /\ job[j].at = "waiting" /\ job'[j].at = "verified"
         /\ job'[j].charge = job[j].charge /\ job'[j].claim = job[j].claim
         /\ job'[j].tries = job[j].tries
         /\ \A k \in Jobs : k # j => job'[k] = job[k]
         /\ job[j].claim = "SUCCESS" => gateway[job[j].charge] = "completed"
         /\ UNCHANGED <<gateway, row>>
<1>1. "verified" \in Progress /\ Moves(j, "waiting", "verified")
  BY DEF Progress, Verifies
<1>2. job[j].at = "waiting" /\ job[j].charge \in Charges /\ gateway[job[j].charge] # "none"
  BY <1>1, JobMoves DEF JobsKnown
<1>3. gateway[job[j].charge] \in {"pending", "completed", "failed"}
  BY <1>2 DEF QueueTypeOK
<1>4. job[j].claim = "SUCCESS" => gateway[job[j].charge] = "completed"
  BY <1>2, <1>3, AnswersTrue DEF Verifies
<1> QED
  BY <1>1, <1>4, JobMoves DEF Verifies

\* Every move keeps the queue typed.
LEMMA QueueTypeStep ==
  ASSUME QueueInv, QueueMoves
  PROVE  QueueTypeOK'
<1> DEFINE Placed == job' \in [Jobs -> [charge : Charges \cup {NoCharge}, claim : Claims,
                                        at : Progress, tries : 0 .. Attempts]]
<1> USE DEF QueueInv
<1>1. ASSUME UNCHANGED <<gateway, row>>, Placed
      PROVE  QueueTypeOK'
  BY <1>1 DEF QueueTypeOK
<1>2. ASSUME NEW j \in Jobs, NEW from, NEW to \in Progress, Moves(j, from, to)
      PROVE  Placed
  BY <1>2, JobMoves
<1>3. ASSUME NEW j \in Jobs, NEW c \in Charges, WebhookArrives(j, c)
      PROVE  QueueTypeOK'
  <2>1. Placed
    <3>1. PICK claim \in Claims :
            job' = [job EXCEPT ![j] =
                      [charge |-> c, claim |-> claim, at |-> "waiting", tries |-> 0]]
      BY <1>3, JobArrives
    <3> QED
      BY <3>1, AttemptsPositive DEF QueueTypeOK, Progress
  <2> HIDE DEF Placed
  <2> QED
    BY <1>1, <1>3, <2>1, JobArrives
<1>4. ASSUME NEW j \in Jobs, Retries(j)
      PROVE  QueueTypeOK'
  BY <1>1, <1>4, JobRetries
<1>5. ASSUME NEW j \in Jobs, NEW from \in InTransaction, CommitsRow(j, from)
      PROVE  QueueTypeOK'
  <2>1. Placed
    BY <1>2, <1>5 DEF CommitsRow, Progress
  <2> HIDE DEF Placed
  <2>2. \A c \in Charges : row'[c] # "none" => gateway'[c] # "none"
    BY <1>5, RowCommits DEF QueueTypeOK
  <2> QED
    BY <1>5, <2>1, <2>2, RowCommits DEF QueueTypeOK, Placed
<1>6. ASSUME NEW c \in Charges, GatewayDecides(c) \/ StartsCharge(c)
      PROVE  QueueTypeOK'
  BY <1>6 DEF GatewayDecides, StartsCharge, QueueTypeOK
<1>7. ASSUME NEW j \in Jobs, SkipsDuplicate(j) \/ Verifies(j) \/ Finishes(j)
      PROVE  QueueTypeOK'
  <2>1. Placed
    BY <1>2, <1>7 DEF SkipsDuplicate, Verifies, Finishes, Progress
  <2> QED
    BY <1>1, <1>7, <2>1 DEF SkipsDuplicate, Verifies, Finishes
<1>8. ASSUME NEW j \in Jobs, NEW to \in InTransaction, InsertsRow(j, to)
      PROVE  QueueTypeOK'
  <2>1. Placed
    BY <1>2, <1>8 DEF InsertsRow, InTransaction, Progress
  <2> QED
    BY <1>1, <1>8, <2>1 DEF InsertsRow
<1>9. ASSUME UNCHANGED queueVars
      PROVE  QueueTypeOK'
  BY <1>9 DEF queueVars, QueueTypeOK
<1> QED
  BY <1>3, <1>4, <1>5, <1>6, <1>7, <1>8, <1>9 DEF QueueMoves, QueueStep

\* Every move keeps what is known of the jobs.
LEMMA JobsStep ==
  ASSUME QueueInv, QueueMoves
  PROVE  JobsKnown'
<1> USE DEF QueueInv
<1>1. /\ \A c \in Charges : gateway[c] # "none" => gateway'[c] # "none"
      /\ \A c \in Charges : gateway[c] = "completed" => gateway'[c] = "completed"
  BY DEF QueueMoves, QueueStep, GatewayDecides, StartsCharge, WebhookArrives, SkipsDuplicate,
     Verifies, Finishes, Retries, InsertsRow, CommitsRow, queueVars, QueueTypeOK
<1>2. ASSUME NEW j \in Jobs, \A k \in Jobs : k # j => job'[k] = job[k],
             /\ job'[j].at # "free" =>
                  job'[j].charge \in Charges /\ gateway'[job'[j].charge] # "none"
             /\ job'[j].at \in Working => job'[j].tries < Attempts
             /\ job'[j].at \in {"verified", "open", "closed"} /\ job'[j].claim = "SUCCESS" =>
                  gateway'[job'[j].charge] = "completed"
      PROVE  JobsKnown'
  BY <1>1, <1>2 DEF JobsKnown, Working
<1>3. ASSUME NEW j \in Jobs, NEW c \in Charges, WebhookArrives(j, c)
      PROVE  JobsKnown'
  <2>1. PICK claim \in Claims :
          job' = [job EXCEPT ![j] =
                    [charge |-> c, claim |-> claim, at |-> "waiting", tries |-> 0]]
    BY <1>3, JobArrives
  <2>2. /\ \A k \in Jobs : k # j => job'[k] = job[k]
        /\ job'[j].at = "waiting" /\ job'[j].charge = c /\ job'[j].tries = 0
    BY <2>1 DEF QueueTypeOK
  <2> QED
    BY <1>1, <1>2, <1>3, <2>2, JobArrives, AttemptsPositive
<1>4. ASSUME NEW j \in Jobs, Retries(j)
      PROVE  JobsKnown'
  <2>1. job[j].at # "free"
    BY <1>4, JobRetries DEF Working
  <2> QED
    BY <1>1, <1>2, <1>4, <2>1, JobRetries, JobsStart DEF Working
<1>5. ASSUME NEW j \in Jobs, NEW from \in {"waiting", "open", "closed", "committed"},
             NEW to \in {"done", "committed"}, Moves(j, from, to)
      PROVE  JobsKnown'
  <2>1. to \in Progress
    BY DEF Progress
  <2>2. job[j].charge \in Charges /\ gateway[job[j].charge] # "none" /\ job[j].tries < Attempts
    BY <1>5, <2>1, JobMoves DEF JobsKnown, Working
  <2> QED
    BY <1>1, <1>2, <1>5, <2>1, <2>2, JobMoves
<1>6. ASSUME NEW j \in Jobs, Verifies(j)
      PROVE  JobsKnown'
  <2>1. job[j].charge \in Charges /\ gateway[job[j].charge] # "none" /\ job[j].tries < Attempts
    BY <1>6, JobVerifies DEF JobsKnown, Working
  <2> QED
    BY <1>1, <1>2, <1>6, <2>1, JobVerifies
<1>7. ASSUME NEW j \in Jobs, NEW to \in InTransaction, InsertsRow(j, to)
      PROVE  JobsKnown'
  <2>1. /\ job[j].charge \in Charges /\ gateway[job[j].charge] # "none" /\ job[j].tries < Attempts
        /\ job[j].claim = "SUCCESS" => gateway[job[j].charge] = "completed"
    BY <1>7, RowInserts DEF JobsKnown, Working
  <2> QED
    BY <1>1, <1>2, <1>7, <2>1, RowInserts DEF InTransaction
<1>8. ASSUME NEW j \in Jobs, SkipsDuplicate(j) \/ Finishes(j)
      PROVE  JobsKnown'
  BY <1>5, <1>8 DEF SkipsDuplicate, Finishes
<1>9. ASSUME NEW j \in Jobs, NEW from \in InTransaction, CommitsRow(j, from)
      PROVE  JobsKnown'
  BY <1>5, <1>9 DEF CommitsRow, InTransaction
<1>10. ASSUME job' = job
       PROVE  JobsKnown'
  BY <1>1, <1>10 DEF JobsKnown
<1> QED
  BY <1>3, <1>4, <1>6, <1>7, <1>8, <1>9, <1>10
  DEF QueueMoves, QueueStep, GatewayDecides, StartsCharge, queueVars

\* Every move keeps transactions on one charge apart.
LEMMA AloneStep ==
  ASSUME QueueInv, QueueMoves
  PROVE  AloneInTransaction'
<1> USE DEF QueueInv
<1>1. ASSUME NEW j \in Jobs, \A k \in Jobs : k # j => job'[k] = job[k],
             job'[j].at \notin InTransaction, row' = row
      PROVE  AloneInTransaction'
  BY <1>1 DEF AloneInTransaction
<1>2. ASSUME NEW j \in Jobs, NEW c \in Charges, WebhookArrives(j, c)
      PROVE  AloneInTransaction'
  <2>1. PICK claim \in Claims :
          job' = [job EXCEPT ![j] =
                    [charge |-> c, claim |-> claim, at |-> "waiting", tries |-> 0]]
    BY <1>2, JobArrives
  <2>2. \A k \in Jobs : (k # j => job'[k] = job[k]) /\ job'[j].at = "waiting"
    BY <2>1 DEF QueueTypeOK
  <2> QED
    BY <1>1, <1>2, <2>2, JobArrives DEF InTransaction
<1>3. ASSUME NEW j \in Jobs, Retries(j)
      PROVE  AloneInTransaction'
  BY <1>1, <1>3, JobRetries DEF InTransaction
<1>4. ASSUME NEW j \in Jobs, SkipsDuplicate(j) \/ Verifies(j) \/ Finishes(j)
      PROVE  AloneInTransaction'
  <2>1. "done" \in Progress /\ "verified" \in Progress
    BY DEF Progress
  <2> QED
    BY <1>1, <1>4, <2>1, JobMoves DEF SkipsDuplicate, Verifies, Finishes, InTransaction
<1>5. ASSUME NEW j \in Jobs, NEW to \in InTransaction, InsertsRow(j, to)
      PROVE  AloneInTransaction'
  BY <1>5, RowInserts DEF AloneInTransaction
<1>6. ASSUME NEW j \in Jobs, NEW from \in InTransaction, CommitsRow(j, from)
      PROVE  AloneInTransaction'
  <2>1. \A k \in Jobs : k # j => job'[k] = job[k]
    BY <1>6, JobMoves DEF CommitsRow, Progress
  <2>2. \A k \in Jobs : job'[k].at \in InTransaction =>
          k # j /\ job[k].at \in InTransaction /\ job[k].charge \in Charges
    BY <1>6, <2>1, RowCommits DEF InTransaction, JobsKnown
  <2>3. \A k \in Jobs : job'[k].at \in InTransaction => job[k].charge # job[j].charge
    BY <1>6, <2>2, RowCommits DEF AloneInTransaction
  <2> QED
    BY <1>6, <2>1, <2>2, <2>3, RowCommits DEF AloneInTransaction
<1>7. ASSUME job' = job, row' = row
      PROVE  AloneInTransaction'
  BY <1>7 DEF AloneInTransaction
<1> QED
  BY <1>2, <1>3, <1>4, <1>5, <1>6, <1>7
  DEF QueueMoves, QueueStep, GatewayDecides, StartsCharge, queueVars

\* A row stays what it is.
LEMMA RowsStay ==
  ASSUME QueueInv, QueueMoves, NEW c \in Charges, row[c] # "none"
  PROVE  row'[c] = row[c]
<1>1. ASSUME NEW j \in Jobs, NEW from \in InTransaction, CommitsRow(j, from)
      PROVE  row'[c] = row[c]
  BY <1>1, RowCommits
<1> QED
  BY <1>1 DEF QueueMoves, QueueStep, GatewayDecides, StartsCharge, WebhookArrives,
     SkipsDuplicate, Verifies, Finishes, Retries, InsertsRow, queueVars

\* Every move keeps the queue's invariant: rows are inserted one at a time, and
\* as received only what the gateway confirmed.
LEMMA QueueInductive ==
  ASSUME QueueInv, QueueMoves
  PROVE  QueueInv'
<1>1. OnlyConfirmedMoney'
  <2>1. ASSUME NEW j \in Jobs, NEW from \in InTransaction, CommitsRow(j, from)
        PROVE  OnlyConfirmedMoney'
    BY <2>1, RowCommits DEF QueueInv, OnlyConfirmedMoney
  <2>2. ASSUME row' = row
        PROVE  OnlyConfirmedMoney'
    BY <2>2 DEF QueueInv, QueueTypeOK, OnlyConfirmedMoney, QueueMoves, QueueStep, GatewayDecides,
       StartsCharge, WebhookArrives, SkipsDuplicate, Verifies, Finishes, Retries, InsertsRow,
       CommitsRow, queueVars
  <2> QED
    BY <2>1, <2>2 DEF QueueMoves, QueueStep, GatewayDecides, StartsCharge, WebhookArrives,
       SkipsDuplicate, Verifies, Finishes, Retries, InsertsRow, queueVars
<1> QED
  BY <1>1, QueueTypeStep, JobsStep, AloneStep DEF QueueInv

\* The empty queue is one.
LEMMA QueueStarts == QueueInit => QueueInv
<1>1. QueueInit => QueueTypeOK
  BY AttemptsPositive DEF QueueInit, QueueTypeOK, NoJob, Progress, Claims
<1>2. QueueInit => JobsKnown /\ AloneInTransaction /\ OnlyConfirmedMoney
  BY DEF QueueInit, NoJob, JobsKnown, AloneInTransaction, OnlyConfirmedMoney, Working, InTransaction
<1> QED
  BY <1>1, <1>2 DEF QueueInv

-----------------------------------------------------------------------------
(* Fees *)

\* A quotient is an amount that its divisor fits in.
LEMMA QuotientFits ==
  ASSUME NEW d \in Nat \ {0}, NEW x \in Nat
  PROVE  x \div d \in Nat /\ d * (x \div d) <= x /\ x < d * (x \div d) + d
OBVIOUS

\* Of more there is no smaller quotient.
LEMMA QuotientGrows ==
  ASSUME NEW d \in Nat \ {0}, NEW x \in Nat, NEW y \in Nat, x <= y
  PROVE  x \div d \in Nat /\ x \div d <= y \div d
<1>1. PICK p, q : p = x \div d /\ q = y \div d
  OBVIOUS
<1>2. p \in Nat /\ q \in Nat /\ d * p <= x /\ y < d * q + d
  BY <1>1, QuotientFits
<1>3. d * p < d * (q + 1)
  BY <1>2
<1>4. p < q + 1
  BY <1>2, <1>3
<1> QED
  BY <1>1, <1>2, <1>4

\* A fee is an amount, and a larger base never has a smaller one.
LEMMA FeeGrows ==
  ASSUME NEW a \in Nat, NEW b \in Nat, a <= b
  PROVE  PlatformFee(a) \in Nat /\ PlatformFee(a) <= PlatformFee(b)
<1>1. PICK d \in Nat : b = a + d
  <2>1. b - a \in Nat /\ b = a + (b - a)
    OBVIOUS
  <2> QED
    BY <2>1
<1>2. FeePercent \in Nat /\ 50 * PercentParts \in Nat /\ 100 * PercentParts \in Nat \ {0}
  BY FeeRate
<1>3. a * FeePercent \in Nat /\ d * FeePercent \in Nat
  BY <1>2
<1>4. b * FeePercent = a * FeePercent + d * FeePercent
  BY <1>1, <1>2
<1>5. PICK half, whole, x, y :
        /\ half = 50 * PercentParts /\ whole = 100 * PercentParts
        /\ x = a * FeePercent + half /\ y = b * FeePercent + half
  OBVIOUS
<1>6. x \in Nat /\ y \in Nat /\ x <= y /\ whole \in Nat \ {0}
  BY <1>2, <1>3, <1>4, <1>5
<1>7. x \div whole \in Nat /\ x \div whole <= y \div whole
  BY <1>6, QuotientGrows
<1> QED
  BY <1>5, <1>7 DEF PlatformFee

\* What is left of the charge when the fee comes off is what it was charged for.
LEMMA NetIsNet ==
  ASSUME TypeOK, NEW c \in Charges
  PROVE  NetSettled(c) = charge[c].net /\ charge[c].net \in Nat
<1>1. charge[c].net \in Nat
  BY Amounts DEF TypeOK, ChargeRecord
<1>2. Fee(c) \in Nat
  BY <1>1, FeeGrows DEF Fee
<1> QED
  BY <1>1, <1>2 DEF NetSettled, Gross

\* What is owed is an amount, and not more than was asked for.
LEMMA OwedTyped ==
  ASSUME TypeOK, NEW i \in Invoices
  PROVE  /\ invoice[i].amountRequested \in 0 .. MaxAmount /\ invoice[i].amountPaid \in Nat
         /\ Remaining(i) \in 0 .. invoice[i].amountRequested
         /\ Quote(i) \in Nat
<1>1. invoice[i].amountRequested \in 0 .. MaxAmount /\ invoice[i].amountPaid \in Nat
  BY DEF TypeOK, InvoiceRow
<1>2. Remaining(i) \in 0 .. invoice[i].amountRequested
  BY <1>1, Amounts DEF Remaining
<1>3. Remaining(i) \in Nat
  BY <1>1, <1>2, Amounts
<1>4. PlatformFee(Remaining(i)) \in Nat
  BY <1>3, FeeGrows
<1> QED
  BY <1>1, <1>2, <1>3, <1>4 DEF Quote

-----------------------------------------------------------------------------
(* What each step does to the rows *)

\* The step is one of these.
LEMMA Cases ==
  ASSUME [Next]_vars
  PROVE  \/ QueueStep /\ UNCHANGED invoiceVars
         \/ \E i \in Invoices : Create(i) \/ CreatePledge(i)
         \/ \E i \in Invoices : ExpiryPasses(i)
         \/ \E i \in Invoices : SeesExpired(i)
         \/ \E i \in Invoices : WritesExpired(i)
         \/ \E c \in Charges, i \in Invoices : OpensPage(c, i)
         \/ \E c \in Charges : CheckoutReads(c)
         \/ \E c \in Charges : CheckoutCharges(c)
         \/ \E c \in Charges : CheckoutRefused(c)
         \/ \E c \in Charges : InitiateDeposit(c)
         \/ \E c \in Charges : ReversalReads(c)
         \/ \E c \in Charges : ReversalWrites(c)
         \/ \E j \in Jobs : Inserts(j)
         \/ \E j \in Jobs : Commits(j)
         \/ UNCHANGED vars
BY DEF Next

\* An invoice is issued once, unpaid.
LEMMA Issues ==
  ASSUME TypeOK, NEW i \in Invoices, Create(i) \/ CreatePledge(i)
  PROVE  /\ invoice[i].status = "absent"
         /\ invoice' \in [Invoices -> InvoiceRow]
         /\ invoice'[i].status = "PENDING" /\ invoice'[i].amountPaid = 0
         /\ \A k \in Invoices : k # i => invoice'[k] = invoice[k]
         /\ UNCHANGED <<expired, expiring, charge, reversal, queueVars>>
<1>1. PICK permanent \in BOOLEAN, amount \in 0 .. MaxAmount, email \in {"none", "given"} :
        PersistInvoice(i, permanent, amount, email)
  <2>1. CASE Create(i)
    BY <2>1 DEF Create
  <2>2. CASE CreatePledge(i)
    <3>1. PICK amount \in 1 .. MaxAmount : PersistInvoice(i, FALSE, amount, "none")
      BY <2>2 DEF CreatePledge
    <3>2. amount \in 0 .. MaxAmount
      BY Amounts
    <3> QED
      BY <3>1, <3>2
  <2> QED
    BY <2>1, <2>2
<1> DEFINE issued == [status |-> "PENDING", permanent |-> permanent, amountRequested |-> amount,
                      amountPaid |-> 0, contributorEmail |-> email]
<1>2. issued \in InvoiceRow /\ issued.status = "PENDING" /\ issued.amountPaid = 0
  BY DEF InvoiceRow
<1>3. /\ invoice[i].status = "absent" /\ invoice' = [invoice EXCEPT ![i] = issued]
      /\ UNCHANGED <<expired, expiring, charge, reversal, queueVars>>
  BY <1>1 DEF PersistInvoice
<1> HIDE DEF issued
<1> QED
  BY <1>2, <1>3 DEF TypeOK

\* Only the status says that an invoice is past its expiry.
LEMMA Expires ==
  ASSUME TypeOK, NEW i \in Invoices, WritesExpired(i)
  PROVE  /\ i \in SingleUse /\ invoice' \in [Invoices -> InvoiceRow]
         /\ \A k \in Invoices :
              /\ invoice'[k].status = IF k = i THEN "EXPIRED" ELSE invoice[k].status
              /\ invoice'[k].permanent = invoice[k].permanent
              /\ invoice'[k].amountRequested = invoice[k].amountRequested
              /\ invoice'[k].amountPaid = invoice[k].amountPaid
              /\ invoice'[k].contributorEmail = invoice[k].contributorEmail
<1>1. i \in SingleUse
  BY DEF WritesExpired, TypeOK
<1>2. invoice' \in [Invoices -> InvoiceRow]
  BY DEF WritesExpired, TypeOK, InvoiceRow
<1> QED
  BY <1>1, <1>2 DEF WritesExpired, TypeOK, InvoiceRow

\* A checkout writes an e-mail address and nothing else, where none was.
LEMMA Captures ==
  ASSUME TypeOK, NEW c \in Charges, charge[c].for \in Invoices, CaptureContributorIdentity(c)
  PROVE  /\ invoice' \in [Invoices -> InvoiceRow]
         /\ \A k \in Invoices :
              /\ invoice'[k].status = invoice[k].status
              /\ invoice'[k].permanent = invoice[k].permanent
              /\ invoice'[k].amountRequested = invoice[k].amountRequested
              /\ invoice'[k].amountPaid = invoice[k].amountPaid
              /\ invoice'[k].contributorEmail =
                   IF k = charge[c].for /\ charge[c].blank THEN c ELSE invoice[k].contributorEmail
<1>1. PICK email : /\ invoice' = [invoice EXCEPT ![charge[c].for].contributorEmail = email]
                   /\ email = IF charge[c].blank THEN c
                              ELSE invoice[charge[c].for].contributorEmail
  BY DEF CaptureContributorIdentity
<1>2. email \in {"none", "given"} \cup Charges
  BY <1>1 DEF TypeOK, InvoiceRow
<1>3. invoice' \in [Invoices -> InvoiceRow]
  BY <1>1, <1>2 DEF TypeOK, InvoiceRow
<1> QED
  BY <1>1, <1>3, SMTT(30) DEF TypeOK, InvoiceRow

WithCredit(rows, i, status, paid) ==
  [rows EXCEPT ![i].status = status, ![i].amountPaid = paid]

\* Rows in which one invoice has a new status and a new total.
LEMMA RowCredited ==
  ASSUME NEW rows \in [Invoices -> InvoiceRow], NEW i \in Invoices,
         NEW status \in {"PAID", "PARTIALLY_PAID"}, NEW paid \in Nat
  PROVE  LET after == WithCredit(rows, i, status, paid)
         IN /\ after \in [Invoices -> InvoiceRow]
            /\ \A k \in Invoices :
                 /\ after[k].status = IF k = i THEN status ELSE rows[k].status
                 /\ after[k].amountPaid = IF k = i THEN paid ELSE rows[k].amountPaid
                 /\ after[k].permanent = rows[k].permanent
                 /\ after[k].amountRequested = rows[k].amountRequested
                 /\ after[k].contributorEmail = rows[k].contributorEmail
<1> DEFINE closed == [rows EXCEPT ![i].status = status]
<1>1. closed \in [Invoices -> InvoiceRow]
  BY DEF InvoiceRow
<1>2. WithCredit(rows, i, status, paid) = [closed EXCEPT ![i].amountPaid = paid]
  BY DEF WithCredit
<1> HIDE DEF closed
<1>3. WithCredit(rows, i, status, paid) \in [Invoices -> InvoiceRow]
  BY <1>1, <1>2 DEF InvoiceRow
<1> QED
  BY <1>3 DEF InvoiceRow, WithCredit

\* A credit: the total grows by the net amount, and the status follows.
LEMMA Credits ==
  ASSUME TypeOK, QueueInv, InvoiceReadsHold, CheckoutReadsHold,
         NEW j \in Jobs, Commits(j), job[j].at = "open"
  PROVE  LET c == job[j].charge
             i == charge[c].for
             paid == invoice[i].amountPaid + charge[c].net
         IN /\ c \in Charges /\ i \in SingleUse /\ i \in Invoices
            /\ job[j].claim = "SUCCESS" /\ charge[c].net \in Nat \ {0} /\ paid \in Nat \ {0}
            /\ CommitsRow(j, "open") /\ UNCHANGED <<expired, expiring, charge>>
            /\ invoice' \in [Invoices -> InvoiceRow]
            /\ \A k \in Invoices :
                 /\ invoice'[k].status = IF k = i THEN NextStatus(i, paid) ELSE invoice[k].status
                 /\ invoice'[k].amountPaid = IF k = i THEN paid ELSE invoice[k].amountPaid
                 /\ invoice'[k].permanent = invoice[k].permanent
                 /\ invoice'[k].amountRequested = invoice[k].amountRequested
                 /\ invoice'[k].contributorEmail = invoice[k].contributorEmail
<1> DEFINE c == job[j].charge
           i == charge[c].for
           paid == invoice[i].amountPaid + charge[c].net
           status == NextStatus(i, paid)
<1>1. c \in Charges /\ gateway[c] # "none"
  BY DEF QueueInv, JobsKnown
<1>2. i \in SingleUse /\ job[j].claim = "SUCCESS"
  BY DEF InvoiceReadsHold
<1>3. i \in Invoices
  BY <1>2 DEF SingleUse
<1>4. charge[c].net \in Nat \ {0}
  BY <1>1, Amounts DEF TypeOK, ChargeRecord
<1>5. paid \in Nat \ {0}
  BY <1>3, <1>4, OwedTyped
<1>6. /\ CommitsRow(j, "open") /\ UNCHANGED <<expired, expiring, charge>>
      /\ invoice' = [invoice EXCEPT ![i].status = status, ![i].amountPaid = paid]
  BY <1>1, NetIsNet DEF Commits, CommitsRow, Moves
<1>7. status \in {"PAID", "PARTIALLY_PAID"}
  BY DEF NextStatus
<1> HIDE DEF status, paid, i, c
<1>8. invoice \in [Invoices -> InvoiceRow] /\ paid \in Nat
  BY <1>5 DEF TypeOK
<1>9. /\ invoice' \in [Invoices -> InvoiceRow]
      /\ \A k \in Invoices :
           /\ invoice'[k].status = IF k = i THEN status ELSE invoice[k].status
           /\ invoice'[k].amountPaid = IF k = i THEN paid ELSE invoice[k].amountPaid
           /\ invoice'[k].permanent = invoice[k].permanent
           /\ invoice'[k].amountRequested = invoice[k].amountRequested
           /\ invoice'[k].contributorEmail = invoice[k].contributorEmail
  <2>1. invoice' = WithCredit(invoice, i, status, paid)
    BY <1>6 DEF WithCredit
  <2> QED
    BY <1>3, <1>7, <1>8, <2>1, RowCredited
<1> QED
  BY <1>1, <1>2, <1>3, <1>4, <1>5, <1>6, <1>9 DEF status, paid, i, c

\* The record of a page or checkout after a payment was taken off an invoice.
OutdatedBy(record, i) ==
  [record EXCEPT !.outdated = @ \/ (record.for = i /\ record.at \in {"viewing", "checkout"})]

\* Nothing else of it changes.
LEMMA RecordOutdated ==
  ASSUME NEW record \in ChargeRecord, NEW i
  PROVE  LET after == OutdatedBy(record, i)
         IN /\ after \in ChargeRecord
            /\ after.at = record.at /\ after.for = record.for /\ after.net = record.net
            /\ after.quote = record.quote /\ (after.blank <=> record.blank)
            /\ record.outdated => after.outdated
            /\ record.at \in {"viewing", "checkout"} /\ record.for = i => after.outdated
            /\ record.at \notin {"viewing", "checkout"} => after = record
<1>1. PICK now \in BOOLEAN :
        /\ now <=> record.outdated \/ (record.for = i /\ record.at \in {"viewing", "checkout"})
        /\ OutdatedBy(record, i) = [record EXCEPT !.outdated = now]
  BY DEF OutdatedBy, ChargeRecord
<1>2. /\ OutdatedBy(record, i) \in ChargeRecord
      /\ OutdatedBy(record, i).outdated = now
  BY <1>1 DEF ChargeRecord
<1>3. record.at \notin {"viewing", "checkout"} => OutdatedBy(record, i) = record
  BY <1>1 DEF ChargeRecord
<1> QED
  BY <1>1, <1>2, <1>3 DEF ChargeRecord

\* An invoice gets a status and a total that were computed together.
InStep(i) ==
  LET left == invoice'[i].amountPaid
  IN invoice'[i].status = IF left = 0 THEN "PENDING"
                          ELSE IF left >= invoice'[i].amountRequested THEN "PAID"
                          ELSE "PARTIALLY_PAID"

\* A reversal writes a total and the status that goes with it, and outdates the
\* pages of the invoice.
LEMMA Reverses ==
  ASSUME TypeOK, NEW c \in Charges, ReversalWrites(c)
  PROVE  LET i == charge[c].for
         IN /\ i \in SingleUse /\ i \in Invoices /\ row[c] = "SUCCESS"
            /\ reversal[c].at = "read" /\ reversal' \in [Charges -> ReversalRecord]
            /\ \A d \in Charges :
                 reversal'[d].at = IF d = c THEN "done" ELSE reversal[d].at
            /\ invoice' \in [Invoices -> InvoiceRow] /\ InStep(i)
            /\ invoice'[i].permanent = invoice[i].permanent
            /\ invoice'[i].amountRequested = invoice[i].amountRequested
            /\ invoice'[i].contributorEmail = invoice[i].contributorEmail
            /\ \A k \in Invoices : k # i => invoice'[k] = invoice[k]
            /\ charge' \in [Charges -> ChargeRecord]
            /\ \A d \in Charges : charge'[d] = OutdatedBy(charge[d], i)
            /\ UNCHANGED <<expired, expiring, queueVars>>
<1> DEFINE i == charge[c].for
           paid == reversal[c].paid
           left == IF paid > NetSettled(c) THEN paid - NetSettled(c) ELSE 0
           status == IF left = 0 THEN "PENDING"
                     ELSE IF left >= invoice[i].amountRequested THEN "PAID"
                     ELSE "PARTIALLY_PAID"
<1>1. reversal[c].at = "read" /\ row[c] = "SUCCESS" /\ i \in SingleUse /\ i \in Invoices
  BY DEF ReversalWrites, TypeOK, SingleUse
<1>2. left \in Nat
  <2>1. paid \in Nat /\ NetSettled(c) \in Nat
    BY NetIsNet DEF TypeOK, ReversalRecord
  <2> QED
    BY <2>1
<1>3. status \in {"PENDING", "PAID", "PARTIALLY_PAID"}
  OBVIOUS
<1>4. invoice' = [invoice EXCEPT ![i] = [invoice[i] EXCEPT !.amountPaid = left, !.status = status]]
  BY DEF ReversalWrites, Reversed
<1>5. /\ reversal' \in [Charges -> ReversalRecord]
      /\ \A d \in Charges : reversal'[d].at = IF d = c THEN "done" ELSE reversal[d].at
  BY DEF ReversalWrites, TypeOK, ReversalRecord
<1>6. /\ charge' = [d \in Charges |-> OutdatedBy(charge[d], i)]
      /\ UNCHANGED <<expired, expiring, queueVars>>
  BY DEF ReversalWrites, OutdatedBy
<1>7. /\ charge' \in [Charges -> ChargeRecord]
      /\ \A d \in Charges : charge'[d] = OutdatedBy(charge[d], i)
  BY <1>6, RecordOutdated DEF TypeOK
<1> HIDE DEF status, left, i
<1>8. PICK new : new = [invoice[i] EXCEPT !.amountPaid = left, !.status = status]
  OBVIOUS
<1>9. /\ new \in InvoiceRow /\ new.amountPaid = left /\ new.status = status
      /\ new.permanent = invoice[i].permanent
      /\ new.amountRequested = invoice[i].amountRequested
      /\ new.contributorEmail = invoice[i].contributorEmail
  <2>1. invoice[i] \in InvoiceRow
    BY <1>1 DEF TypeOK
  <2> QED
    BY <1>2, <1>3, <1>8, <2>1 DEF InvoiceRow
<1>10. /\ invoice' \in [Invoices -> InvoiceRow] /\ invoice'[i] = new
       /\ \A k \in Invoices : k # i => invoice'[k] = invoice[k]
  BY <1>1, <1>4, <1>8, <1>9 DEF TypeOK
<1>11. InStep(i)
  BY <1>9, <1>10 DEF InStep, status
<1> QED
  BY <1>1, <1>5, <1>6, <1>7, <1>9, <1>10, <1>11 DEF i

ReadBy(charges, c, amount, blank) ==
  [charges EXCEPT ![c].at = "checkout", ![c].net = amount, ![c].blank = blank]
MadeOf(charges, c) ==
  [charges EXCEPT ![c].at = "charged", ![c].quote = 0, ![c].blank = FALSE,
                  ![c].outdated = FALSE]

\* A checkout that has decided what to charge.
LEMMA CheckoutRecord ==
  ASSUME NEW charges \in [Charges -> ChargeRecord], NEW c \in Charges,
         NEW amount \in 0 .. MaxAmount, NEW blank \in BOOLEAN
  PROVE  LET after == ReadBy(charges, c, amount, blank)
         IN /\ after \in [Charges -> ChargeRecord]
            /\ \A d \in Charges : d # c => after[d] = charges[d]
            /\ after[c].at = "checkout" /\ after[c].net = amount /\ after[c].for = charges[c].for
            /\ after[c].quote = charges[c].quote /\ (after[c].blank <=> blank)
            /\ after[c].outdated = charges[c].outdated
<1> DEFINE moved == [charges EXCEPT ![c].at = "checkout"]
           priced == [moved EXCEPT ![c].net = amount]
<1>1. moved \in [Charges -> ChargeRecord]
  BY DEF ChargeRecord
<1> HIDE DEF moved
<1>2. priced \in [Charges -> ChargeRecord]
  BY <1>1 DEF ChargeRecord
<1> HIDE DEF priced
<1>3. [priced EXCEPT ![c].blank = blank] \in [Charges -> ChargeRecord]
  BY <1>2 DEF ChargeRecord
<1>4. ReadBy(charges, c, amount, blank) = [priced EXCEPT ![c].blank = blank]
  BY DEF ReadBy, priced, moved
<1> QED
  BY <1>3, <1>4 DEF ChargeRecord, ReadBy

\* A charge the gateway has taken.
LEMMA ChargedRecord ==
  ASSUME NEW charges \in [Charges -> ChargeRecord], NEW c \in Charges
  PROVE  LET after == MadeOf(charges, c)
         IN /\ after \in [Charges -> ChargeRecord]
            /\ \A d \in Charges : d # c => after[d] = charges[d]
            /\ after[c].at = "charged" /\ after[c].net = charges[c].net
            /\ after[c].for = charges[c].for
<1> DEFINE moved == [charges EXCEPT ![c].at = "charged"]
           shown == [moved EXCEPT ![c].quote = 0]
<1>1. moved \in [Charges -> ChargeRecord]
  BY DEF ChargeRecord
<1> HIDE DEF moved
<1>2. shown \in [Charges -> ChargeRecord]
  BY <1>1 DEF ChargeRecord
<1> HIDE DEF shown
<1> DEFINE cleared == [shown EXCEPT ![c].blank = FALSE]
<1>3. cleared \in [Charges -> ChargeRecord]
  BY <1>2 DEF ChargeRecord
<1> HIDE DEF cleared
<1>4. [cleared EXCEPT ![c].outdated = FALSE] \in [Charges -> ChargeRecord]
  BY <1>3 DEF ChargeRecord
<1>5. MadeOf(charges, c) = [cleared EXCEPT ![c].outdated = FALSE]
  BY DEF MadeOf, cleared, shown, moved
<1> QED
  BY <1>4, <1>5 DEF ChargeRecord, MadeOf

\* What may be charged: of a fixed amount, no more than is still owed.
LEMMA AmountsCharged ==
  ASSUME TypeOK, NEW i \in Invoices, NEW amount \in ChargeAmounts(i)
  PROVE  /\ amount \in 1 .. MaxAmount
         /\ Fixed(i) /\ i \in SingleUse => amount <= Remaining(i)
         /\ Fixed(i) /\ i \notin SingleUse => amount = invoice[i].amountRequested
<1>1. /\ invoice[i].amountRequested \in 0 .. MaxAmount
      /\ Remaining(i) \in 0 .. invoice[i].amountRequested /\ MaxAmount \in Nat
  BY OwedTyped, Amounts
<1>2. CASE ~Fixed(i)
  BY <1>2 DEF ChargeAmounts
<1>3. CASE Fixed(i) /\ i \in SingleUse
  BY <1>1, <1>3 DEF ChargeAmounts
<1>4. CASE Fixed(i) /\ i \notin SingleUse
  BY <1>1, <1>4 DEF ChargeAmounts, Fixed
<1> QED
  BY <1>2, <1>3, <1>4

\* The page shows the total of what is owed.
LEMMA PageOpens ==
  ASSUME TypeOK, NEW c \in Charges, NEW i \in Invoices, OpensPage(c, i)
  PROVE  /\ charge' \in [Charges -> ChargeRecord]
         /\ \A d \in Charges : d # c => charge'[d] = charge[d]
         /\ charge'[c].at = "viewing" /\ charge'[c].for = i /\ ~charge'[c].blank
         /\ Fixed(i) => charge'[c].quote = Quote(i)
         /\ charge[c].at = "idle" /\ invoice[i].status # "absent"
         /\ UNCHANGED <<invoice, expired, expiring, queueVars>>
<1>1. PICK quote : /\ quote = IF Fixed(i) THEN Quote(i) ELSE 0
                   /\ charge' = [charge EXCEPT ![c] = [at |-> "viewing", for |-> i, net |-> 0,
                                                       blank |-> FALSE, outdated |-> FALSE,
                                                       quote |-> quote]]
  BY DEF OpensPage
<1>2. quote \in Nat
  BY <1>1, OwedTyped
<1> QED
  BY <1>1, <1>2, Amounts DEF OpensPage, TypeOK, ChargeRecord

\* A checkout charges what it may, by the invoice as it is.
LEMMA CheckoutDecides ==
  ASSUME TypeOK, CheckoutReadsHold, NEW c \in Charges, CheckoutReads(c)
  PROVE  /\ charge' \in [Charges -> ChargeRecord]
         /\ \A d \in Charges : d # c => charge'[d] = charge[d]
         /\ charge[c].at = "viewing" /\ charge[c].for \in Invoices /\ charge[c].for # Event
         /\ charge'[c].at = "checkout" /\ charge'[c].for = charge[c].for
         /\ charge'[c].quote = charge[c].quote
         /\ charge'[c].net \in ChargeAmounts(charge[c].for) /\ charge'[c].net \in 1 .. MaxAmount
         /\ charge'[c].blank <=> invoice[charge[c].for].contributorEmail = "none"
         /\ charge'[c].outdated = charge[c].outdated
         /\ UNCHANGED <<invoice, expired, expiring, queueVars>>
<1>1. charge[c].at = "viewing" /\ charge[c].for \in Invoices /\ charge[c].for # Event
  BY DEF CheckoutReads, CheckoutReadsHold
<1>2. PICK amount \in ChargeAmounts(charge[c].for), blank \in BOOLEAN :
        /\ blank <=> invoice[charge[c].for].contributorEmail = "none"
        /\ charge' = ReadBy(charge, c, amount, blank)
  BY DEF CheckoutReads, ReadBy
<1>3. amount \in 1 .. MaxAmount /\ amount \in 0 .. MaxAmount
  BY <1>1, AmountsCharged, Amounts
<1>4. charge \in [Charges -> ChargeRecord]
  BY DEF TypeOK
<1>5. /\ charge' \in [Charges -> ChargeRecord]
      /\ \A d \in Charges : d # c => charge'[d] = charge[d]
      /\ charge'[c].at = "checkout" /\ charge'[c].net = amount
      /\ charge'[c].for = charge[c].for
      /\ charge'[c].quote = charge[c].quote /\ (charge'[c].blank <=> blank)
      /\ charge'[c].outdated = charge[c].outdated
  BY <1>2, <1>3, <1>4, CheckoutRecord
<1>6. UNCHANGED <<invoice, expired, expiring, queueVars>>
  BY DEF CheckoutReads
<1> QED
  BY <1>1, <1>2, <1>3, <1>5, <1>6

\* A charge keeps its amount and what it is for.
LEMMA CheckoutEnds ==
  ASSUME TypeOK, CheckoutReadsHold, NEW c \in Charges, CheckoutCharges(c) \/ CheckoutRefused(c)
  PROVE  /\ charge' \in [Charges -> ChargeRecord]
         /\ \A d \in Charges : d # c => charge'[d] = charge[d]
         /\ charge[c].at = "checkout" /\ charge[c].for \in Invoices
         /\ CheckoutCharges(c) => /\ charge'[c].at = "charged" /\ charge'[c].net = charge[c].net
                                  /\ charge'[c].for = charge[c].for
         /\ CheckoutRefused(c) => charge'[c] = NoCheckout
         /\ CaptureContributorIdentity(c) /\ UNCHANGED <<expired, expiring>>
<1>1. charge[c].at = "checkout" /\ charge[c].for \in Invoices /\ CaptureContributorIdentity(c)
  BY DEF CheckoutCharges, CheckoutRefused, CheckoutReadsHold
<1>2. CASE CheckoutCharges(c)
  <2>1. charge' = MadeOf(charge, c) /\ UNCHANGED <<expired, expiring>>
    BY <1>2 DEF CheckoutCharges, MadeOf
  <2>2. ~CheckoutRefused(c)
    BY <1>1, <2>1, ChargedRecord DEF CheckoutRefused, NoCheckout, TypeOK
  <2> QED
    BY <1>1, <2>1, <2>2, ChargedRecord DEF TypeOK
<1>3. CASE CheckoutRefused(c)
  <2>1. charge' = [charge EXCEPT ![c] = NoCheckout] /\ UNCHANGED <<expired, expiring>>
    BY <1>3 DEF CheckoutRefused
  <2>2. NoCheckout \in ChargeRecord /\ NoCheckout.at = "idle"
    BY Amounts DEF NoCheckout, ChargeRecord
  <2>3. charge'[c] = NoCheckout
    BY <2>1 DEF TypeOK
  <2>4. ~CheckoutCharges(c)
    <3>1. CheckoutCharges(c) => charge' = MadeOf(charge, c)
      BY DEF CheckoutCharges, MadeOf
    <3>2. CheckoutCharges(c) => charge'[c].at = "charged"
      BY <3>1, ChargedRecord DEF TypeOK
    <3> QED
      BY <2>2, <2>3, <3>2
  <2> QED
    BY <1>1, <2>1, <2>2, <2>3, <2>4 DEF TypeOK
<1> QED
  BY <1>2, <1>3

\* A deposit is charged for the event.
LEMMA DepositMade ==
  ASSUME TypeOK, NEW c \in Charges, InitiateDeposit(c)
  PROVE  /\ charge' \in [Charges -> ChargeRecord]
         /\ \A d \in Charges : d # c => charge'[d] = charge[d]
         /\ charge[c].at = "idle" /\ charge'[c].at = "charged"
         /\ charge'[c].for = charge[c].for /\ charge'[c].net > 0
         /\ StartsCharge(c) /\ UNCHANGED <<invoice, expired, expiring>>
<1>1. PICK amount \in 1 .. MaxAmount :
        charge' = [charge EXCEPT ![c].at = "charged", ![c].net = amount]
  BY DEF InitiateDeposit
<1> DEFINE moved == [charge EXCEPT ![c].at = "charged"]
<1>2. moved \in [Charges -> ChargeRecord]
  BY DEF TypeOK, ChargeRecord
<1>3. charge' = [moved EXCEPT ![c].net = amount]
  BY <1>1
<1>4. amount \in 0 .. MaxAmount /\ amount > 0
  BY Amounts
<1> HIDE DEF moved
<1>5. charge' \in [Charges -> ChargeRecord]
  BY <1>2, <1>3, <1>4 DEF ChargeRecord
<1> QED
  BY <1>1, <1>4, <1>5 DEF InitiateDeposit, TypeOK, ChargeRecord

-----------------------------------------------------------------------------
(* What is kept *)

\* Every step is a move of the queue, or leaves it alone.
LEMMA StepMovesQueue ==
  ASSUME [Next]_vars
  PROVE  QueueMoves
<1>1. ASSUME NEW j \in Jobs, Inserts(j)
      PROVE  QueueMoves
  BY <1>1 DEF Inserts, QueueMoves, InTransaction
<1>2. ASSUME NEW j \in Jobs, Commits(j)
      PROVE  QueueMoves
  BY <1>2 DEF Commits, QueueMoves, InTransaction
<1>3. ASSUME NEW c \in Charges, CheckoutCharges(c) \/ InitiateDeposit(c)
      PROVE  QueueMoves
  BY <1>3 DEF CheckoutCharges, InitiateDeposit, QueueMoves
<1>4. ASSUME UNCHANGED queueVars
      PROVE  QueueMoves
  BY <1>4 DEF QueueMoves
<1>5. ASSUME QueueStep
      PROVE  QueueMoves
  BY <1>5 DEF QueueMoves
<1> QED
  BY <1>1, <1>2, <1>3, <1>4, <1>5, Cases
  DEF Create, CreatePledge, PersistInvoice, ExpiryPasses, SeesExpired, WritesExpired,
      OpensPage,
      CheckoutReads, CheckoutRefused, ReversalReads, ReversalWrites, vars

\* A commit without a credit.
LEMMA CommitsPlain ==
  ASSUME NEW j \in Jobs, Commits(j), job[j].at # "open"
  PROVE  CommitsRow(j, "closed") /\ UNCHANGED invoiceVars
BY DEF Commits, CommitsRow, Moves, invoiceVars

\* A payment of the invoice is taken off it.
TakenOff(i) == \E c \in Charges : ReversalWrites(c) /\ charge[c].for = i

\* Issued invoices stay what they are, and their totals shrink by a reversal only.
LEMMA InvoicesKept ==
  ASSUME TypeOK, QueueInv, InvoiceReadsHold, CheckoutReadsHold, [Next]_vars
  PROVE  /\ invoice' \in [Invoices -> InvoiceRow]
         /\ \A i \in Invoices : invoice[i].status # "absent" =>
              /\ invoice'[i].status # "absent"
              /\ invoice'[i].permanent = invoice[i].permanent
              /\ invoice'[i].amountRequested = invoice[i].amountRequested
              /\ invoice'[i].amountPaid >= invoice[i].amountPaid \/ TakenOff(i)
<1> DEFINE Kept ==
      /\ invoice' \in [Invoices -> InvoiceRow]
      /\ \A i \in Invoices : invoice[i].status # "absent" =>
           /\ invoice'[i].status # "absent"
           /\ invoice'[i].permanent = invoice[i].permanent
           /\ invoice'[i].amountRequested = invoice[i].amountRequested
           /\ invoice'[i].amountPaid >= invoice[i].amountPaid \/ TakenOff(i)
<1>1. \A i \in Invoices : invoice[i].amountPaid \in Nat
  BY OwedTyped
<1>2. ASSUME NEW i \in Invoices, Create(i) \/ CreatePledge(i)
      PROVE  Kept
  BY <1>1, <1>2, Issues
<1>3. ASSUME NEW i \in Invoices, WritesExpired(i)
      PROVE  Kept
  BY <1>1, <1>3, Expires
<1>4. ASSUME NEW c \in Charges, CheckoutCharges(c) \/ CheckoutRefused(c)
      PROVE  Kept
  <2>1. charge[c].for \in Invoices /\ CaptureContributorIdentity(c)
    BY <1>4, CheckoutEnds
  <2> QED
    BY <1>1, <2>1, Captures
<1>5. ASSUME NEW j \in Jobs, Commits(j), job[j].at = "open"
      PROVE  Kept
  <2> DEFINE i == charge[job[j].charge].for
             paid == invoice[i].amountPaid + charge[job[j].charge].net
  <2>1. /\ i \in Invoices /\ charge[job[j].charge].net \in Nat
        /\ invoice' \in [Invoices -> InvoiceRow]
        /\ \A k \in Invoices :
             /\ invoice'[k].status = IF k = i THEN NextStatus(i, paid) ELSE invoice[k].status
             /\ invoice'[k].amountPaid = IF k = i THEN paid ELSE invoice[k].amountPaid
             /\ invoice'[k].permanent = invoice[k].permanent
             /\ invoice'[k].amountRequested = invoice[k].amountRequested
    BY <1>5, Credits
  <2>2. NextStatus(i, paid) # "absent"
    BY DEF NextStatus
  <2>3. paid >= invoice[i].amountPaid
    BY <1>1, <2>1
  <2> HIDE DEF paid, i
  <2> QED
    BY <1>1, <2>1, <2>2, <2>3
<1>6. ASSUME invoice' = invoice
      PROVE  Kept
  BY <1>1, <1>6 DEF TypeOK
<1>7. ASSUME NEW j \in Jobs, Commits(j)
      PROVE  Kept
  BY <1>5, <1>6, <1>7, CommitsPlain DEF invoiceVars
<1>9. ASSUME NEW c \in Charges, ReversalWrites(c)
      PROVE  Kept
  <2>1. \A i \in Invoices : InStep(i) => invoice'[i].status # "absent"
    BY DEF InStep
  <2> QED
    BY <1>1, <1>9, <2>1, Reverses DEF TakenOff
<1> HIDE DEF Kept
<1>8. Kept
  BY <1>2, <1>3, <1>4, <1>6, <1>7, <1>9, Cases
  DEF ExpiryPasses, SeesExpired, ReversalReads, OpensPage, CheckoutReads,
      InitiateDeposit, Inserts, vars,
      invoiceVars
<1> QED
  BY <1>8 DEF Kept

\* A single-use invoice stays one, with its amount and where it closes.
LEMMA ShapesKept ==
  ASSUME TypeOK, QueueInv, InvoiceReadsHold, CheckoutReadsHold, [Next]_vars
  PROVE  /\ SingleUse \subseteq SingleUse'
         /\ \A i \in Invoices : invoice[i].status # "absent" =>
              /\ i \in SingleUse' <=> i \in SingleUse
              /\ Fixed(i)' <=> Fixed(i)
              /\ ClosesAt(i)' = ClosesAt(i) /\ ClosesAt(i) \in Nat \ {0}
<1>1. \A i \in Invoices : invoice[i].status # "absent" =>
        /\ i \in SingleUse' <=> i \in SingleUse
        /\ Fixed(i)' <=> Fixed(i)
        /\ ClosesAt(i)' = ClosesAt(i) /\ ClosesAt(i) \in Nat \ {0}
  <2> TAKE i \in Invoices
  <2> HAVE invoice[i].status # "absent"
  <2>1. /\ invoice'[i].status # "absent" /\ invoice'[i].permanent = invoice[i].permanent
        /\ invoice'[i].amountRequested = invoice[i].amountRequested
        /\ invoice[i].amountRequested \in 0 .. MaxAmount
    BY InvoicesKept, OwedTyped
  <2> QED
    BY <2>1, Amounts DEF SingleUse, Fixed, ClosesAt
<1> QED
  BY <1>1 DEF SingleUse

\* A charge the gateway has taken is not touched again.
LEMMA ChargesKept ==
  ASSUME TypeOK, CheckoutReadsHold, [Next]_vars
  PROVE  /\ charge' \in [Charges -> ChargeRecord]
         /\ \A c \in Charges : gateway[c] # "none" => charge'[c] = charge[c]
<1> DEFINE Kept == /\ charge' \in [Charges -> ChargeRecord]
                   /\ \A c \in Charges : gateway[c] # "none" => charge'[c] = charge[c]
<1>1. \A c \in Charges : gateway[c] # "none" => charge[c].at = "charged"
  BY DEF TypeOK
<1>2. ASSUME NEW c \in Charges, NEW i \in Invoices, OpensPage(c, i)
      PROVE  Kept
  BY <1>1, <1>2, PageOpens
<1>3. ASSUME NEW c \in Charges, CheckoutReads(c)
      PROVE  Kept
  BY <1>1, <1>3, CheckoutDecides
<1>4. ASSUME NEW c \in Charges, CheckoutCharges(c) \/ CheckoutRefused(c)
      PROVE  Kept
  BY <1>1, <1>4, CheckoutEnds
<1>5. ASSUME NEW c \in Charges, InitiateDeposit(c)
      PROVE  Kept
  BY <1>1, <1>5, DepositMade
<1>6. ASSUME charge' = charge
      PROVE  Kept
  BY <1>6 DEF TypeOK
<1>8. ASSUME NEW c \in Charges, ReversalWrites(c)
      PROVE  Kept
  BY <1>1, <1>8, Reverses, RecordOutdated DEF TypeOK
<1> HIDE DEF Kept
<1>7. Kept
  BY <1>2, <1>3, <1>4, <1>5, <1>6, <1>8, Cases
  DEF Create, CreatePledge, PersistInvoice, ExpiryPasses, SeesExpired, ReversalReads,
      WritesExpired, Inserts,
      Commits, vars, invoiceVars
<1> QED
  BY <1>7 DEF Kept

IssuedNow(i) ==
  /\ invoice[i].status = "absent"
  /\ invoice'[i].status = "PENDING" /\ invoice'[i].amountPaid = 0
StaysAsPaid(i) ==
  /\ invoice'[i].amountPaid = invoice[i].amountPaid
  /\ invoice'[i].amountRequested = invoice[i].amountRequested
  /\ invoice'[i].permanent = invoice[i].permanent
  /\ \/ invoice'[i].status = invoice[i].status
     \/ invoice[i].status # "absent" /\ invoice'[i].status = "EXPIRED"
CreditedNow(i) ==
  \E j \in Jobs : Commits(j) /\ job[j].at = "open" /\ charge[job[j].charge].for = i

\* An invoice is issued, credited, has a payment taken off, or keeps its total.
LEMMA InvoiceCases ==
  ASSUME TypeOK, QueueInv, InvoiceReadsHold, CheckoutReadsHold, [Next]_vars
  PROVE  \A i \in Invoices : IssuedNow(i) \/ StaysAsPaid(i) \/ CreditedNow(i) \/ TakenOff(i)
<1> DEFINE Told ==
      \A i \in Invoices : IssuedNow(i) \/ StaysAsPaid(i) \/ CreditedNow(i) \/ TakenOff(i)
<1>1. ASSUME NEW i \in Invoices, Create(i) \/ CreatePledge(i)
      PROVE  Told
  BY <1>1, Issues DEF IssuedNow, StaysAsPaid
<1>2. ASSUME NEW i \in Invoices, WritesExpired(i)
      PROVE  Told
  BY <1>2, Expires DEF StaysAsPaid, SingleUse
<1>3. ASSUME NEW c \in Charges, CheckoutCharges(c) \/ CheckoutRefused(c)
      PROVE  Told
  <2>1. charge[c].for \in Invoices /\ CaptureContributorIdentity(c)
    BY <1>3, CheckoutEnds
  <2> QED
    BY <2>1, Captures DEF StaysAsPaid
<1>4. ASSUME invoice' = invoice
      PROVE  Told
  BY <1>4 DEF StaysAsPaid
<1>5. ASSUME NEW j \in Jobs, Commits(j)
      PROVE  Told
  <2>1. CASE job[j].at = "open"
    <3> TAKE i \in Invoices
    <3>1. CASE i = charge[job[j].charge].for
      BY <1>5, <2>1, <3>1 DEF CreditedNow
    <3>2. CASE i # charge[job[j].charge].for
      BY <1>5, <2>1, <3>2, Credits DEF StaysAsPaid
    <3> QED
      BY <3>1, <3>2
  <2>2. CASE job[j].at # "open"
    BY <1>4, <1>5, <2>2, CommitsPlain DEF invoiceVars
  <2> QED
    BY <2>1, <2>2
<1>7. ASSUME NEW c \in Charges, ReversalWrites(c)
      PROVE  Told
  BY <1>7, Reverses DEF StaysAsPaid, TakenOff
<1> HIDE DEF Told
<1>6. Told
  BY <1>1, <1>2, <1>3, <1>4, <1>5, <1>7, Cases
  DEF ExpiryPasses, SeesExpired, ReversalReads, OpensPage, CheckoutReads,
      InitiateDeposit, Inserts, vars,
      invoiceVars
<1> QED
  BY <1>6 DEF Told

\* A job inside its transaction is there as it was, or has just read the invoice.
LEMMA TransactionsStay ==
  ASSUME QueueInv, [Next]_vars, NEW j \in Jobs, job'[j].at \in InTransaction, ~Inserts(j)
  PROVE  job'[j] = job[j]
<1> USE DEF QueueInv, InTransaction
<1>1. ASSUME NEW k \in Jobs, NEW from, NEW to \in Progress \ InTransaction, Moves(k, from, to)
      PROVE  job'[j] = job[j]
  BY <1>1, JobMoves
<1>2. ASSUME NEW k \in Jobs, NEW c \in Charges, WebhookArrives(k, c)
      PROVE  job'[j] = job[j]
  <2>1. PICK claim \in Claims :
          job' = [job EXCEPT ![k] =
                    [charge |-> c, claim |-> claim, at |-> "waiting", tries |-> 0]]
    BY <1>2, JobArrives
  <2> QED
    BY <2>1 DEF QueueTypeOK
<1>3. ASSUME NEW k \in Jobs, Retries(k)
      PROVE  job'[j] = job[j]
  BY <1>3, JobRetries
<1>4. ASSUME QueueStep
      PROVE  job'[j] = job[j]
  BY <1>1, <1>2, <1>3, <1>4
  DEF QueueStep, GatewayDecides, SkipsDuplicate, Verifies, Finishes, Progress
<1>5. ASSUME NEW k \in Jobs, Commits(k)
      PROVE  job'[j] = job[j]
  BY <1>1, <1>5 DEF Commits, CommitsRow, Progress
<1>6. ASSUME NEW k \in Jobs, Inserts(k)
      PROVE  job'[j] = job[j]
  <2>1. \E to \in InTransaction : InsertsRow(k, to)
    BY <1>6 DEF Inserts
  <2>2. k # j
    BY <1>6
  <2> QED
    BY <2>1, <2>2, RowInserts
<1>7. ASSUME job' = job
      PROVE  job'[j] = job[j]
  BY <1>7
<1> QED
  BY <1>4, <1>5, <1>6, <1>7, Cases
  DEF Create, CreatePledge, PersistInvoice, ExpiryPasses, SeesExpired, ReversalReads,
      WritesExpired, OpensPage,
      CheckoutReads, CheckoutCharges, CheckoutRefused, InitiateDeposit, StartsCharge,
      ReversalWrites, vars, queueVars

\* A charge and what its checkout knows stay, but for a reversal that outdates it.
ChargeStays(c) ==
  /\ charge'[c].at = charge[c].at /\ charge'[c].for = charge[c].for
  /\ charge'[c].net = charge[c].net /\ charge'[c].quote = charge[c].quote
  /\ charge'[c].blank <=> charge[c].blank
  /\ charge[c].outdated => charge'[c].outdated
  /\ charge[c].at \in {"viewing", "checkout"} /\ TakenOff(charge[c].for) => charge'[c].outdated

\* A charge was under way before the step, or the step is of its checkout.
LEMMA ChargeCases ==
  ASSUME TypeOK, [Next]_vars, CheckoutReadsHold, NEW c \in Charges
  PROVE  \/ ChargeStays(c)
         \/ \E i \in Invoices : OpensPage(c, i)
         \/ CheckoutReads(c)
         \/ CheckoutCharges(c) \/ CheckoutRefused(c)
         \/ InitiateDeposit(c)
<1>1. ASSUME NEW d \in Charges, NEW i \in Invoices, OpensPage(d, i)
      PROVE  c = d \/ charge'[c] = charge[c]
  BY <1>1, PageOpens
<1>2. ASSUME NEW d \in Charges, CheckoutReads(d)
      PROVE  c = d \/ charge'[c] = charge[c]
  BY <1>2, CheckoutDecides
<1>3. ASSUME NEW d \in Charges, CheckoutCharges(d) \/ CheckoutRefused(d)
      PROVE  c = d \/ charge'[c] = charge[c]
  BY <1>3, CheckoutEnds
<1>4. ASSUME NEW d \in Charges, InitiateDeposit(d)
      PROVE  c = d \/ charge'[c] = charge[c]
  BY <1>4, DepositMade
<1>5. charge[c] \in ChargeRecord
  BY DEF TypeOK
<1>6. ASSUME NEW d \in Charges, ReversalWrites(d)
      PROVE  charge'[c] = OutdatedBy(charge[c], charge[d].for)
  BY <1>6, Reverses
<1>7. charge[c].at \in {"viewing", "checkout"} /\ TakenOff(charge[c].for) => charge'[c].outdated
  BY <1>5, <1>6, RecordOutdated DEF TakenOff
<1>8. ASSUME charge'[c] = charge[c]
      PROVE  ChargeStays(c)
  BY <1>7, <1>8 DEF ChargeStays
<1>9. ASSUME NEW d \in Charges, ReversalWrites(d)
      PROVE  ChargeStays(c)
  BY <1>5, <1>6, <1>7, <1>9, RecordOutdated DEF ChargeStays
<1> QED
  BY <1>1, <1>2, <1>3, <1>4, <1>8, <1>9, Cases
  DEF Create, CreatePledge, PersistInvoice, ExpiryPasses, SeesExpired, ReversalReads,
      WritesExpired, Inserts,
      Commits, vars, invoiceVars

\* A reversal is read, read again, and done once.
LEMMA ReversalsKept ==
  ASSUME TypeOK, QueueInv, [Next]_vars
  PROVE  /\ reversal' \in [Charges -> ReversalRecord]
         /\ \A c \in Charges :
              /\ reversal[c].at = "done" => reversal'[c].at = "done"
              /\ reversal'[c].at # "none" =>
                   \/ reversal[c].at # "none"
                   \/ row[c] = "SUCCESS" /\ charge[c].for \in SingleUse
              /\ reversal'[c].at = "done" => reversal[c].at = "done" \/ ReversalWrites(c)
<1> DEFINE Kept ==
      /\ reversal' \in [Charges -> ReversalRecord]
      /\ \A c \in Charges :
           /\ reversal[c].at = "done" => reversal'[c].at = "done"
           /\ reversal'[c].at # "none" =>
                \/ reversal[c].at # "none"
                \/ row[c] = "SUCCESS" /\ charge[c].for \in SingleUse
           /\ reversal'[c].at = "done" => reversal[c].at = "done" \/ ReversalWrites(c)
<1>1. ASSUME NEW c \in Charges, ReversalReads(c)
      PROVE  Kept
  <2>1. /\ row[c] = "SUCCESS" /\ reversal[c].at # "done" /\ charge[c].for \in SingleUse
        /\ invoice[charge[c].for].amountPaid \in Nat
    BY <1>1, OwedTyped DEF ReversalReads, Stands, SingleUse
  <2> QED
    BY <1>1, <2>1 DEF ReversalReads, TypeOK, ReversalRecord
<1>2. ASSUME NEW c \in Charges, ReversalWrites(c)
      PROVE  Kept
  BY <1>2, Reverses
<1>3. ASSUME reversal' = reversal
      PROVE  Kept
  BY <1>3 DEF TypeOK
<1> HIDE DEF Kept
<1>4. Kept
  BY <1>1, <1>2, <1>3, Cases
  DEF Create, CreatePledge, PersistInvoice, ExpiryPasses, SeesExpired, WritesExpired,
      OpensPage,
      CheckoutReads, CheckoutCharges, CheckoutRefused, InitiateDeposit, Inserts, Commits, vars,
      invoiceVars
<1> QED
  BY <1>4 DEF Kept

\* A charge with a reversal was made, and its invoice is single-use.
LEMMA ReversalTyped ==
  ASSUME TypeOK, NEW c \in Charges, reversal[c].at # "none"
  PROVE  /\ row[c] = "SUCCESS" /\ gateway[c] # "none" /\ charge[c].at = "charged"
         /\ charge[c].for \in SingleUse
BY DEF TypeOK, QueueTypeOK

\* A payment that was taken off an invoice is not put back.
LEMMA ReducedStays ==
  ASSUME TypeOK, QueueInv, CheckoutReadsHold, [Next]_vars, NEW i
  PROVE  /\ Reduced(i) => Reduced(i)'
         /\ TakenOff(i) => Reduced(i)'
         /\ Reduced(i)' => Reduced(i) \/ TakenOff(i)
<1>1. \A c \in Charges : reversal[c].at # "none" => charge'[c] = charge[c]
  BY ReversalTyped, ChargesKept
<1>2. \A c \in Charges : ReversalWrites(c) => reversal[c].at = "read" /\ reversal'[c].at = "done"
  BY Reverses
<1>3. \A c \in Charges : reversal'[c].at = "done" => reversal[c].at = "done" \/ ReversalWrites(c)
  BY ReversalsKept
<1>4. Reduced(i) => Reduced(i)'
  BY <1>1, ReversalsKept DEF Reduced
<1>5. TakenOff(i) => Reduced(i)'
  BY <1>1, <1>2 DEF Reduced, TakenOff
<1>6. Reduced(i)' => Reduced(i) \/ TakenOff(i)
  BY <1>1, <1>2, <1>3 DEF Reduced, TakenOff
<1> QED
  BY <1>4, <1>5, <1>6

-----------------------------------------------------------------------------
(* The steps of the invariant *)

\* Every step keeps the types.
LEMMA TypeStep ==
  ASSUME TypeOK, QueueInv, InvoiceReadsHold, CheckoutReadsHold, [Next]_vars
  PROVE  TypeOK'
<1>1. QueueTypeOK'
  BY StepMovesQueue, QueueInductive DEF QueueInv
<1>2. expired' \subseteq SingleUse /\ expiring' \subseteq expired'
  BY Cases DEF TypeOK, Create, CreatePledge, PersistInvoice, ExpiryPasses, SeesExpired,
      ReversalReads,
     WritesExpired, OpensPage, CheckoutReads, CheckoutCharges, CheckoutRefused, InitiateDeposit,
     ReversalWrites, Inserts, Commits, vars, invoiceVars
<1>3. expired' \subseteq SingleUse'
  BY <1>2, ShapesKept
<1>4. \A c \in Charges : StartsCharge(c) \/ (gateway'[c] # "none" <=> gateway[c] # "none")
  BY StepMovesQueue DEF QueueMoves, QueueStep, GatewayDecides, StartsCharge, WebhookArrives,
     SkipsDuplicate, Verifies, Finishes, Retries, InsertsRow, CommitsRow, queueVars, TypeOK,
     QueueTypeOK
<1>5. ASSUME NEW c \in Charges
      PROVE  /\ gateway'[c] # "none" <=> charge'[c].at = "charged"
             /\ charge'[c].at \in {"checkout", "charged"} => charge'[c].net > 0
  <2>1. CASE ChargeStays(c)
    <3>1. ~StartsCharge(c)
      <4>1. StartsCharge(c) => charge'[c].at = "charged" /\ charge[c].at # "charged"
        <5> SUFFICES ASSUME StartsCharge(c) PROVE charge'[c].at = "charged" /\ charge[c].at # "charged"
          OBVIOUS
        <5>1. gateway[c] = "none" /\ gateway'[c] = "pending"
          BY DEF StartsCharge, TypeOK, QueueTypeOK
        <5>2. charge[c].at # "charged"
          BY <5>1 DEF TypeOK
        <5>3. \E d \in Charges : CheckoutCharges(d) \/ InitiateDeposit(d)
          BY <5>1, Cases DEF QueueStep, GatewayDecides, WebhookArrives, SkipsDuplicate, Verifies,
             Finishes, Retries, Create, CreatePledge, PersistInvoice, ExpiryPasses,
             SeesExpired, ReversalReads,
             WritesExpired, OpensPage, CheckoutReads, CheckoutRefused, ReversalWrites, Inserts,
             InsertsRow, Commits, CommitsRow, vars, queueVars, TypeOK, QueueTypeOK
        <5>4. PICK d \in Charges : CheckoutCharges(d) \/ InitiateDeposit(d)
          BY <5>3
        <5>5. StartsCharge(d) /\ charge'[d].at = "charged"
          BY <5>4, CheckoutEnds, DepositMade DEF CheckoutCharges, InitiateDeposit
        <5>6. d = c
          BY <5>1, <5>5 DEF StartsCharge, TypeOK, QueueTypeOK
        <5> QED
          BY <5>2, <5>5, <5>6
      <4> QED
        BY <2>1, <4>1 DEF ChargeStays
    <3> QED
      BY <1>4, <2>1, <3>1 DEF TypeOK, ChargeStays
  <2>2. ASSUME NEW i \in Invoices, OpensPage(c, i)
        PROVE  charge'[c].at = "viewing" /\ charge[c].at = "idle" /\ gateway' = gateway
    BY <2>2, PageOpens DEF queueVars
  <2>3. ASSUME CheckoutReads(c)
        PROVE  /\ charge'[c].at = "checkout" /\ charge[c].at = "viewing" /\ gateway' = gateway
               /\ charge'[c].net > 0
    BY <2>3, CheckoutDecides, Amounts DEF queueVars
  <2>4. ASSUME CheckoutCharges(c)
        PROVE  /\ charge'[c].at = "charged" /\ gateway'[c] = "pending"
               /\ charge'[c].net > 0
    BY <2>4, CheckoutEnds DEF CheckoutCharges, StartsCharge, TypeOK, QueueTypeOK
  <2>5. ASSUME CheckoutRefused(c)
        PROVE  charge'[c].at = "idle" /\ charge[c].at = "checkout" /\ gateway' = gateway
    BY <2>5, CheckoutEnds DEF CheckoutRefused, NoCheckout, queueVars
  <2>6. ASSUME InitiateDeposit(c)
        PROVE  /\ charge'[c].at = "charged" /\ gateway'[c] = "pending"
               /\ charge'[c].net > 0
    BY <2>6, DepositMade DEF StartsCharge, TypeOK, QueueTypeOK
  <2>7. gateway[c] # "none" <=> charge[c].at = "charged"
    BY DEF TypeOK
  <2> QED
    BY <2>1, <2>2, <2>3, <2>4, <2>5, <2>6, <2>7, ChargeCases
<1>6. ASSUME NEW c \in Charges, reversal'[c].at # "none"
      PROVE  row'[c] = "SUCCESS" /\ charge'[c].for \in SingleUse'
  <2>1. row[c] = "SUCCESS" /\ charge[c].for \in SingleUse
    BY <1>6, ReversalsKept DEF TypeOK
  <2>2. charge'[c] = charge[c]
    BY <2>1, ChargesKept DEF TypeOK, QueueTypeOK
  <2>3. row'[c] = "SUCCESS"
    BY <2>1, RowsStay, StepMovesQueue
  <2> QED
    BY <2>1, <2>2, <2>3, ShapesKept
<1> QED
  BY <1>1, <1>2, <1>3, <1>5, <1>6, InvoicesKept, ChargesKept, ReversalsKept DEF TypeOK

\* Until a payment is taken off, what is owed of an issued invoice only shrinks,
\* and its total with it.
LEMMA QuoteShrinks ==
  ASSUME TypeOK, QueueInv, InvoiceReadsHold, CheckoutReadsHold, [Next]_vars,
         NEW i \in Invoices, invoice[i].status # "absent", ~TakenOff(i)
  PROVE  Quote(i)' \in Nat /\ Quote(i)' <= Quote(i)
<1>1. /\ invoice'[i].amountRequested = invoice[i].amountRequested
      /\ invoice'[i].amountPaid >= invoice[i].amountPaid
      /\ invoice'[i].amountPaid \in Nat /\ invoice[i].amountPaid \in Nat
      /\ invoice[i].amountRequested \in 0 .. MaxAmount
  BY InvoicesKept, OwedTyped DEF InvoiceRow
<1>2. PICK before, after : before = Remaining(i) /\ after = Remaining(i)'
  OBVIOUS
<1>3. before \in Nat /\ after \in Nat /\ after <= before
  BY <1>1, <1>2, Amounts DEF Remaining
<1>4. /\ PlatformFee(after) \in Nat /\ PlatformFee(before) \in Nat
      /\ PlatformFee(after) <= PlatformFee(before)
  BY <1>3, FeeGrows
<1>5. Quote(i) = before + PlatformFee(before) /\ Quote(i)' = after + PlatformFee(after)
  BY <1>2 DEF Quote, PlatformFee
<1> QED
  BY <1>3, <1>4, <1>5

\* An organizer's e-mail is not overwritten, and nobody else's becomes one.
LEMMA EmailsKept ==
  ASSUME TypeOK, QueueInv, InvoiceReadsHold, CheckoutReadsHold, [Next]_vars
  PROVE  \A i \in Invoices : invoice[i].status # "absent" =>
           (invoice'[i].contributorEmail = "given" <=> invoice[i].contributorEmail = "given")
<1> DEFINE Kept == \A i \in Invoices : invoice[i].status # "absent" =>
      (invoice'[i].contributorEmail = "given" <=> invoice[i].contributorEmail = "given")
<1>1. ASSUME NEW i \in Invoices, Create(i) \/ CreatePledge(i)
      PROVE  Kept
  BY <1>1, Issues
<1>2. ASSUME NEW i \in Invoices, WritesExpired(i)
      PROVE  Kept
  BY <1>2, Expires
<1>3. ASSUME NEW c \in Charges, CheckoutCharges(c) \/ CheckoutRefused(c)
      PROVE  Kept
  <2>1. /\ charge[c].for \in Invoices /\ charge[c].at = "checkout"
        /\ CaptureContributorIdentity(c)
    BY <1>3, CheckoutEnds
  <2>2. charge[c].blank => invoice[charge[c].for].contributorEmail # "given"
    BY <2>1 DEF CheckoutReadsHold
  <2>3. c # "given"
    BY Names
  <2> QED
    BY <2>1, <2>2, <2>3, Captures
<1>4. ASSUME NEW j \in Jobs, Commits(j)
      PROVE  Kept
  <2>1. CASE job[j].at = "open"
    BY <1>4, <2>1, Credits
  <2>2. CASE job[j].at # "open"
    BY <1>4, <2>2, CommitsPlain DEF invoiceVars
  <2> QED
    BY <2>1, <2>2
<1>5. ASSUME invoice' = invoice
      PROVE  Kept
  BY <1>5
<1>7. ASSUME NEW c \in Charges, ReversalWrites(c)
      PROVE  Kept
  BY <1>7, Reverses
<1> HIDE DEF Kept
<1>6. Kept
  BY <1>1, <1>2, <1>3, <1>4, <1>5, <1>7, Cases
  DEF ExpiryPasses, SeesExpired, ReversalReads, OpensPage, CheckoutReads,
      InitiateDeposit, Inserts, vars,
      invoiceVars
<1> QED
  BY <1>6 DEF Kept

\* An e-mail comes with the invoice or later.
LEMMA AbsentStep ==
  ASSUME TypeOK, QueueInv, InvoiceReadsHold, CheckoutReadsHold, AbsentUnnamed, [Next]_vars
  PROVE  AbsentUnnamed'
<1> SUFFICES ASSUME NEW i \in Invoices, invoice'[i].status = "absent"
             PROVE  invoice'[i].contributorEmail = "none"
  BY DEF AbsentUnnamed
<1>1. invoice[i].status = "absent" /\ invoice[i].contributorEmail = "none"
  BY InvoicesKept DEF AbsentUnnamed
<1>2. ASSUME NEW k \in Invoices, Create(k) \/ CreatePledge(k)
      PROVE  invoice'[i].contributorEmail = "none"
  BY <1>1, <1>2, Issues
<1>3. ASSUME NEW k \in Invoices, WritesExpired(k)
      PROVE  invoice'[i].contributorEmail = "none"
  BY <1>1, <1>3, Expires
<1>4. ASSUME NEW c \in Charges, CheckoutCharges(c) \/ CheckoutRefused(c)
      PROVE  invoice'[i].contributorEmail = "none"
  <2>1. /\ charge[c].for \in Invoices /\ charge[c].at = "checkout"
        /\ CaptureContributorIdentity(c)
    BY <1>4, CheckoutEnds
  <2>2. charge[c].for # i
    BY <1>1, <2>1 DEF CheckoutReadsHold
  <2> QED
    BY <1>1, <2>1, <2>2, Captures
<1>5. ASSUME NEW j \in Jobs, Commits(j)
      PROVE  invoice'[i].contributorEmail = "none"
  <2>1. CASE job[j].at = "open"
    BY <1>1, <1>5, <2>1, Credits
  <2>2. CASE job[j].at # "open"
    BY <1>1, <1>5, <2>2, CommitsPlain DEF invoiceVars
  <2> QED
    BY <2>1, <2>2
<1>6. ASSUME NEW c \in Charges, ReversalWrites(c)
      PROVE  invoice'[i].contributorEmail = "none"
  BY <1>1, <1>6, Reverses DEF SingleUse
<1> QED
  BY <1>1, <1>2, <1>3, <1>4, <1>5, <1>6, Cases
  DEF ExpiryPasses, SeesExpired, ReversalReads, OpensPage, CheckoutReads,
      InitiateDeposit, Inserts, vars,
      invoiceVars

\* What jobs read of the invoices stays good enough.
LEMMA InvoiceReadsStep ==
  ASSUME TypeOK, QueueInv, InvoiceReadsHold, CheckoutReadsHold, PaidMeansClosed, [Next]_vars
  PROVE  InvoiceReadsHold'
<1> SUFFICES ASSUME NEW j \in Jobs, job'[j].at \in InTransaction,
                    NEW i, i = charge'[job'[j].charge].for
             PROVE  /\ job'[j].at = "open" => job'[j].claim = "SUCCESS" /\ i \in SingleUse'
                    /\ (job'[j].at = "closed" /\ job'[j].claim = "SUCCESS"
                          /\ i \in SingleUse' /\ ~Reduced(i)')
                         => invoice'[i].amountPaid >= ClosesAt(i)'
  BY DEF InvoiceReadsHold, InTransaction, ClosesAt, Fixed, Reduced
<1> DEFINE c == job[j].charge
<1>1. ASSUME job[j].at # "free", job'[j].charge = c
      PROVE  /\ c \in Charges /\ i = charge[c].for
             /\ i # Event => i \in Invoices /\ invoice[i].status # "absent"
  <2>1. c \in Charges /\ gateway[c] # "none"
    BY <1>1, JobsStart DEF QueueInv
  <2>2. i = charge[c].for
    BY <1>1, <2>1, ChargesKept
  <2> QED
    BY <2>1, <2>2 DEF CheckoutReadsHold
<1>2. Event \notin Invoices /\ SingleUse \subseteq Invoices /\ SingleUse' \subseteq Invoices
  BY Names DEF Event, SingleUse
<1>3. CASE ~Inserts(j)
  <2>1. job'[j] = job[j] /\ job[j].at # "free"
    BY <1>3, TransactionsStay DEF InTransaction
  <2>2. /\ c \in Charges /\ i = charge[c].for
        /\ i # Event => i \in Invoices /\ invoice[i].status # "absent"
    BY <1>1, <2>1
  <2>3. ASSUME job[j].at = "open"
        PROVE  job[j].claim = "SUCCESS" /\ i \in SingleUse'
    BY <2>2, <2>3, ShapesKept DEF InvoiceReadsHold
  <2>4. ASSUME job[j].at = "closed", job[j].claim = "SUCCESS", i \in SingleUse', ~Reduced(i)'
        PROVE  invoice'[i].amountPaid >= ClosesAt(i)'
    <3>1. i \in Invoices /\ invoice[i].status # "absent"
      BY <1>2, <2>2, <2>4
    <3>2. /\ i \in SingleUse /\ ClosesAt(i)' = ClosesAt(i) /\ ClosesAt(i) \in Nat
      BY <2>4, <3>1, ShapesKept
    <3>3. ~Reduced(i) /\ ~TakenOff(i)
      BY <2>4, ReducedStays
    <3>4. /\ invoice'[i].amountPaid >= invoice[i].amountPaid
          /\ invoice'[i].amountPaid \in Nat /\ invoice[i].amountPaid \in Nat
      BY <3>1, <3>3, InvoicesKept, OwedTyped DEF InvoiceRow
    <3>5. invoice[i].amountPaid >= ClosesAt(i)
      BY <2>2, <2>4, <3>2, <3>3 DEF InvoiceReadsHold
    <3> QED
      BY <3>2, <3>4, <3>5
  <2> QED
    BY <2>1, <2>3, <2>4
<1>4. CASE Inserts(j)
  <2>1. PICK to \in InTransaction :
          /\ to = IF job[j].claim = "SUCCESS" /\ TakesCredit(c) THEN "open" ELSE "closed"
          /\ InsertsRow(j, to)
    BY <1>4 DEF Inserts, InTransaction
  <2>2. /\ job[j].at = "verified" /\ job'[j].at = to /\ job'[j].charge = c
        /\ job'[j].claim = job[j].claim
    BY <2>1, RowInserts
  <2>3. UNCHANGED invoiceVars
    BY <1>4 DEF Inserts
  <2>4. /\ i = charge[c].for
        /\ i # Event => i \in Invoices /\ invoice[i].status # "absent"
    BY <1>1, <2>2
  <2>5. SingleUse' = SingleUse /\ invoice' = invoice
    BY <2>3 DEF SingleUse, invoiceVars
  <2>6. ASSUME to = "closed", job[j].claim = "SUCCESS", i \in SingleUse
        PROVE  invoice'[i].amountPaid >= ClosesAt(i)'
    <3>1. i \in Invoices /\ invoice[i].status = "PAID"
      BY <1>2, <2>1, <2>4, <2>6 DEF TakesCredit
    <3>2. ClosesAt(i)' = ClosesAt(i)
      BY <2>5 DEF ClosesAt, Fixed
    <3> QED
      BY <2>5, <3>1, <3>2 DEF PaidMeansClosed
  <2>7. to = "open" => job[j].claim = "SUCCESS" /\ i \in SingleUse
    BY <2>1, <2>4 DEF TakesCredit
  <2> QED
    BY <2>1, <2>2, <2>5, <2>6, <2>7
<1> QED
  BY <1>3, <1>4

\* What payers read of the invoices stays good enough.
LEMMA CheckoutReadsStep ==
  ASSUME TypeOK, QueueInv, InvoiceReadsHold, CheckoutReadsHold, [Next]_vars
  PROVE  CheckoutReadsHold'
<1> SUFFICES ASSUME NEW c \in Charges, NEW i, i = charge'[c].for
             PROVE  /\ i # Event => i \in Invoices /\ invoice'[i].status # "absent"
                    /\ charge'[c].at \in {"viewing", "checkout"} => i # Event
                    /\ charge'[c].at = "viewing" /\ Fixed(i)' /\ ~charge'[c].outdated =>
                         Quote(i)' <= charge'[c].quote
                    /\ charge'[c].at = "checkout" /\ charge'[c].blank =>
                         invoice'[i].contributorEmail # "given"
  BY DEF CheckoutReadsHold, Event, Fixed, Quote, Remaining, PlatformFee
<1>1. Event \notin Invoices
  BY Names DEF Event
<1>2. \A k \in Invoices : invoice[k].status # "absent" => invoice'[k].status # "absent"
  BY InvoicesKept
<1>3. charge[c].for # Event =>
        charge[c].for \in Invoices /\ invoice'[charge[c].for].status # "absent"
  BY <1>2 DEF CheckoutReadsHold
<1>4. CASE ChargeStays(c)
  <2>1. CASE charge[c].at \notin {"viewing", "checkout"}
    BY <1>3, <1>4, <2>1 DEF ChargeStays
  <2>2. CASE charge[c].at \in {"viewing", "checkout"}
    <3>1. i = charge[c].for /\ i \in Invoices /\ invoice[i].status # "absent" /\ i # Event
      BY <1>4, <2>2 DEF CheckoutReadsHold, ChargeStays
    <3>2. ASSUME charge[c].at = "viewing", Fixed(i)', ~charge'[c].outdated
          PROVE  Quote(i)' <= charge[c].quote
      <4>1. Fixed(i) /\ ~TakenOff(i) /\ ~charge[c].outdated
        BY <1>4, <3>1, <3>2, ShapesKept DEF ChargeStays
      <4>2. Quote(i)' \in Nat /\ Quote(i) \in Nat /\ Quote(i)' <= Quote(i)
        BY <3>1, <4>1, QuoteShrinks, OwedTyped
      <4>3. Quote(i) <= charge[c].quote /\ charge[c].quote \in Nat
        BY <3>1, <3>2, <4>1 DEF CheckoutReadsHold, TypeOK, ChargeRecord
      <4> QED
        BY <4>2, <4>3
    <3>3. ASSUME charge[c].at = "checkout", charge[c].blank
          PROVE  invoice'[i].contributorEmail # "given"
      BY <3>1, <3>3, EmailsKept DEF CheckoutReadsHold
    <3> QED
      BY <1>2, <1>4, <3>1, <3>2, <3>3 DEF ChargeStays
  <2> QED
    BY <2>1, <2>2
<1>5. ASSUME NEW k \in Invoices, OpensPage(c, k)
      PROVE  /\ charge'[c].at = "viewing" /\ i = k /\ i # Event
             /\ invoice'[i].status # "absent"
             /\ Fixed(i)' => Quote(i)' <= charge'[c].quote
  <2>1. /\ charge'[c].at = "viewing" /\ i = k /\ invoice[k].status # "absent"
        /\ Fixed(k) => charge'[c].quote = Quote(k)
        /\ invoice' = invoice
    BY <1>5, PageOpens
  <2>2. (Fixed(k)' <=> Fixed(k)) /\ Quote(k)' = Quote(k) /\ Quote(k) \in Nat
    BY <2>1, OwedTyped DEF Fixed, Quote, Remaining, PlatformFee
  <2>3. Fixed(k)' => Quote(k)' <= charge'[c].quote
    BY <2>1, <2>2
  <2> QED
    BY <1>1, <2>1, <2>3
<1>6. ASSUME CheckoutReads(c)
      PROVE  /\ charge'[c].at = "checkout" /\ i \in Invoices /\ i # Event
             /\ invoice'[i].status # "absent"
             /\ charge'[c].blank => invoice'[i].contributorEmail # "given"
  BY <1>3, <1>6, CheckoutDecides
<1>7. ASSUME CheckoutCharges(c) \/ CheckoutRefused(c) \/ InitiateDeposit(c)
      PROVE  /\ charge'[c].at \notin {"viewing", "checkout"}
             /\ i = charge[c].for \/ i = Event
  BY <1>7, CheckoutEnds, DepositMade DEF NoCheckout
<1>8. CASE \E k \in Invoices : OpensPage(c, k)
  BY <1>5, <1>8
<1>9. CASE CheckoutReads(c)
  BY <1>6, <1>9
<1>10. CASE CheckoutCharges(c) \/ CheckoutRefused(c) \/ InitiateDeposit(c)
  BY <1>3, <1>7, <1>10
<1> QED
  BY <1>4, <1>8, <1>9, <1>10, ChargeCases

\* A PAID invoice stays at its target.
LEMMA PaidStep ==
  ASSUME TypeOK, QueueInv, InvoiceReadsHold, CheckoutReadsHold, PaidMeansClosed, [Next]_vars
  PROVE  PaidMeansClosed'
<1> SUFFICES ASSUME NEW i \in Invoices, invoice'[i].status = "PAID"
             PROVE  invoice'[i].amountPaid >= ClosesAt(i)'
  BY DEF PaidMeansClosed
<1>1. CASE IssuedNow(i)
  BY <1>1 DEF IssuedNow
<1>2. CASE StaysAsPaid(i)
  <2>1. invoice[i].status = "PAID" /\ invoice'[i].amountPaid = invoice[i].amountPaid
    BY <1>2 DEF StaysAsPaid
  <2>2. ClosesAt(i)' = ClosesAt(i)
    BY <2>1, ShapesKept
  <2> QED
    BY <2>1, <2>2 DEF PaidMeansClosed
<1>3. CASE CreditedNow(i)
  <2>1. PICK j \in Jobs : Commits(j) /\ job[j].at = "open" /\ charge[job[j].charge].for = i
    BY <1>3 DEF CreditedNow
  <2>2. PICK paid \in Nat \ {0} :
          /\ invoice'[i].status = NextStatus(i, paid) /\ invoice'[i].amountPaid = paid
          /\ invoice'[i].amountRequested = invoice[i].amountRequested
    BY <2>1, Credits
  <2>3. paid >= invoice[i].amountRequested
    BY <2>2 DEF NextStatus
  <2> QED
    BY <2>2, <2>3 DEF ClosesAt, Fixed
<1>4. CASE TakenOff(i)
  <2>1. InStep(i) /\ invoice' \in [Invoices -> InvoiceRow]
    BY <1>4, Reverses DEF TakenOff
  <2>2. invoice'[i].amountPaid \in Nat \ {0}
    BY <2>1 DEF InStep, InvoiceRow
  <2>3. invoice'[i].amountPaid >= invoice'[i].amountRequested
    BY <2>1 DEF InStep
  <2> QED
    BY <2>2, <2>3 DEF ClosesAt, Fixed
<1> QED
  BY <1>1, <1>2, <1>3, <1>4, InvoiceCases

\* A checkout decides by what is owed, which is no more than the page showed.
LEMMA QuoteStep ==
  ASSUME TypeOK, QueueInv, InvoiceReadsHold, CheckoutReadsHold, NoCreditLostOrDoubled,
         NeverAboveQuote, [Next]_vars
  PROVE  NeverAboveQuote'
<1> SUFFICES ASSUME NEW c \in Charges, NEW i, i = charge'[c].for,
                    charge'[c].at = "checkout", Fixed(i)', ~charge'[c].outdated
             PROVE  Gross(c)' <= charge'[c].quote
  BY DEF NeverAboveQuote, Fixed
<1>1. CASE ChargeStays(c)
  <2>1. i = charge[c].for /\ i \in Invoices /\ invoice[i].status # "absent"
    BY <1>1 DEF CheckoutReadsHold, ChargeStays
  <2>2. Fixed(i)
    BY <2>1, ShapesKept
  <2>3. Gross(c) <= charge[c].quote
    BY <1>1, <2>1, <2>2 DEF NeverAboveQuote, ChargeStays
  <2>4. Gross(c)' = Gross(c)
    BY <1>1 DEF Gross, Fee, PlatformFee, ChargeStays
  <2> QED
    BY <1>1, <2>3, <2>4 DEF ChargeStays
<1>2. CASE CheckoutReads(c)
  <2>1. /\ charge[c].at = "viewing" /\ i = charge[c].for /\ i \in Invoices /\ i # Event
        /\ charge'[c].quote = charge[c].quote /\ charge'[c].net \in ChargeAmounts(i)
        /\ ~charge[c].outdated /\ invoice' = invoice
    BY <1>2, CheckoutDecides
  <2>2. Fixed(i) /\ Quote(i) <= charge[c].quote /\ charge[c].quote \in Nat
    BY <2>1 DEF CheckoutReadsHold, Fixed, TypeOK, ChargeRecord
  <2>3. PICK net : net = charge'[c].net
    OBVIOUS
  <2>4. /\ net \in 1 .. MaxAmount /\ MaxAmount \in Nat
        /\ i \in SingleUse => net <= Remaining(i)
        /\ i \notin SingleUse => net = invoice[i].amountRequested
    BY <2>1, <2>2, <2>3, AmountsCharged, Amounts
  <2>5. /\ invoice[i].amountRequested \in 0 .. MaxAmount
        /\ Remaining(i) \in 0 .. invoice[i].amountRequested /\ Quote(i) \in Nat
    BY <2>1, OwedTyped
  <2>6. i \notin SingleUse => Remaining(i) = invoice[i].amountRequested
    BY <2>1, <2>5 DEF NoCreditLostOrDoubled, Remaining
  <2>7. net \in Nat /\ Remaining(i) \in Nat /\ net <= Remaining(i)
    BY <2>4, <2>5, <2>6
  <2>8. /\ PlatformFee(net) \in Nat /\ PlatformFee(Remaining(i)) \in Nat
        /\ PlatformFee(net) <= PlatformFee(Remaining(i))
    BY <2>7, FeeGrows
  <2>9. Quote(i) = Remaining(i) + PlatformFee(Remaining(i))
    BY DEF Quote
  <2>10. Gross(c)' = net + PlatformFee(net)
    BY <2>1, <2>3 DEF Gross, Fee, PlatformFee
  <2> QED
    BY <2>1, <2>2, <2>7, <2>8, <2>9, <2>10
<1>3. CASE CheckoutCharges(c) \/ CheckoutRefused(c) \/ InitiateDeposit(c)
  BY <1>3, CheckoutEnds, DepositMade DEF NoCheckout
<1>4. ASSUME NEW k \in Invoices, OpensPage(c, k)
      PROVE  charge'[c].at = "viewing"
  BY <1>4, PageOpens
<1> QED
  BY <1>1, <1>2, <1>3, <1>4, ChargeCases

\* The successful charges of an invoice.
PaymentsOf(i) == {c \in Charges : row[c] = "SUCCESS" /\ charge[c].for = i}

\* They are finitely many, each of a positive amount.
LEMMA PaymentsTyped ==
  ASSUME TypeOK, NEW i
  PROVE  /\ IsFiniteSet(PaymentsOf(i)) /\ PaymentsOf(i) \subseteq Charges
         /\ \A c \in Charges : Net[c] = charge[c].net /\ Net[c] \in Nat
         /\ Settled(i) = Sum(Net, PaymentsOf(i)) /\ Settled(i) \in Nat
<1>1. IsFiniteSet(PaymentsOf(i)) /\ PaymentsOf(i) \subseteq Charges
  BY ChargesFinite, FS_Subset DEF PaymentsOf
<1>2. \A c \in Charges : Net[c] = charge[c].net /\ Net[c] \in Nat
  BY NetIsNet DEF Net
<1>3. \A c \in PaymentsOf(i) : Net[c] \in Nat
  BY <1>1, <1>2
<1> QED
  BY <1>1, <1>2, <1>3, SumType DEF Settled, PaymentsOf

\* While no row becomes a success, what was settled stays settled.
LEMMA SettledStays ==
  ASSUME TypeOK, CheckoutReadsHold, [Next]_vars, NEW i,
         \A c \in Charges :
           charge[c].for = i => (row'[c] = "SUCCESS" <=> row[c] = "SUCCESS"),
         \A c \in Charges : row'[c] = "SUCCESS" => gateway[c] # "none"
  PROVE  Settled(i)' = Settled(i)
<1>1. \A c \in Charges : gateway[c] # "none" => charge'[c] = charge[c]
  BY ChargesKept
<1>2. \A c \in Charges : row[c] = "SUCCESS" => gateway[c] # "none"
  BY DEF TypeOK, QueueTypeOK
<1>3. PICK now, then, paid :
        /\ then = Net /\ now = Net' /\ paid = PaymentsOf(i)
  OBVIOUS
<1>4. \A c \in paid : now[c] = then[c]
  BY <1>1, <1>2, <1>3 DEF PaymentsOf, Net
<1>5. PaymentsOf(i)' = paid
  BY <1>1, <1>2, <1>3 DEF PaymentsOf
<1>6. Sum(now, paid) = Sum(then, paid)
  BY <1>4, SumExt
<1>7. Settled(i)' = Sum(Net', PaymentsOf(i)')
  BY DEF Settled, PaymentsOf, Sum, Units
<1>8. Settled(i) = Sum(Net, PaymentsOf(i))
  BY DEF Settled, PaymentsOf
<1> QED
  BY <1>3, <1>5, <1>6, <1>7, <1>8

\* A recorded success adds its net amount to what its invoice was paid.
LEMMA SettledGrows ==
  ASSUME TypeOK, QueueInv, CheckoutReadsHold, [Next]_vars, NEW j \in Jobs, Commits(j),
         job[j].claim = "SUCCESS"
  PROVE  LET c == job[j].charge
         IN /\ c \in Charges /\ charge[c].net \in Nat \ {0}
            /\ \A i : Settled(i)' = IF i = charge[c].for THEN Settled(i) + charge[c].net
                                    ELSE Settled(i)
<1> DEFINE c == job[j].charge
<1>1. PICK from \in InTransaction : CommitsRow(j, from)
  BY DEF Commits, InTransaction
<1>2. /\ c \in Charges /\ gateway[c] # "none" /\ row[c] = "none"
      /\ \A d \in Charges : row'[d] = IF d = c THEN "SUCCESS" ELSE row[d]
  BY <1>1, RowCommits
<1>3. charge' = charge
  BY DEF Commits
<1>4. charge[c].net \in Nat \ {0}
  BY <1>2, Amounts DEF TypeOK, ChargeRecord
<1>5. ASSUME NEW i
      PROVE  Settled(i)' = IF i = charge[c].for THEN Settled(i) + charge[c].net ELSE Settled(i)
  <2>1. Net' = Net
    BY <1>3 DEF Net
  <2>2. PaymentsOf(i)' = IF i = charge[c].for THEN PaymentsOf(i) \cup {c} ELSE PaymentsOf(i)
    BY <1>2, <1>3 DEF PaymentsOf
  <2>3. /\ c \notin PaymentsOf(i) /\ IsFiniteSet(PaymentsOf(i)) /\ PaymentsOf(i) \subseteq Charges
        /\ \A d \in Charges : Net[d] = charge[d].net /\ Net[d] \in Nat
        /\ Settled(i) = Sum(Net, PaymentsOf(i))
    BY <1>2, PaymentsTyped DEF PaymentsOf
  <2>4. \A d \in PaymentsOf(i) \cup {c} : Net[d] \in Nat
    BY <1>2, <2>3
  <2>5. Sum(Net, PaymentsOf(i) \cup {c}) = Sum(Net, PaymentsOf(i)) + charge[c].net
    <3> HIDE DEF c
    <3>1. Sum(Net, PaymentsOf(i) \cup {c}) = Sum(Net, PaymentsOf(i)) + Net[c]
      <4>1. PICK rows, amount : rows = PaymentsOf(i) /\ amount = Net
        OBVIOUS
      <4>2. IsFiniteSet(rows) /\ c \notin rows
        BY <2>3, <4>1
      <4>3. \A d \in rows \cup {c} : amount[d] \in Nat
        BY <2>4, <4>1
      <4>4. Sum(amount, rows \cup {c}) = Sum(amount, rows) + amount[c]
        BY <4>2, <4>3, SumAdd
      <4> QED
        BY <4>1, <4>4
    <3> QED
      BY <1>2, <2>3, <3>1
  <2>6. Settled(i)' = Sum(Net', PaymentsOf(i)')
    BY DEF Settled, PaymentsOf, Sum, Units
  <2> HIDE DEF c
  <2> QED
    BY <2>1, <2>2, <2>3, <2>5, <2>6
<1> QED
  BY <1>2, <1>4, <1>5

CreditExact(i) ==
  LET paid == invoice[i].amountPaid
  IN IF i \in SingleUse
     THEN ~Reduced(i) => paid <= Settled(i) /\ (paid < Settled(i) => paid >= ClosesAt(i))
     ELSE paid = 0

\* Every payment is credited once, or comes after the target was met.
LEMMA CreditStep ==
  ASSUME TypeOK, QueueInv, InvoiceReadsHold, CheckoutReadsHold, NoCreditLostOrDoubled,
         [Next]_vars
  PROVE  NoCreditLostOrDoubled'
<1> SUFFICES ASSUME NEW i \in Invoices
             PROVE  CreditExact(i)'
  BY DEF NoCreditLostOrDoubled, CreditExact, Reduced
<1>9. CASE Reduced(i)'
  <2>1. PICK c \in Charges : charge'[c].for = i /\ reversal'[c].at = "done"
    BY <1>9 DEF Reduced
  <2>2. i \in SingleUse'
    BY <2>1, TypeStep, ReversalTyped DEF TypeOK
  <2> QED
    BY <1>9, <2>2 DEF CreditExact, Reduced
<1> SUFFICES ASSUME ~Reduced(i)'
             PROVE  CreditExact(i)'
  BY <1>9
<1>10. ~Reduced(i) /\ ~TakenOff(i)
  BY ReducedStays
<1>1. CreditExact(i)
  BY DEF NoCreditLostOrDoubled, CreditExact
<1>2. invoice[i].amountPaid \in Nat /\ Settled(i) \in Nat
  BY OwedTyped, PaymentsTyped
<1>3. invoice[i].status = "absent" => PaymentsOf(i) = {}
  BY Names DEF PaymentsOf, CheckoutReadsHold, Event
<1>4. /\ i \in SingleUse => invoice[i].status # "absent"
      /\ invoice[i].status # "absent" =>
           /\ i \in SingleUse' <=> i \in SingleUse
           /\ ClosesAt(i)' = ClosesAt(i) /\ ClosesAt(i) \in Nat
  BY ShapesKept DEF SingleUse
<1>5. ASSUME Settled(i)' = Settled(i), ~CreditedNow(i)
      PROVE  CreditExact(i)'
  <2>1. CASE IssuedNow(i)
    <3>1. Settled(i) = 0
      BY <1>3, <2>1, SumEmpty, PaymentsTyped DEF IssuedNow
    <3>2. invoice'[i].amountPaid = 0
      BY <2>1 DEF IssuedNow
    <3> QED
      BY <1>5, <3>1, <3>2 DEF CreditExact
  <2>2. CASE StaysAsPaid(i)
    <3>1. invoice'[i].amountPaid = invoice[i].amountPaid
      BY <2>2 DEF StaysAsPaid
    <3>2. invoice[i].status = "absent" => i \notin SingleUse'
      BY <2>2 DEF StaysAsPaid, SingleUse
    <3>3. (i \in SingleUse') <=> (i \in SingleUse)
      BY <1>4, <3>2
    <3> QED
      BY <1>1, <1>4, <1>5, <1>10, <3>1, <3>3 DEF CreditExact
  <2> QED
    BY <1>5, <1>10, <2>1, <2>2, InvoiceCases
<1>6. ASSUME row' = row
      PROVE  CreditExact(i)'
  <2>1. Settled(i)' = Settled(i)
    BY <1>6, SettledStays DEF TypeOK, QueueTypeOK
  <2>2. ~CreditedNow(i)
    <3> SUFFICES ASSUME CreditedNow(i) PROVE FALSE
      OBVIOUS
    <3>1. PICK j \in Jobs : Commits(j) /\ job[j].at = "open"
      BY DEF CreditedNow
    <3>2. CommitsRow(j, "open") /\ job[j].claim = "SUCCESS"
      BY <3>1, Credits
    <3> QED
      BY <1>6, <3>2, RowCommits DEF InTransaction
  <2> QED
    BY <1>5, <2>1, <2>2
<1>7. ASSUME NEW j \in Jobs, Commits(j), job[j].at = "open"
      PROVE  CreditExact(i)'
  <2> DEFINE c == job[j].charge
  <2>1. /\ c \in Charges /\ charge[c].for \in SingleUse /\ job[j].claim = "SUCCESS"
        /\ charge[c].net \in Nat
        /\ invoice'[i].amountPaid = IF i = charge[c].for
                                    THEN invoice[i].amountPaid + charge[c].net
                                    ELSE invoice[i].amountPaid
        /\ invoice'[i].permanent = invoice[i].permanent
    BY <1>7, Credits
  <2>2. Settled(i)' = IF i = charge[c].for THEN Settled(i) + charge[c].net ELSE Settled(i)
    BY <1>7, <2>1, SettledGrows
  <2>3. CASE i = charge[c].for
    <3>1. i \in SingleUse /\ i \in SingleUse'
      BY <1>4, <2>1, <2>3
    <3>2. /\ Settled(i)' = Settled(i) + charge[c].net
          /\ invoice'[i].amountPaid = invoice[i].amountPaid + charge[c].net
      BY <2>1, <2>2, <2>3
    <3> HIDE DEF c
    <3> QED
      BY <1>1, <1>2, <1>4, <1>10, <2>1, <3>1, <3>2 DEF CreditExact
  <2>4. CASE i # charge[c].for
    <3>1. Settled(i)' = Settled(i)
      BY <2>2, <2>4
    <3>2. ~CreditedNow(i)
      <4> SUFFICES ASSUME CreditedNow(i) PROVE FALSE
        OBVIOUS
      <4>1. PICK k \in Jobs : /\ Commits(k) /\ job[k].at = "open"
                              /\ charge[job[k].charge].for = i
        BY DEF CreditedNow
      <4>2. CommitsRow(k, "open") /\ CommitsRow(j, "open")
        BY <1>7, <4>1, Credits
      <4>3. k = j
        BY <1>7, <4>1, <4>2, JobMoves DEF CommitsRow, QueueInv, Progress
      <4> QED
        BY <2>4, <4>1, <4>3
    <3> QED
      BY <1>5, <3>1, <3>2
  <2> QED
    BY <2>3, <2>4
<1>8. ASSUME NEW j \in Jobs, Commits(j), job[j].at # "open"
      PROVE  CreditExact(i)'
  <2> DEFINE c == job[j].charge
  <2>1. CommitsRow(j, "closed") /\ UNCHANGED invoiceVars
    BY <1>8, CommitsPlain
  <2>2. /\ c \in Charges /\ row[c] = "none" /\ gateway[c] # "none"
        /\ \A d \in Charges : row'[d] = IF d = c THEN job[j].claim ELSE row[d]
    BY <2>1, RowCommits DEF InTransaction
  <2>3. /\ invoice'[i] = invoice[i] /\ SingleUse' = SingleUse /\ ClosesAt(i)' = ClosesAt(i)
    BY <2>1 DEF invoiceVars, SingleUse, ClosesAt, Fixed
  <2>4. CASE job[j].claim = "SUCCESS" /\ i = charge[c].for
    <3>1. Settled(i)' = Settled(i) + charge[c].net /\ charge[c].net \in Nat
      BY <1>8, <2>4, SettledGrows
    <3>2. job[j].at = "closed"
      BY <2>1 DEF CommitsRow, Moves
    <3>3. i \in SingleUse => invoice[i].amountPaid >= ClosesAt(i)
      BY <1>10, <2>4, <3>2 DEF InvoiceReadsHold
    <3> HIDE DEF c
    <3> QED
      BY <1>1, <1>2, <1>10, <2>3, <3>1, <3>3 DEF CreditExact
  <2>5. CASE ~(job[j].claim = "SUCCESS" /\ i = charge[c].for)
    <3>1. \A d \in Charges :
            /\ charge[d].for = i => (row'[d] = "SUCCESS" <=> row[d] = "SUCCESS")
            /\ row'[d] = "SUCCESS" => gateway[d] # "none"
      BY <2>2, <2>5 DEF TypeOK, QueueTypeOK
    <3>2. Settled(i)' = Settled(i)
      BY <3>1, SettledStays
    <3> QED
      BY <1>1, <1>10, <2>3, <3>2 DEF CreditExact
  <2> QED
    BY <2>4, <2>5
<1> QED
  BY <1>6, <1>7, <1>8, Cases
  DEF QueueStep, GatewayDecides, WebhookArrives, SkipsDuplicate, Verifies, Finishes, Retries,
      Create, CreatePledge, PersistInvoice, ExpiryPasses, SeesExpired, ReversalReads,
      WritesExpired, OpensPage,
      CheckoutReads, CheckoutCharges, StartsCharge, CheckoutRefused, InitiateDeposit, ReversalWrites,
      Inserts, InsertsRow, vars, queueVars

\* The status of a single-use invoice follows its total.
LEMMA SummaryStep ==
  ASSUME TypeOK, QueueInv, InvoiceReadsHold, CheckoutReadsHold, PaidMeansClosed,
         SummaryTellsTotals, [Next]_vars
  PROVE  SummaryTellsTotals'
<1>1. ASSUME NEW i \in Invoices, i \in SingleUse'
      PROVE  /\ invoice'[i].status = "PAID" => Remaining(i)' = 0 /\ invoice'[i].amountPaid > 0
             /\ invoice'[i].status = "PARTIALLY_PAID" =>
                  Remaining(i)' > 0 /\ invoice'[i].amountPaid > 0
             /\ invoice'[i].status = "PENDING" => invoice'[i].amountPaid = 0
  <2>1. /\ invoice'[i].amountRequested \in 0 .. MaxAmount /\ invoice'[i].amountPaid \in Nat
        /\ MaxAmount \in Nat
    BY InvoicesKept, Amounts DEF InvoiceRow
  <2>2. ASSUME invoice'[i].status = "PAID"
        PROVE  Remaining(i)' = 0 /\ invoice'[i].amountPaid > 0
    <3>1. invoice'[i].amountPaid >= ClosesAt(i)'
      BY <2>2, PaidStep DEF PaidMeansClosed
    <3> QED
      BY <2>1, <3>1 DEF Remaining, ClosesAt, Fixed
  <2>3. CASE IssuedNow(i)
    BY <2>2, <2>3 DEF IssuedNow
  <2>4. CASE StaysAsPaid(i)
    <3>1. /\ invoice'[i].amountPaid = invoice[i].amountPaid /\ Remaining(i)' = Remaining(i)
          /\ invoice'[i].status = invoice[i].status \/ invoice'[i].status = "EXPIRED"
      BY <2>4 DEF StaysAsPaid, Remaining
    <3>2. invoice'[i].status = invoice[i].status => i \in SingleUse
      BY <1>1, <2>4 DEF StaysAsPaid, SingleUse
    <3> QED
      BY <2>2, <3>1, <3>2 DEF SummaryTellsTotals, Bucket
  <2>5. CASE CreditedNow(i)
    <3>1. PICK j \in Jobs : Commits(j) /\ job[j].at = "open" /\ charge[job[j].charge].for = i
      BY <2>5 DEF CreditedNow
    <3>2. PICK paid \in Nat \ {0} :
            /\ invoice'[i].status = NextStatus(i, paid) /\ invoice'[i].amountPaid = paid
            /\ invoice'[i].amountRequested = invoice[i].amountRequested
      BY <3>1, Credits
    <3>3. invoice'[i].status = "PARTIALLY_PAID" =>
            paid < invoice'[i].amountRequested /\ Remaining(i)' > 0
      BY <2>1, <3>2 DEF NextStatus, Remaining
    <3>4. invoice'[i].status # "PENDING"
      BY <3>2 DEF NextStatus
    <3> QED
      BY <2>2, <3>2, <3>3, <3>4
  <2>6. CASE TakenOff(i)
    <3>1. InStep(i)
      BY <2>6, Reverses DEF TakenOff
    <3>2. invoice'[i].status = "PARTIALLY_PAID" =>
            /\ invoice'[i].amountPaid > 0
            /\ invoice'[i].amountPaid < invoice'[i].amountRequested
      BY <2>1, <3>1 DEF InStep
    <3>3. invoice'[i].status = "PENDING" => invoice'[i].amountPaid = 0
      BY <3>1 DEF InStep
    <3>4. invoice'[i].status = "PARTIALLY_PAID" => Remaining(i)' > 0
      BY <2>1, <3>2 DEF Remaining
    <3> QED
      BY <2>2, <3>2, <3>3, <3>4
  <2> QED
    BY <2>3, <2>4, <2>5, <2>6, InvoiceCases
<1> QED
  BY <1>1 DEF SummaryTellsTotals, Bucket, SingleUse

-----------------------------------------------------------------------------
(* The theorems *)

\* No invoice, no charge, no job.
LEMMA InitIInv == Init => IInv
<1> SUFFICES ASSUME Init PROVE IInv
  OBVIOUS
<1>1. QueueInv /\ QueueTypeOK
  BY QueueStarts DEF Init, QueueInv
<1>2. invoice \in [Invoices -> InvoiceRow]
  BY Amounts DEF Init, InvoiceRow
<1>3. /\ charge \in [Charges -> ChargeRecord]
      /\ \A c \in Charges : charge[c].at = "idle" /\ charge[c].for = Event
  BY Amounts DEF Init, NoCheckout, ChargeRecord
<1>4. /\ \A i \in Invoices : invoice[i].status = "absent" /\ invoice[i].amountPaid = 0
      /\ SingleUse = {}
  BY DEF Init, SingleUse
<1>5. \A c \in Charges : gateway[c] = "none"
  BY DEF Init, QueueInit
<1>6. TypeOK
  BY <1>1, <1>2, <1>3, <1>5 DEF Init, TypeOK, NoReversal, ReversalRecord
<1>7. InvoiceReadsHold
  BY DEF Init, QueueInit, NoJob, InvoiceReadsHold
<1>8. CheckoutReadsHold /\ NeverAboveQuote
  BY <1>3 DEF CheckoutReadsHold, NeverAboveQuote
<1>9. PaidMeansClosed /\ SummaryTellsTotals /\ NoCreditLostOrDoubled
  BY <1>4 DEF PaidMeansClosed, SummaryTellsTotals, NoCreditLostOrDoubled, Bucket
<1>10. AbsentUnnamed
  BY DEF Init, AbsentUnnamed
<1> QED
  BY <1>1, <1>6, <1>7, <1>8, <1>9, <1>10 DEF IInv

\* Every reachable state satisfies the inductive invariant: jobs are alone with
\* their charge, and what they and the payers read errs to the safe side.
THEOREM Inductive == Spec => []IInv
<1>1. IInv /\ [Next]_vars => IInv'
  <2> SUFFICES ASSUME IInv, [Next]_vars PROVE IInv'
    OBVIOUS
  <2>1. /\ TypeOK /\ AbsentUnnamed /\ QueueInv
        /\ InvoiceReadsHold /\ CheckoutReadsHold /\ PaidMeansClosed
        /\ NoCreditLostOrDoubled /\ SummaryTellsTotals /\ NeverAboveQuote
    BY DEF IInv
  <2>2. /\ TypeOK' /\ AbsentUnnamed' /\ QueueInv'
        /\ InvoiceReadsHold' /\ CheckoutReadsHold' /\ PaidMeansClosed'
    BY <2>1, TypeStep, AbsentStep, StepMovesQueue, QueueInductive, InvoiceReadsStep, CheckoutReadsStep,
       PaidStep
  <2>3. NoCreditLostOrDoubled' /\ SummaryTellsTotals' /\ NeverAboveQuote'
    BY <2>1, CreditStep, SummaryStep, QuoteStep
  <2> QED
    BY <2>2, <2>3 DEF IInv
<1> QED
  BY InitIInv, <1>1, PTL DEF Spec

\* Every state is typed, and the gateway knows just the charges that were made.
THEOREM TypeCorrect == Spec => []TypeOK
<1>1. IInv => TypeOK
  BY DEF IInv
<1> QED
  BY <1>1, Inductive, PTL

\* WebhookProcessor records as received only what the gateway confirms.
THEOREM ConfirmedOnly == Spec => []OnlyConfirmedMoney
<1>1. IInv => OnlyConfirmedMoney
  BY DEF IInv, QueueInv
<1> QED
  BY <1>1, Inductive, PTL

\* WebhookProcessor credits each successful charge of a single-use invoice once,
\* whatever the retries, duplicates and concurrent jobs, until the target is met or
\* a payment of the invoice is reversed.
THEOREM CreditedOnce == Spec => []NoCreditLostOrDoubled
<1>1. IInv => NoCreditLostOrDoubled
  BY DEF IInv
<1> QED
  BY <1>1, Inductive, PTL

\* The buckets of getContributorSummary say what the running totals say, through
\* payments, expiries and reversals.
THEOREM SummaryTrue == Spec => []SummaryTellsTotals
<1>1. IInv => SummaryTellsTotals
  BY DEF IInv
<1> QED
  BY <1>1, Inductive, PTL

\* initializeCheckout() never charges more than the pay page showed, unless a payment
\* was taken off the invoice after the page was opened.
THEOREM QuoteKept == Spec => []NeverAboveQuote
<1>1. IInv => NeverAboveQuote
  BY DEF IInv
<1> QED
  BY <1>1, Inductive, PTL

\* captureContributorIdentity never overwrites the organizer's e-mail.
THEOREM EmailKept == Spec => OrganizersEmailKept
<1>1. IInv /\ [Next]_vars =>
        [\A i \in Invoices : invoice[i].contributorEmail = "given" =>
                               invoice'[i].contributorEmail = "given"]_vars
  <2> SUFFICES ASSUME IInv, [Next]_vars, NEW i \in Invoices,
                      invoice[i].contributorEmail = "given"
               PROVE  invoice'[i].contributorEmail = "given"
    OBVIOUS
  <2>1. invoice[i].status # "absent" => invoice'[i].contributorEmail = "given"
    BY EmailsKept DEF IInv
  <2>2. invoice[i].status # "absent"
    BY DEF IInv, AbsentUnnamed
  <2> QED
    BY <2>1, <2>2
<1> QED
  BY <1>1, Inductive, PTL DEF Spec, OrganizersEmailKept

\* What a checkout may take of an invoice whose other charges are all recorded, and
\* stand, completes them: the running total, from which it is worked out, is their sum.
LEMMA CheckoutAlone ==
  ASSUME IInv, [Next]_vars, NEW c \in Charges, NEW i \in SingleUse,
         charge[c].at = "viewing", charge'[c].at = "checkout", charge[c].for = i, Fixed(i),
         \A d \in ChargesOf(i) : Stands(d)
  PROVE  Sum(Net', ChargesOf(i)') <= invoice[i].amountRequested
<1>1. i \in Invoices
  BY DEF SingleUse
<1>2. CheckoutReads(c)
  <2>1. ~(\E k \in Invoices : OpensPage(c, k)) /\ ~ChargeStays(c)
    BY DEF OpensPage, ChargeStays
  <2>2. ~CheckoutCharges(c) /\ ~CheckoutRefused(c) /\ ~InitiateDeposit(c)
    BY DEF CheckoutCharges, CheckoutRefused, InitiateDeposit
  <2> QED
    BY <2>1, <2>2, ChargeCases DEF IInv
<1>3. /\ charge' \in [Charges -> ChargeRecord]
      /\ \A d \in Charges : d # c => charge'[d] = charge[d]
      /\ charge'[c].for = i /\ charge'[c].net \in 1 .. MaxAmount
      /\ charge'[c].net <= Remaining(i) /\ gateway' = gateway
  BY <1>1, <1>2, CheckoutDecides, AmountsCharged DEF IInv, queueVars
<1>4. gateway[c] = "none" /\ c \notin ChargesOf(i)
  BY DEF IInv, TypeOK, ChargesOf
<1>5. ChargesOf(i)' = ChargesOf(i) \cup {c}
  BY <1>3, <1>4 DEF ChargesOf
<1>6. PICK rows, then, now : rows = ChargesOf(i) /\ then = Net /\ now = Net'
  OBVIOUS
<1>7. /\ IsFiniteSet(rows) /\ rows \subseteq Charges /\ c \notin rows
      /\ \A d \in rows : now[d] = then[d] /\ then[d] \in Nat
  <2>1. rows \subseteq Charges /\ c \notin rows
    BY <1>4, <1>6 DEF ChargesOf
  <2>2. \A d \in rows : now[d] = then[d]
    BY <1>3, <1>6, <2>1 DEF Net
  <2> QED
    BY <1>6, <2>1, <2>2, PaymentsTyped, ChargesFinite, FS_Subset DEF IInv
<1>8. now[c] = charge'[c].net /\ now[c] \in Nat
  BY <1>3, <1>6, Amounts DEF Net
<1>9. Sum(now, rows \cup {c}) = Sum(then, rows) + now[c]
  <2>1. \A d \in rows \cup {c} : now[d] \in Nat
    BY <1>7, <1>8
  <2>2. Sum(now, rows) = Sum(then, rows)
    BY <1>7, SumExt
  <2>3. Sum(now, rows \cup {c}) = Sum(now, rows) + now[c]
    <3>1. IsFiniteSet(rows) /\ c \notin rows
      BY <1>7
    <3> QED
      BY <2>1, <3>1, SumAdd, SMTT(60)
  <2> QED
    BY <2>2, <2>3
<1>10. Sum(then, rows) \in Nat /\ Settled(i) \in Nat /\ Sum(then, rows) <= Settled(i)
  <2>1. rows \in SUBSET PaymentsOf(i)
    BY <1>6 DEF ChargesOf, PaymentsOf, Stands
  <2>2. /\ IsFiniteSet(PaymentsOf(i)) /\ Settled(i) = Sum(then, PaymentsOf(i))
        /\ Settled(i) \in Nat /\ \A d \in PaymentsOf(i) : then[d] \in Nat
    BY <1>6, PaymentsTyped DEF IInv
  <2> QED
    BY <1>7, <2>1, <2>2, SumMonotone, SumType
<1>11. /\ invoice[i].amountRequested \in Nat /\ invoice[i].amountPaid \in Nat
       /\ now[c] + invoice[i].amountPaid <= invoice[i].amountRequested
  BY <1>1, <1>3, <1>8, OwedTyped, Amounts DEF IInv, Remaining
<1>14. ~Reduced(i)
  <2> SUFFICES ASSUME NEW d \in Charges, charge[d].for = i, reversal[d].at = "done" PROVE FALSE
    BY DEF Reduced
  <2>1. row[d] = "SUCCESS" /\ charge[d].at = "charged"
    BY ReversalTyped DEF IInv
  <2>2. d \in ChargesOf(i)
    BY <2>1 DEF ChargesOf, IInv, QueueInv, OnlyConfirmedMoney
  <2> QED
    BY <2>2 DEF Stands
<1>12. Settled(i) = invoice[i].amountPaid
  BY <1>1, <1>3, <1>8, <1>10, <1>11, <1>14 DEF IInv, NoCreditLostOrDoubled, ClosesAt
<1>13. Sum(now, rows \cup {c}) <= invoice[i].amountRequested
  BY <1>8, <1>9, <1>10, <1>11, <1>12
<1> QED
  BY <1>5, <1>6, <1>13

\* It takes another charge under way, or a reversal, to overcharge the payers of an
\* invoice.
THEOREM AloneIsCovered == Spec => AloneNeverOvercharges
<1>1. IInv /\ [Next]_vars =>
        [\A c \in Charges, i \in SingleUse :
           (/\ charge[c].at = "viewing" /\ charge'[c].at = "checkout"
            /\ charge[c].for = i /\ Fixed(i)
            /\ \A d \in ChargesOf(i) : Stands(d))
             => Sum(Net', ChargesOf(i)') <= invoice[i].amountRequested]_vars
  BY CheckoutAlone
<1> QED
  BY <1>1, Inductive, PTL DEF Spec, AloneNeverOvercharges

-----------------------------------------------------------------------------
(* The promise of CreditLedger *)

\* A charge's state in the ledger says what the gateway and its row say.
LEMMA StateOfCharge ==
  ASSUME QueueInv, NEW c \in Charges
  PROVE  /\ ChargeState(c) = "free" <=> gateway[c] = "none"
         /\ ChargeState(c) = "made" <=> gateway[c] = "pending"
         /\ ChargeState(c) = "confirmed" <=> gateway[c] = "completed" /\ row[c] # "SUCCESS"
         /\ ChargeState(c) = "void" <=> gateway[c] = "failed"
         /\ ChargeState(c) = "recorded" <=> row[c] = "SUCCESS"
<1>1. gateway[c] \in {"none", "pending", "completed", "failed"}
  BY DEF QueueInv, QueueTypeOK
<1>2. row[c] = "SUCCESS" => gateway[c] = "completed"
  BY DEF QueueInv, OnlyConfirmedMoney
<1> QED
  BY <1>1, <1>2 DEF ChargeState

\* The gateway's decision is the ledger's, and no other step of the queue alone
\* shows there.
LEMMA QueueStepIsLedger ==
  ASSUME QueueInv, QueueStep
  PROVE  \/ /\ \E c \in Charges, answer \in {"confirmed", "void"} :
                 /\ ChargeState(c) = "made"
                 /\ [d \in Charges |-> ChargeState(d)]'
                      = [[d \in Charges |-> ChargeState(d)] EXCEPT ![c] = answer]
            /\ \A c \in Charges : gateway'[c] = "none" <=> gateway[c] = "none"
         \/ UNCHANGED <<gateway, row>>
<1>1. ASSUME NEW c \in Charges, GatewayDecides(c)
      PROVE  /\ \E answer \in {"confirmed", "void"} :
                  /\ ChargeState(c) = "made"
                  /\ [d \in Charges |-> ChargeState(d)]'
                       = [[d \in Charges |-> ChargeState(d)] EXCEPT ![c] = answer]
             /\ \A d \in Charges : gateway'[d] = "none" <=> gateway[d] = "none"
  <2>1. PICK o \in {"completed", "failed"} : gateway' = [gateway EXCEPT ![c] = o]
    BY <1>1 DEF GatewayDecides
  <2>2. gateway[c] = "pending" /\ row' = row /\ row[c] # "SUCCESS"
    BY <1>1 DEF GatewayDecides, QueueInv, OnlyConfirmedMoney
  <2>3. ChargeState(c) = "made"
    BY <2>2, StateOfCharge
  <2>4. \A d \in Charges :
          gateway'[d] = (IF d = c THEN o ELSE gateway[d]) /\ row'[d] = row[d]
    BY <2>1, <2>2 DEF QueueInv, QueueTypeOK
  <2>5. /\ ChargeState(c)' = IF o = "completed" THEN "confirmed" ELSE "void"
        /\ \A d \in Charges : d # c => ChargeState(d)' = ChargeState(d)
    BY <2>2, <2>4 DEF ChargeState
  <2> DEFINE states == [d \in Charges |-> ChargeState(d)]
  <2>6. states' = [states EXCEPT ![c] = IF o = "completed" THEN "confirmed" ELSE "void"]
    BY <2>5
  <2> QED
    BY <2>2, <2>3, <2>4, <2>6
<1> QED
  BY <1>1 DEF QueueStep, WebhookArrives, SkipsDuplicate, Verifies, Finishes, Retries

\* Making a charge makes it in the ledger.
LEMMA StartIsLedger ==
  ASSUME QueueInv, NEW c \in Charges, StartsCharge(c)
  PROVE  /\ ChargeState(c) = "free" /\ gateway[c] = "none" /\ gateway'[c] = "pending"
         /\ \A d \in Charges : d # c => gateway'[d] = gateway[d]
         /\ [d \in Charges |-> ChargeState(d)]'
              = [[d \in Charges |-> ChargeState(d)] EXCEPT ![c] = "made"]
<1>1. gateway[c] = "none" /\ row' = row /\ gateway' = [gateway EXCEPT ![c] = "pending"]
  BY DEF StartsCharge
<1>2. ChargeState(c) = "free" /\ row[c] # "SUCCESS"
  BY <1>1, StateOfCharge
<1>3. \A d \in Charges :
        gateway'[d] = (IF d = c THEN "pending" ELSE gateway[d]) /\ row'[d] = row[d]
  BY <1>1 DEF QueueInv, QueueTypeOK
<1>4. ChargeState(c)' = "made" /\ \A d \in Charges : d # c => ChargeState(d)' = ChargeState(d)
  BY <1>2, <1>3 DEF ChargeState
<1> QED
  BY <1>1, <1>2, <1>3, <1>4

\* Committing the row of a confirmed SUCCESS records the charge; another row does
\* not show.
LEMMA CommitIsLedger ==
  ASSUME QueueInv, NEW j \in Jobs, NEW from \in InTransaction, CommitsRow(j, from)
  PROVE  \E c \in Charges :
            /\ c = job[j].charge /\ gateway' = gateway /\ gateway[c] # "none"
            /\ job[j].claim = "SUCCESS" =>
                 /\ ChargeState(c) = "confirmed"
                 /\ [d \in Charges |-> ChargeState(d)]'
                      = [[d \in Charges |-> ChargeState(d)] EXCEPT ![c] = "recorded"]
            /\ job[j].claim # "SUCCESS" =>
                 [d \in Charges |-> ChargeState(d)]' = [d \in Charges |-> ChargeState(d)]
<1>1. PICK c \in Charges :
        /\ c = job[j].charge
        /\ row[c] = "none" /\ gateway' = gateway /\ gateway[c] # "none"
        /\ row' = [row EXCEPT ![c] = job[j].claim]
        /\ job[j].claim = "SUCCESS" => gateway[c] = "completed"
  BY DEF QueueInv, QueueTypeOK, JobsKnown, AloneInTransaction, CommitsRow, Moves, InTransaction
<1>2. \A d \in Charges : row'[d] = (IF d = c THEN job[j].claim ELSE row[d])
  BY <1>1 DEF QueueInv, QueueTypeOK
<1>3. \A d \in Charges : d # c => ChargeState(d)' = ChargeState(d)
  BY <1>1, <1>2 DEF ChargeState
<1>4. CASE job[j].claim = "SUCCESS"
  <2>1. ChargeState(c) = "confirmed"
    BY <1>1, <1>4, StateOfCharge
  <2>2. ChargeState(c)' = "recorded"
    BY <1>1, <1>2, <1>4 DEF ChargeState
  <2> QED
    BY <1>1, <1>3, <1>4, <2>1, <2>2
<1>5. CASE job[j].claim # "SUCCESS"
  <2>1. ChargeState(c)' = ChargeState(c)
    BY <1>1, <1>2, <1>5 DEF ChargeState
  <2> QED
    BY <1>1, <1>3, <1>5, <2>1
<1> QED
  BY <1>4, <1>5

Targets == [x \in Accounts |-> Target(x)]
Totals == [x \in Accounts |-> Total(x)]
States == [c \in Charges |-> ChargeState(c)]
Stages == [c \in Charges |-> State(c)]
Worths == [c \in Charges |-> Worth(c)]
Owners == [c \in Charges |-> Owner(c)]

\* Rows that keep their shape and their totals are the same accounts.
LEMMA AccountsStay ==
  ASSUME \A i \in Invoices :
           /\ invoice'[i].status = "absent" <=> invoice[i].status = "absent"
           /\ invoice'[i].permanent = invoice[i].permanent
           /\ invoice'[i].amountRequested = invoice[i].amountRequested
  PROVE  /\ Targets' = Targets
         /\ (\A i \in Invoices : invoice'[i].amountPaid = invoice[i].amountPaid) => Totals' = Totals
<1>1. \A x \in Accounts : x \in SingleUse' <=> x \in SingleUse
  BY DEF SingleUse
<1>2. \A i \in Invoices : ClosesAt(i)' = ClosesAt(i)
  BY DEF ClosesAt, Fixed
<1>3. \A x \in Accounts : Target(x)' = Target(x)
  BY <1>1, <1>2 DEF Target, SingleUse
<1>4. (\A i \in Invoices : invoice'[i].amountPaid = invoice[i].amountPaid)
        => \A x \in Accounts : Total(x)' = Total(x)
  BY DEF Total
<1> QED
  BY <1>3, <1>4 DEF Targets, Totals, Accounts

\* A charge that was made keeps its owner and its worth.
LEMMA OwnersStay ==
  ASSUME TypeOK, CheckoutReadsHold, [Next]_vars,
         \A c \in Charges : gateway'[c] = "none" <=> gateway[c] = "none"
  PROVE  Worths' = Worths /\ Owners' = Owners
<1>1. \A c \in Charges : gateway[c] # "none" => charge'[c] = charge[c]
  BY ChargesKept
<1>2. \A c \in Charges : Worth(c)' = Worth(c) /\ Owner(c)' = Owner(c)
  BY <1>1 DEF Worth, Owner
<1> QED
  BY <1>2 DEF Worths, Owners

\* Where neither the gateway nor a row moves, the states stay.
LEMMA StatesStay ==
  ASSUME UNCHANGED <<gateway, row>>
  PROVE  States' = States
BY DEF States, ChargeState

\* Where no reversal is done, the stages move with the states.
LEMMA StagesFollow ==
  ASSUME TypeOK, \A c \in Charges : reversal'[c].at = "done" <=> reversal[c].at = "done"
  PROVE  /\ States' = States => Stages' = Stages
         /\ \A c \in Charges : \A state :
              States[c] # "recorded" /\ States' = [States EXCEPT ![c] = state]
                => Stages[c] = States[c] /\ Stages' = [Stages EXCEPT ![c] = state]
<1>1. \A c \in Charges : reversal[c].at = "done" => ChargeState(c) = "recorded"
  BY ReversalTyped DEF ChargeState
<1>2. \A c \in Charges :
        /\ State(c) = IF reversal[c].at = "done" THEN "reversed" ELSE States[c]
        /\ State(c)' = IF reversal[c].at = "done" THEN "reversed" ELSE States'[c]
  BY DEF State, States
<1>3. States' = States => Stages' = Stages
  BY <1>2 DEF Stages
<1>4. ASSUME NEW c \in Charges, NEW state, States[c] # "recorded",
             States' = [States EXCEPT ![c] = state]
      PROVE  Stages[c] = States[c] /\ Stages' = [Stages EXCEPT ![c] = state]
  <2>1. reversal[c].at # "done"
    BY <1>1, <1>4 DEF States
  <2>2. \A d \in Charges : States'[d] = IF d = c THEN state ELSE States[d]
    BY <1>4 DEF States
  <2>3. \A d \in Charges : State(d)' = IF d = c THEN state ELSE State(d)
    BY <1>2, <2>1, <2>2
  <2> QED
    BY <1>2, <2>1, <2>3 DEF Stages
<1> QED
  BY <1>3, <1>4

\* Issuing an invoice opens its account.
LEMMA IssueOpens ==
  ASSUME IInv, [Next]_vars, NEW i \in Invoices, Create(i) \/ CreatePledge(i)
  PROVE  Ledger!Open(i)
<1> USE DEF IInv
<1>1. /\ invoice[i].status = "absent" /\ invoice' \in [Invoices -> InvoiceRow]
      /\ invoice'[i].amountPaid = 0 /\ \A k \in Invoices : k # i => invoice'[k] = invoice[k]
      /\ UNCHANGED <<expired, expiring, charge, reversal, queueVars>>
  BY Issues
<1>2. Stages' = Stages /\ Worths' = Worths /\ Owners' = Owners
  BY <1>1, StatesStay, StagesFollow, OwnersStay DEF queueVars
<1>3. i \notin SingleUse /\ invoice[i].amountPaid = 0
  BY <1>1 DEF SingleUse, NoCreditLostOrDoubled
<1>4. Totals' = Totals
  <2>1. \A x \in Accounts : Total(x)' = Total(x)
    BY <1>1, <1>3 DEF Total
  <2> QED
    BY <2>1 DEF Totals, Accounts
<1>5. /\ Target(i) = 0 /\ i \in Accounts
      /\ \A x \in Accounts : x # i => Target(x)' = Target(x)
  <2>1. \A x \in Accounts : x # i => (x \in SingleUse' <=> x \in SingleUse)
    BY <1>1 DEF SingleUse
  <2>2. \A k \in Invoices : k # i => ClosesAt(k)' = ClosesAt(k)
    BY <1>1 DEF ClosesAt, Fixed
  <2> QED
    BY <1>3, <2>1, <2>2 DEF Target, SingleUse, Accounts
<1>6. Targets' \in [Accounts -> Nat]
  <2>1. \A k \in Invoices : invoice'[k].amountRequested \in Nat
    BY <1>1, Amounts DEF InvoiceRow
  <2>2. \A x \in Accounts : Target(x)' \in Nat
    BY <2>1 DEF Target, SingleUse, ClosesAt, Fixed
  <2> QED
    BY <2>2 DEF Targets, Accounts
<1>7. Targets' = [Targets EXCEPT ![i] = Targets'[i]]
  BY <1>5, <1>6 DEF Targets, Accounts
<1>8. \A c \in Charges : Stages[c] # "free" => Owners[c] # i
  <2>1. \A c \in Charges : charge[c].for # i
    BY <1>1, Names DEF CheckoutReadsHold, Event
  <2>2. \A c \in Charges : Stages[c] # "free" => gateway[c] # "none"
    BY StateOfCharge, ReversalTyped DEF Stages, State
  <2> QED
    BY <2>1, <2>2 DEF Owners, Owner
<1>9. Targets[i] = 0
  BY <1>5 DEF Targets
<1> QED
  BY <1>2, <1>4, <1>6, <1>7, <1>8, <1>9 DEF Ledger!Open, Targets, Totals, Stages, Worths, Owners

\* A charge that the gateway takes is made for its account.
LEMMA ChargeMakes ==
  ASSUME IInv, [Next]_vars, NEW c \in Charges, CheckoutCharges(c) \/ InitiateDeposit(c)
  PROVE  /\ Ledger!Make(c, charge[c].for) /\ charge[c].for \in Accounts
         /\ Stages'[c] # Stages[c]
<1> USE DEF IInv
<1> DEFINE x == charge[c].for
<1>1. /\ charge' \in [Charges -> ChargeRecord] /\ charge'[c].for = x /\ charge'[c].net > 0
      /\ \A d \in Charges : d # c => charge'[d] = charge[d]
      /\ StartsCharge(c) /\ UNCHANGED <<expired, expiring, reversal>>
  <2>1. CASE CheckoutCharges(c)
    <3>1. charge[c].net > 0
      BY <2>1 DEF CheckoutCharges, TypeOK
    <3> QED
      BY <2>1, <3>1, CheckoutEnds DEF CheckoutCharges
  <2>2. CASE InitiateDeposit(c)
    BY <2>2, DepositMade DEF InitiateDeposit
  <2> QED
    BY <2>1, <2>2
<1>2. /\ Stages[c] = "free" /\ Stages' = [Stages EXCEPT ![c] = "made"]
      /\ gateway[c] = "none" /\ gateway'[c] = "pending"
      /\ \A d \in Charges : d # c => gateway'[d] = gateway[d]
  <2>1. States[c] = "free" /\ States' = [States EXCEPT ![c] = "made"]
    BY <1>1, StartIsLedger DEF States
  <2> QED
    BY <1>1, <2>1, StartIsLedger, StagesFollow
<1>3. x \in Accounts
  BY DEF TypeOK, ChargeRecord, Accounts
<1>4. Targets' = Targets /\ Totals' = Totals
  <2>1. CASE CheckoutCharges(c)
    <3>1. CaptureContributorIdentity(c) /\ charge[c].for \in Invoices
      BY <2>1, CheckoutEnds
    <3>2. \A k \in Invoices :
            /\ invoice'[k].status = invoice[k].status
            /\ invoice'[k].permanent = invoice[k].permanent
            /\ invoice'[k].amountRequested = invoice[k].amountRequested
            /\ invoice'[k].amountPaid = invoice[k].amountPaid
      BY <3>1, Captures
    <3> QED
      BY <3>2, AccountsStay
  <2>2. CASE InitiateDeposit(c)
    BY <2>2, DepositMade, AccountsStay
  <2> QED
    BY <2>1, <2>2
<1>5. \A d \in Charges : d # c => Worth(d)' = Worth(d) /\ Owner(d)' = Owner(d)
  BY <1>1, <1>2 DEF Worth, Owner
<1>6. Owner(c)' = x /\ Worth(c)' > 0
  BY <1>1, <1>2 DEF Worth, Owner
<1>7. Worths' \in [Charges -> Nat]
  <2>1. \A d \in Charges : charge'[d].net \in Nat
    BY <1>1, Amounts DEF ChargeRecord
  <2>2. \A d \in Charges : Worth(d)' \in Nat
    BY <2>1 DEF Worth
  <2> QED
    BY <2>2 DEF Worths
<1>8. /\ Worths' = [Worths EXCEPT ![c] = Worths'[c]] /\ Worths'[c] > 0
      /\ Owners' = [Owners EXCEPT ![c] = x]
  BY <1>5, <1>6 DEF Worths, Owners
<1> QED
  <2>1. Ledger!Make(c, x)
    BY <1>2, <1>3, <1>4, <1>7, <1>8 DEF Ledger!Make, Targets, Totals, Stages, Worths, Owners
  <2>2. Stages'[c] # Stages[c]
    BY <1>2 DEF Stages
  <2> QED
    BY <1>3, <2>1, <2>2

\* A commit records a confirmed charge and credits its account, or finds it closed;
\* a commit of another row changes nothing in the ledger.
LEMMA CommitRecords ==
  ASSUME IInv, [Next]_vars, NEW j \in Jobs, Commits(j)
  PROVE  \/ \E c \in Charges : Ledger!Record(c) /\ Stages'[c] # Stages[c]
         \/ UNCHANGED Ledger!ledgerVars
<1> USE DEF IInv
<1> DEFINE c == job[j].charge
           i == charge[c].for
<1>1. PICK from \in InTransaction : CommitsRow(j, from)
  BY DEF Commits, InTransaction
<1>2. /\ c \in Charges /\ gateway' = gateway /\ gateway[c] # "none"
      /\ job[j].claim = "SUCCESS" =>
           Stages[c] = "confirmed" /\ Stages' = [Stages EXCEPT ![c] = "recorded"]
      /\ job[j].claim # "SUCCESS" => Stages' = Stages
  <2>1. /\ c \in Charges /\ gateway' = gateway /\ gateway[c] # "none"
        /\ job[j].claim = "SUCCESS" =>
             States[c] = "confirmed" /\ States' = [States EXCEPT ![c] = "recorded"]
        /\ job[j].claim # "SUCCESS" => States' = States
    BY <1>1, CommitIsLedger DEF States
  <2>2. reversal' = reversal
    BY DEF Commits
  <2> HIDE DEF c
  <2> QED
    BY <2>1, <2>2, StagesFollow
<1>3. Worths' = Worths /\ Owners' = Owners
  BY <1>2, OwnersStay
<1>4. i \in Accounts /\ Owners[c] = i /\ Worths[c] = charge[c].net
  BY <1>2 DEF TypeOK, ChargeRecord, Accounts, Owners, Owner, Worths, Worth
<1>5. CASE job[j].at = "open"
  <2>1. /\ i \in SingleUse /\ i \in Invoices /\ job[j].claim = "SUCCESS"
        /\ \A k \in Invoices :
             /\ invoice'[k].status =
                  IF k = i THEN NextStatus(i, invoice[i].amountPaid + charge[c].net)
                  ELSE invoice[k].status
             /\ invoice'[k].amountPaid =
                  IF k = i THEN invoice[i].amountPaid + charge[c].net ELSE invoice[k].amountPaid
             /\ invoice'[k].permanent = invoice[k].permanent
             /\ invoice'[k].amountRequested = invoice[k].amountRequested
    BY <1>5, Credits
  <2>2. \A k \in Invoices : invoice'[k].status = "absent" <=> invoice[k].status = "absent"
    BY <2>1 DEF SingleUse, NextStatus
  <2>3. Targets' = Targets
    BY <2>1, <2>2, AccountsStay
  <2>4. Totals[i] = invoice[i].amountPaid
    BY <1>4, <2>1 DEF Totals, Total
  <2>5. \A x \in Accounts :
          Total(x)' = IF x = i THEN Totals[i] + Worths[c] ELSE Total(x)
    BY <1>4, <2>1, <2>4 DEF Total
  <2>6. Totals' = [Totals EXCEPT ![i] = Totals[i] + Worths[c]]
    BY <2>5 DEF Totals
  <2>7. Targets[i] > 0
    <3>1. ClosesAt(i) > 0
      BY <2>1, ShapesKept DEF SingleUse
    <3> QED
      BY <1>4, <2>1, <3>1 DEF Targets, Target
  <2>8. Ledger!Record(c)
    <3> HIDE DEF c, i
    <3> QED
      BY <1>2, <1>3, <1>4, <2>1, <2>3, <2>6, <2>7
      DEF Ledger!Record, Targets, Totals, Stages, Worths, Owners
  <2>9. Stages'[c] # Stages[c]
    BY <1>2, <2>1 DEF Stages
  <2> QED
    BY <1>2, <2>8, <2>9
<1>6. CASE job[j].at # "open"
  <2>1. job[j].at = "closed" /\ UNCHANGED invoiceVars
    BY <1>6, CommitsPlain DEF CommitsRow, Moves
  <2>2. Targets' = Targets /\ Totals' = Totals
    BY <2>1, AccountsStay DEF invoiceVars
  <2>3. CASE job[j].claim = "SUCCESS"
    <3>1. \/ Totals[i] >= Targets[i]
          \/ \E d \in Charges : Stages[d] = "reversed" /\ Owners[d] = i
      <4>3. CASE Reduced(i)
        <5>1. PICK d \in Charges : charge[d].for = i /\ reversal[d].at = "done"
          BY <4>3 DEF Reduced
        <5>2. gateway[d] # "none"
          BY <5>1, ReversalTyped
        <5> QED
          BY <5>1, <5>2 DEF Stages, State, Owners, Owner
      <4>1. CASE i \in SingleUse /\ ~Reduced(i)
        <5>1. invoice[i].amountPaid >= ClosesAt(i)
          BY <2>1, <2>3, <4>1 DEF InvoiceReadsHold
        <5> QED
          BY <1>4, <4>1, <5>1 DEF Totals, Total, Targets, Target, SingleUse
      <4>2. CASE i \notin SingleUse
        <5>1. Targets[i] = 0 /\ Totals[i] = Total(i)
          BY <1>4, <4>2 DEF Targets, Target, Totals
        <5>2. Total(i) \in Nat
          BY OwedTyped DEF Total
        <5> QED
          BY <5>1, <5>2
      <4> QED
        BY <4>1, <4>2, <4>3
    <3>2. Ledger!Record(c)
      <4> HIDE DEF c, i
      <4> QED
        BY <1>2, <1>3, <1>4, <2>2, <2>3, <3>1
        DEF Ledger!Record, Targets, Totals, Stages, Worths, Owners
    <3>3. Stages'[c] # Stages[c]
      BY <1>2, <2>3 DEF Stages
    <3> QED
      BY <1>2, <3>2, <3>3
  <2>4. CASE job[j].claim # "SUCCESS"
    BY <1>2, <1>3, <2>2, <2>4 DEF Ledger!ledgerVars, Targets, Totals, Stages, Worths, Owners
  <2> QED
    BY <2>3, <2>4
<1> QED
  BY <1>5, <1>6

\* A reversal that is done reverses a recorded charge.
LEMMA ReversalReverses ==
  ASSUME IInv, [Next]_vars, NEW c \in Charges, ReversalWrites(c)
  PROVE  Ledger!Reverse(c) /\ Stages'[c] # Stages[c]
<1> USE DEF IInv
<1> DEFINE i == charge[c].for
<1>1. /\ i \in SingleUse /\ i \in Invoices /\ row[c] = "SUCCESS" /\ reversal[c].at = "read"
      /\ \A d \in Charges : reversal'[d].at = IF d = c THEN "done" ELSE reversal[d].at
      /\ invoice' \in [Invoices -> InvoiceRow] /\ InStep(i)
      /\ invoice'[i].permanent = invoice[i].permanent
      /\ invoice'[i].amountRequested = invoice[i].amountRequested
      /\ \A k \in Invoices : k # i => invoice'[k] = invoice[k]
      /\ UNCHANGED queueVars
  BY Reverses
<1>2. UNCHANGED <<gateway, row>> /\ gateway[c] # "none"
  BY <1>1 DEF queueVars, TypeOK, QueueTypeOK
<1>3. Worths' = Worths /\ Owners' = Owners /\ Owners[c] = i /\ i \in Accounts
  BY <1>1, <1>2, OwnersStay DEF Owners, Owner, Accounts
<1>4. States' = States /\ States[c] = "recorded"
  BY <1>1, <1>2, StatesStay DEF States, ChargeState
<1>5. Stages[c] = "recorded" /\ Stages' = [Stages EXCEPT ![c] = "reversed"]
  <2>1. \A d \in Charges :
          /\ State(d) = IF reversal[d].at = "done" THEN "reversed" ELSE States[d]
          /\ State(d)' = IF reversal'[d].at = "done" THEN "reversed" ELSE States'[d]
    BY DEF State, States
  <2>2. \A d \in Charges : State(d)' = IF d = c THEN "reversed" ELSE State(d)
    BY <1>1, <1>4, <2>1
  <2> QED
    BY <1>1, <1>4, <2>1, <2>2 DEF Stages
<1>6. Targets' = Targets
  <2>1. \A k \in Invoices : invoice'[k].status = "absent" <=> invoice[k].status = "absent"
    BY <1>1 DEF SingleUse, InStep
  <2> QED
    BY <1>1, <2>1, AccountsStay
<1>7. Totals' \in [Accounts -> Nat] /\ Totals' = [Totals EXCEPT ![i] = Totals'[i]]
  <2>1. \A x \in Accounts : Total(x)' \in Nat
    BY <1>1 DEF Total, InvoiceRow
  <2>2. \A x \in Accounts : x # i => Total(x)' = Total(x)
    BY <1>1 DEF Total
  <2> QED
    BY <2>1, <2>2 DEF Totals
<1>8. Targets[i] # 0
  <2>1. ClosesAt(i) > 0
    BY <1>1, ShapesKept DEF SingleUse
  <2> QED
    BY <1>1, <1>3, <2>1 DEF Targets, Target
<1> HIDE DEF i
<1>9. Ledger!Reverse(c)
  BY <1>3, <1>5, <1>6, <1>7, <1>8 DEF Ledger!Reverse, Targets, Totals, Stages, Worths, Owners
<1>10. Stages'[c] # Stages[c]
  BY <1>5 DEF Stages
<1> QED
  BY <1>9, <1>10

\* A step that moves neither the gateway nor a row nor a total, and ends no reversal,
\* is none of the ledger's.
LEMMA OthersStay ==
  ASSUME IInv, [Next]_vars, UNCHANGED <<gateway, row>>,
         \A c \in Charges : reversal'[c].at = "done" <=> reversal[c].at = "done",
         \A i \in Invoices :
           /\ invoice'[i].status = "absent" <=> invoice[i].status = "absent"
           /\ invoice'[i].permanent = invoice[i].permanent
           /\ invoice'[i].amountRequested = invoice[i].amountRequested
           /\ invoice'[i].amountPaid = invoice[i].amountPaid
  PROVE  UNCHANGED Ledger!ledgerVars
<1>1. Worths' = Worths /\ Owners' = Owners
  BY OwnersStay DEF IInv
<1>2. Stages' = Stages
  BY StatesStay, StagesFollow DEF IInv
<1> QED
  BY <1>1, <1>2, AccountsStay
  DEF Ledger!ledgerVars, Targets, Totals, Stages, Worths, Owners

\* Every step of the settlement is a step of the ledger or none.
LEMMA LedgerStep ==
  ASSUME IInv, [Next]_vars
  PROVE  [Ledger!LedgerNext]_(Ledger!ledgerVars)
<1> DEFINE Goal == Ledger!LedgerNext \/ UNCHANGED Ledger!ledgerVars
<1>1. ASSUME QueueStep /\ UNCHANGED invoiceVars
      PROVE  Goal
  <2>1. Targets' = Targets /\ Totals' = Totals
    BY <1>1, AccountsStay DEF invoiceVars
  <2>2. ASSUME UNCHANGED <<gateway, row>>
        PROVE  Goal
    BY <1>1, <2>2, OthersStay DEF invoiceVars
  <2>3. ASSUME NEW c \in Charges, NEW answer \in {"confirmed", "void"}, ChargeState(c) = "made",
               [d \in Charges |-> ChargeState(d)]'
                 = [[d \in Charges |-> ChargeState(d)] EXCEPT ![c] = answer],
               \A d \in Charges : gateway'[d] = "none" <=> gateway[d] = "none"
        PROVE  Goal
    <3>1. Worths' = Worths /\ Owners' = Owners
      BY <2>3, OwnersStay DEF IInv
    <3>2. Stages[c] = "made" /\ Stages' = [Stages EXCEPT ![c] = answer]
      <4>1. States[c] = "made" /\ States' = [States EXCEPT ![c] = answer]
        BY <2>3 DEF States
      <4> QED
        BY <1>1, <4>1, StagesFollow DEF invoiceVars, IInv
    <3>3. Ledger!Decide(c, answer)
      BY <2>1, <3>1, <3>2 DEF Ledger!Decide, Targets, Totals, Stages, Worths, Owners
    <3>4. Stages'[c] # Stages[c]
      BY <3>2 DEF Stages
    <3> QED
      BY <3>3, <3>4 DEF Ledger!LedgerNext, Stages
  <2> QED
    BY <1>1, <2>2, <2>3, QueueStepIsLedger DEF IInv
<1>2. ASSUME NEW i \in Invoices, Create(i) \/ CreatePledge(i)
      PROVE  Goal
  <2>1. i \in Accounts
    BY DEF Accounts
  <2> QED
    BY <1>2, <2>1, IssueOpens DEF Ledger!LedgerNext
<1>3. ASSUME NEW i \in Invoices, WritesExpired(i)
      PROVE  Goal
  <2>1. /\ i \in SingleUse /\ UNCHANGED <<gateway, row, reversal>>
        /\ \A k \in Invoices :
             /\ invoice'[k].status = IF k = i THEN "EXPIRED" ELSE invoice[k].status
             /\ invoice'[k].permanent = invoice[k].permanent
             /\ invoice'[k].amountRequested = invoice[k].amountRequested
             /\ invoice'[k].amountPaid = invoice[k].amountPaid
    BY <1>3, Expires DEF IInv, WritesExpired, queueVars
  <2>2. \A k \in Invoices : invoice'[k].status = "absent" <=> invoice[k].status = "absent"
    BY <2>1 DEF SingleUse
  <2> QED
    BY <2>1, <2>2, OthersStay
<1>4. ASSUME NEW c \in Charges, CheckoutCharges(c) \/ InitiateDeposit(c)
      PROVE  Goal
  BY <1>4, ChargeMakes DEF Ledger!LedgerNext, Stages
<1>5. ASSUME NEW c \in Charges, CheckoutRefused(c)
      PROVE  Goal
  <2>1. /\ CaptureContributorIdentity(c) /\ charge[c].for \in Invoices
        /\ UNCHANGED <<gateway, row, reversal>>
    BY <1>5, CheckoutEnds DEF IInv, CheckoutRefused, queueVars
  <2>2. \A k \in Invoices :
          /\ invoice'[k].status = invoice[k].status
          /\ invoice'[k].permanent = invoice[k].permanent
          /\ invoice'[k].amountRequested = invoice[k].amountRequested
          /\ invoice'[k].amountPaid = invoice[k].amountPaid
    BY <2>1, Captures DEF IInv
  <2> QED
    BY <2>1, <2>2, OthersStay
<1>6. ASSUME NEW j \in Jobs, Commits(j)
      PROVE  Goal
  BY <1>6, CommitRecords DEF Ledger!LedgerNext, Stages
<1>7. ASSUME invoice' = invoice, UNCHANGED <<gateway, row>>,
             \A c \in Charges : reversal'[c].at = "done" <=> reversal[c].at = "done"
      PROVE  Goal
  BY <1>7, OthersStay
<1>10. ASSUME NEW c \in Charges, ReversalReads(c)
       PROVE  Goal
  <2>1. \A d \in Charges : reversal'[d].at = "done" <=> reversal[d].at = "done"
    BY <1>10 DEF ReversalReads, Stands, IInv, TypeOK
  <2> QED
    BY <1>7, <1>10, <2>1 DEF ReversalReads, queueVars
<1>11. ASSUME NEW c \in Charges, ReversalWrites(c)
       PROVE  Goal
  BY <1>11, ReversalReverses DEF Ledger!LedgerNext, Stages
<1>8. \/ \E i \in Invoices : ExpiryPasses(i) \/ SeesExpired(i)
      \/ \E c \in Charges, i \in Invoices : OpensPage(c, i)
      \/ \E c \in Charges : CheckoutReads(c)
      \/ \E j \in Jobs : Inserts(j)
      \/ UNCHANGED vars
      => invoice' = invoice /\ UNCHANGED <<gateway, row, reversal>>
  BY DEF ExpiryPasses, SeesExpired, OpensPage, CheckoutReads, Inserts, InsertsRow,
      queueVars,
     invoiceVars, vars
<1> HIDE DEF Goal
<1>9. Goal
  BY Cases, <1>1, <1>2, <1>3, <1>4, <1>5, <1>6, <1>7, <1>8, <1>10, <1>11
<1> QED
  BY <1>9 DEF Goal

\* Nothing is issued, charged or credited in the beginning.
LEMMA LedgerStarts == Init => Ledger!LedgerInit
<1> SUFFICES ASSUME Init PROVE Ledger!LedgerInit
  OBVIOUS
<1>1. /\ \A i \in Invoices : invoice[i].status = "absent" /\ invoice[i].amountPaid = 0
      /\ \A c \in Charges : gateway[c] = "none" /\ row[c] = "none"
  BY DEF Init, QueueInit
<1>2. \A x \in Accounts : Target(x) = 0 /\ Total(x) = 0
  BY <1>1 DEF Target, Total, SingleUse
<1>3. \A c \in Charges : State(c) = "free" /\ Worth(c) = 0 /\ Owner(c) = "none"
  BY <1>1 DEF State, ChargeState, Worth, Owner, Init, NoReversal
<1> QED
  BY <1>2, <1>3 DEF Ledger!LedgerInit

\* The settlement keeps the promise of CreditLedger: a running total moves only in
\* the step that records a charge the gateway confirmed, once per charge and by its
\* net amount, or that reverses a recorded one, once; and only an invoice that is
\* closed, or has a charge reversed, is passed over.
THEOREM LedgerKept == Spec => ImplementsLedger
<1>1. IInv /\ [Next]_vars => [Ledger!LedgerNext]_(Ledger!ledgerVars)
  BY LedgerStep
<1> QED
  BY <1>1, LedgerStarts, Inductive, PTL DEF Spec, ImplementsLedger, Ledger!LedgerSpec

-----------------------------------------------------------------------------
(* Personal invoices: the other processor of the queue *)

\* The queue's invariant; an invoice that was not issued has no charge and has not
\* expired; what was paid is what the invoice is for.
PersonalInv ==
  /\ PersonalTypeOK
  /\ QueueInv
  /\ personal.status = "absent" =>
       ~lapsed /\ ~lapsing /\ paying = {} /\ \A c \in Charges : gateway[c] = "none"
  /\ CreditedOnceExactly

\* The confirmed amount less the fee in the charge's metadata is the invoice's.
LEMMA PersonalNetIsAmount == PersonalNet = PersonalAmount /\ PersonalAmount \in Nat \ {0}
<1>1. PersonalAmount \in Nat /\ PlatformFee(PersonalAmount) \in Nat
  BY InvoiceAmount, FeeGrows
<1> QED
  BY <1>1, InvoiceAmount DEF PersonalNet, PersonalGross

\* Every step of a personal invoice is a move of the queue, or leaves it alone.
LEMMA PersonalMovesQueue ==
  ASSUME [PersonalNext]_personalVars
  PROVE  QueueMoves
<1>1. ASSUME UNCHANGED queueVars
      PROVE  QueueMoves
  BY <1>1 DEF QueueMoves
<1>2. ASSUME QueueStep
      PROVE  QueueMoves
  BY <1>2 DEF QueueMoves
<1>3. ASSUME NEW c \in Charges, PayerCharges(c)
      PROVE  QueueMoves
  BY <1>3 DEF QueueMoves, PayerCharges
<1>4. ASSUME NEW j \in Jobs, InsertsPersonal(j)
      PROVE  QueueMoves
  BY <1>4 DEF QueueMoves, InsertsPersonal, InTransaction
<1>5. ASSUME NEW j \in Jobs, CommitsPersonal(j)
      PROVE  QueueMoves
  BY <1>5 DEF QueueMoves, CommitsPersonal, InTransaction
<1> QED
  BY <1>1, <1>2, <1>3, <1>4, <1>5
  DEF PersonalNext, CreatePersonal, PayerReads, PayerRefused, Lapses, SeesLapsed,
      WritesLapsed, personalVars

\* A commit writes the row of a charge that had none, confirmed if it is a SUCCESS.
LEMMA PersonalRow ==
  ASSUME PersonalInv, NEW j \in Jobs, CommitsPersonal(j)
  PROVE  LET c == job[j].charge
         IN  /\ c \in Charges /\ row[c] = "none" /\ gateway[c] # "none"
             /\ row' = [row EXCEPT ![c] = job[j].claim] /\ UNCHANGED gateway
             /\ row \in [Charges -> {"none"} \cup Claims]
             /\ job[j].claim = "SUCCESS" => gateway[c] = "completed"
             /\ personal \in [status : {"absent", "PENDING", "PAID", "EXPIRED"}, amountPaid : Nat]
             /\ personal.status # "absent"
<1> DEFINE c == job[j].charge
<1>1. CommitsRow(j, "open")
  BY DEF CommitsPersonal
<1>2. /\ c \in Charges /\ row[c] = "none" /\ gateway[c] # "none"
      /\ row' = [row EXCEPT ![c] = job[j].claim] /\ UNCHANGED gateway
      /\ row \in [Charges -> {"none"} \cup Claims]
      /\ job[j].claim = "SUCCESS" => gateway[c] = "completed"
  BY <1>1 DEF PersonalInv, QueueInv, QueueTypeOK, JobsKnown, AloneInTransaction, CommitsRow,
     Moves, InTransaction
<1> QED
  BY <1>2 DEF PersonalInv, PersonalTypeOK

\* A commit credits the invoice its own amount the first time and never again.
LEMMA PersonalCommit ==
  ASSUME PersonalInv, NEW j \in Jobs, CommitsPersonal(j)
  PROVE  /\ CreditedOnceExactly'
         /\ personal' \in [status : {"absent", "PENDING", "PAID", "EXPIRED"}, amountPaid : Nat]
         /\ personal'.status # "absent"
<1> DEFINE c == job[j].charge
<1>1. /\ c \in Charges /\ row[c] = "none" /\ row' = [row EXCEPT ![c] = job[j].claim]
      /\ row \in [Charges -> {"none"} \cup Claims]
      /\ personal \in [status : {"absent", "PENDING", "PAID", "EXPIRED"}, amountPaid : Nat]
      /\ personal.status # "absent"
  BY PersonalRow
<1>2. Payments' = IF job[j].claim = "SUCCESS" THEN Payments \cup {c} ELSE Payments
  BY <1>1 DEF Payments
<1> HIDE DEF c
<1>3. CASE job[j].claim = "SUCCESS" /\ personal.status # "PAID"
  <2>1. personal' = [status |-> "PAID", amountPaid |-> PersonalAmount]
    BY <1>3, PersonalNetIsAmount DEF CommitsPersonal
  <2> QED
    BY <1>2, <1>3, <2>1, PersonalNetIsAmount DEF CreditedOnceExactly
<1>4. CASE ~(job[j].claim = "SUCCESS" /\ personal.status # "PAID")
  <2>1. personal' = personal
    BY <1>4 DEF CommitsPersonal
  <2>2. job[j].claim = "SUCCESS" => Payments # {}
    BY <1>4 DEF PersonalInv, CreditedOnceExactly
  <2> QED
    BY <1>1, <1>2, <2>1, <2>2 DEF PersonalInv, CreditedOnceExactly
<1> QED
  BY <1>3, <1>4

\* Every other step leaves the rows, and what was paid.
LEMMA PersonalOthers ==
  ASSUME PersonalInv, [PersonalNext]_personalVars, ~(\E j \in Jobs : CommitsPersonal(j))
  PROVE  /\ row' = row /\ personal'.amountPaid = personal.amountPaid
         /\ personal' \in [status : {"absent", "PENDING", "PAID", "EXPIRED"}, amountPaid : Nat]
         /\ personal'.status = "PAID" => personal.status = "PAID"
         /\ personal'.status = "absent" => personal.status = "absent"
<1> USE DEF PersonalInv, PersonalTypeOK, queueVars, personalRow
<1>1. CASE CreatePersonal
  <2>1. Payments = {}
    BY <1>1 DEF CreatePersonal, Payments, QueueTypeOK
  <2>2. personal.amountPaid = 0
    BY <2>1 DEF CreditedOnceExactly
  <2> QED
    BY <1>1, <2>2 DEF CreatePersonal
<1>2. CASE WritesLapsed
  <2>1. personal' = [personal EXCEPT !.status = "EXPIRED"] /\ row' = row
    BY <1>2 DEF WritesLapsed
  <2> QED
    BY <2>1
<1>3. CASE personal' = personal /\ row' = row
  BY <1>3
<1>4. CASE QueueStep /\ UNCHANGED personalRow
  BY <1>4 DEF QueueStep, GatewayDecides, WebhookArrives, SkipsDuplicate, Verifies, Finishes,
     Retries
<1> QED
  BY <1>1, <1>2, <1>3, <1>4
  DEF PersonalNext, PayerReads, PayerCharges, PayerRefused, StartsCharge, InsertsPersonal,
      InsertsRow, Lapses, SeesLapsed, personalVars

\* An invoice that is not issued is not charged, and a checkout has no charge yet.
LEMMA PersonalIssued ==
  ASSUME PersonalInv, [PersonalNext]_personalVars
  PROVE  /\ personal.status = "absent" /\ personal'.status = "absent" =>
              ~lapsed' /\ ~lapsing' /\ paying' = {} /\ \A c \in Charges : gateway'[c] = "none"
         /\ paying' \in SUBSET {c \in Charges : gateway'[c] = "none"}
         /\ lapsed' \in BOOLEAN /\ lapsing' \in BOOLEAN
<1> DEFINE Goal ==
      /\ personal.status = "absent" /\ personal'.status = "absent" =>
           ~lapsed' /\ ~lapsing' /\ paying' = {} /\ \A c \in Charges : gateway'[c] = "none"
      /\ paying' \in SUBSET {c \in Charges : gateway'[c] = "none"}
      /\ lapsed' \in BOOLEAN /\ lapsing' \in BOOLEAN
<1> USE DEF PersonalInv, PersonalTypeOK, personalRow
<1>1. ASSUME NEW c \in Charges, PayerReads(c)
      PROVE  Goal
  BY <1>1 DEF PayerReads, queueVars
<1>2. ASSUME NEW c \in Charges, PayerCharges(c)
      PROVE  Goal
  <2>1. /\ c \in paying /\ paying' = paying \ {c}
        /\ gateway' = [gateway EXCEPT ![c] = "pending"]
        /\ UNCHANGED <<personal, lapsed, lapsing>>
    BY <1>2 DEF PayerCharges, StartsCharge
  <2>2. personal.status # "absent"
    BY <2>1
  <2>3. \A d \in paying' : d \in Charges /\ gateway'[d] = gateway[d] /\ gateway[d] = "none"
    BY <2>1 DEF QueueTypeOK
  <2> QED
    BY <2>1, <2>2, <2>3
<1>3. ASSUME NEW c \in Charges, PayerRefused(c)
      PROVE  Goal
  BY <1>3 DEF PayerRefused, queueVars
<1>4. ASSUME QueueStep /\ UNCHANGED personalRow
      PROVE  Goal
  <2>1. \A c \in Charges : gateway[c] = "none" => gateway'[c] = "none"
    BY <1>4 DEF QueueStep, GatewayDecides, WebhookArrives, SkipsDuplicate, Verifies, Finishes,
       Retries, QueueTypeOK
  <2> QED
    BY <1>4, <2>1
<1>5. ASSUME NEW j \in Jobs, InsertsPersonal(j) \/ CommitsPersonal(j)
      PROVE  Goal
  BY <1>5 DEF InsertsPersonal, InsertsRow, CommitsPersonal, CommitsRow
<1>6. ASSUME CreatePersonal
      PROVE  Goal
  BY <1>6 DEF CreatePersonal, queueVars
<1>7. ASSUME Lapses
      PROVE  Goal
  BY <1>7 DEF Lapses, queueVars
<1>8. ASSUME SeesLapsed
      PROVE  Goal
  BY <1>8 DEF SeesLapsed, queueVars
<1>9. ASSUME WritesLapsed
      PROVE  Goal
  BY <1>9 DEF WritesLapsed, queueVars
<1>10. ASSUME UNCHANGED personalVars
       PROVE  Goal
  BY <1>10 DEF personalVars, queueVars
<1> HIDE DEF Goal, personalRow
<1>11. Goal
  BY <1>1, <1>2, <1>3, <1>4, <1>5, <1>6, <1>7, <1>8, <1>9, <1>10 DEF PersonalNext
<1> QED
  BY <1>11 DEF Goal

\* A personal invoice is as it should be in the beginning.
LEMMA PersonalStarts == PersonalInit => PersonalInv
<1> SUFFICES ASSUME PersonalInit PROVE PersonalInv
  OBVIOUS
<1>1. QueueInit /\ QueueInv
  BY QueueStarts DEF PersonalInit
<1>2. PersonalTypeOK
  BY <1>1 DEF QueueInv, PersonalTypeOK, PersonalInit
<1>3. Payments = {} /\ \A c \in Charges : gateway[c] = "none"
  BY <1>1 DEF QueueInit, Payments
<1> QED
  BY <1>1, <1>2, <1>3 DEF PersonalInv, CreditedOnceExactly, PersonalInit

\* Every step of it keeps it so.
LEMMA PersonalStep == PersonalInv /\ [PersonalNext]_personalVars => PersonalInv'
<1> SUFFICES ASSUME PersonalInv, [PersonalNext]_personalVars PROVE PersonalInv'
  OBVIOUS
<1>1. QueueInv'
  BY PersonalMovesQueue, QueueInductive DEF PersonalInv
<1>2. /\ CreditedOnceExactly'
      /\ personal' \in [status : {"absent", "PENDING", "PAID", "EXPIRED"}, amountPaid : Nat]
      /\ personal'.status = "absent" => personal.status = "absent"
  <2>1. CASE \E j \in Jobs : CommitsPersonal(j)
    BY <2>1, PersonalCommit
  <2>2. CASE ~(\E j \in Jobs : CommitsPersonal(j))
    BY <2>2, PersonalOthers DEF PersonalInv, CreditedOnceExactly, Payments
  <2> QED
    BY <2>1, <2>2
<1>3. /\ personal'.status = "absent" =>
           ~lapsed' /\ ~lapsing' /\ paying' = {} /\ \A c \in Charges : gateway'[c] = "none"
      /\ paying' \in SUBSET {c \in Charges : gateway'[c] = "none"}
      /\ lapsed' \in BOOLEAN /\ lapsing' \in BOOLEAN
  BY <1>2, PersonalIssued
<1> QED
  BY <1>1, <1>2, <1>3 DEF PersonalInv, PersonalTypeOK, QueueInv

\* The inductive invariant of a personal invoice.
THEOREM PersonalInductive == PersonalSpec => []PersonalInv
BY PersonalStarts, PersonalStep, PTL DEF PersonalSpec

\* The type invariant of a personal invoice.
THEOREM PersonalTypeCorrect == PersonalSpec => []PersonalTypeOK
<1>1. PersonalInv => PersonalTypeOK
  BY DEF PersonalInv
<1> QED
  BY <1>1, PersonalInductive, PTL

\* A personal invoice is credited its own amount, fee excluded, exactly when a
\* payment of it was confirmed, however many payments, duplicates, retries and
\* expiries race.
THEOREM PersonalCreditedOnce == PersonalSpec => []CreditedOnceExactly
<1>1. PersonalInv => CreditedOnceExactly
  BY DEF PersonalInv
<1> QED
  BY <1>1, PersonalInductive, PTL

PersonalTargets == [x \in Account |-> PersonalTarget]
PersonalTotals == [x \in Account |-> personal.amountPaid]
PersonalWorths == [c \in Charges |-> PersonalWorth(c)]
PersonalOwners == [c \in Charges |-> PersonalOwner(c)]

\* What the ledger sees of a personal invoice moves with its row and the gateway.
LEMMA PersonalStays ==
  /\ (personal'.status = "absent" <=> personal.status = "absent")
       => PersonalTargets' = PersonalTargets
  /\ personal'.amountPaid = personal.amountPaid => PersonalTotals' = PersonalTotals
  /\ (\A c \in Charges : gateway'[c] = "none" <=> gateway[c] = "none")
       => PersonalWorths' = PersonalWorths /\ PersonalOwners' = PersonalOwners
<1>1. (\A c \in Charges : gateway'[c] = "none" <=> gateway[c] = "none")
        => \A c \in Charges :
             PersonalWorth(c)' = PersonalWorth(c) /\ PersonalOwner(c)' = PersonalOwner(c)
  BY DEF PersonalWorth, PersonalOwner
<1> QED
  BY <1>1 DEF PersonalTargets, PersonalTarget, PersonalTotals, PersonalWorths, PersonalOwners

\* Issuing opens the account.
LEMMA PersonalOpens ==
  ASSUME PersonalInv, CreatePersonal
  PROVE  PersonalCredit!Open("personal")
<1>1. /\ personal.status = "absent" /\ personal' = [status |-> "PENDING", amountPaid |-> 0]
      /\ UNCHANGED <<gateway, row>> /\ \A c \in Charges : gateway[c] = "none"
  BY DEF CreatePersonal, queueVars, PersonalInv
<1>2. personal.amountPaid = 0
  <2>1. Payments = {}
    BY <1>1 DEF Payments, PersonalInv, PersonalTypeOK, QueueTypeOK
  <2> QED
    BY <2>1 DEF PersonalInv, CreditedOnceExactly
<1>3. /\ PersonalTotals' = PersonalTotals /\ States' = States
      /\ PersonalWorths' = PersonalWorths /\ PersonalOwners' = PersonalOwners
  BY <1>1, <1>2, PersonalStays, StatesStay
<1>4. PersonalTargets["personal"] = 0 /\ PersonalTargets' = [x \in Account |-> PersonalAmount]
  BY <1>1 DEF PersonalTargets, PersonalTarget, Account
<1>5. /\ PersonalTargets' \in [Account -> Nat]
      /\ PersonalTargets' =
           [PersonalTargets EXCEPT !["personal"] = PersonalTargets'["personal"]]
  BY <1>4, PersonalNetIsAmount DEF PersonalTargets, Account
<1>6. \A c \in Charges : States[c] = "free"
  BY <1>1, StateOfCharge DEF States, PersonalInv
<1> QED
  BY <1>3, <1>4, <1>5, <1>6
  DEF PersonalCredit!Open, PersonalTargets, PersonalTotals, States, PersonalWorths, PersonalOwners

\* A checkout's charge is made for the invoice.
LEMMA PersonalMakes ==
  ASSUME PersonalInv, NEW c \in Charges, PayerCharges(c)
  PROVE  PersonalCredit!Make(c, "personal") /\ States'[c] # States[c]
<1>1. personal' = personal /\ StartsCharge(c)
  BY DEF PayerCharges
<1>2. /\ States[c] = "free" /\ States' = [States EXCEPT ![c] = "made"]
      /\ gateway'[c] = "pending" /\ \A d \in Charges : d # c => gateway'[d] = gateway[d]
  BY <1>1, StartIsLedger DEF States, PersonalInv
<1>3. PersonalTargets' = PersonalTargets /\ PersonalTotals' = PersonalTotals
  BY <1>1, PersonalStays
<1>4. /\ \A d \in Charges : d # c =>
           PersonalWorth(d)' = PersonalWorth(d) /\ PersonalOwner(d)' = PersonalOwner(d)
      /\ PersonalWorth(c)' = PersonalAmount /\ PersonalOwner(c)' = "personal"
      /\ \A d \in Charges : PersonalWorth(d)' \in Nat
  BY <1>2, PersonalNetIsAmount DEF PersonalWorth, PersonalOwner
<1>5. /\ PersonalWorths' \in [Charges -> Nat] /\ PersonalWorths'[c] > 0
      /\ PersonalWorths' = [PersonalWorths EXCEPT ![c] = PersonalWorths'[c]]
      /\ PersonalOwners' = [PersonalOwners EXCEPT ![c] = "personal"]
  <2>1. PersonalWorths' \in [Charges -> Nat]
    BY <1>4 DEF PersonalWorths
  <2>2. PersonalWorths'[c] > 0
    BY <1>4, PersonalNetIsAmount DEF PersonalWorths
  <2>3. PersonalWorths' = [PersonalWorths EXCEPT ![c] = PersonalWorths'[c]]
    BY <1>4 DEF PersonalWorths
  <2>4. PersonalOwners' = [PersonalOwners EXCEPT ![c] = "personal"]
    BY <1>4 DEF PersonalOwners
  <2> QED
    BY <2>1, <2>2, <2>3, <2>4
<1>6. PersonalCredit!Make(c, "personal")
  BY <1>2, <1>3, <1>5
  DEF PersonalCredit!Make, PersonalTargets, PersonalTotals, States, PersonalWorths, PersonalOwners
<1>7. States'[c] # States[c]
  BY <1>2 DEF States
<1> QED
  BY <1>6, <1>7

\* A commit of a SUCCESS records the charge and credits the invoice, or finds it
\* credited already.
LEMMA PersonalRecords ==
  ASSUME PersonalInv, NEW j \in Jobs, CommitsPersonal(j)
  PROVE  \/ \E c \in Charges : PersonalCredit!Record(c) /\ States'[c] # States[c]
         \/ UNCHANGED PersonalCredit!ledgerVars
<1>1. CommitsRow(j, "open")
  BY DEF CommitsPersonal
<1>2. PICK c \in Charges :
        /\ c = job[j].charge /\ gateway' = gateway /\ gateway[c] # "none"
        /\ job[j].claim = "SUCCESS" =>
             States[c] = "confirmed" /\ States' = [States EXCEPT ![c] = "recorded"]
        /\ job[j].claim # "SUCCESS" => States' = States
  BY <1>1, CommitIsLedger DEF States, PersonalInv, InTransaction
<1>3. /\ personal.status # "absent" /\ personal'.status # "absent"
      /\ personal.amountPaid \in {0, PersonalAmount}
      /\ personal.status = "PAID" => personal.amountPaid = PersonalAmount
  BY PersonalRow, PersonalCommit DEF PersonalInv, CreditedOnceExactly
<1>4. /\ PersonalTargets' = PersonalTargets /\ PersonalWorths' = PersonalWorths
      /\ PersonalOwners' = PersonalOwners
  BY <1>2, <1>3, PersonalStays
<1>5. /\ PersonalOwners[c] = "personal" /\ PersonalWorths[c] = PersonalAmount
      /\ PersonalTargets["personal"] = PersonalAmount
      /\ PersonalTotals["personal"] = personal.amountPaid
  BY <1>2, <1>3 DEF PersonalOwners, PersonalOwner, PersonalWorths, PersonalWorth,
     PersonalTargets, PersonalTarget, PersonalTotals, Account
<1>6. CASE job[j].claim = "SUCCESS" /\ personal.amountPaid = 0
  <2>1. personal'.amountPaid = PersonalAmount
    BY <1>3, <1>6, PersonalNetIsAmount DEF CommitsPersonal
  <2>2. PersonalTotals' = [PersonalTotals EXCEPT !["personal"] = @ + PersonalWorths[c]]
    BY <1>5, <1>6, <2>1, PersonalNetIsAmount DEF PersonalTotals, Account
  <2>3. /\ PersonalTargets[PersonalOwners[c]] > 0
        /\ PersonalTotals' =
             [PersonalTotals EXCEPT ![PersonalOwners[c]] = @ + PersonalWorths[c]]
    BY <1>5, <2>2, PersonalNetIsAmount
  <2>4. PersonalCredit!Record(c)
    BY <1>2, <1>4, <1>6, <2>3
    DEF PersonalCredit!Record, PersonalTargets, PersonalTotals, States, PersonalWorths,
        PersonalOwners
  <2>5. States'[c] # States[c]
    BY <1>2, <1>6 DEF States
  <2> QED
    BY <2>4, <2>5
<1>7. CASE job[j].claim = "SUCCESS" /\ personal.amountPaid = PersonalAmount
  <2>1. personal'.amountPaid = PersonalAmount
    BY <1>7, PersonalNetIsAmount DEF CommitsPersonal
  <2>2. PersonalTotals' = PersonalTotals
    BY <1>7, <2>1, PersonalStays
  <2>3. PersonalCredit!Record(c)
    BY <1>2, <1>4, <1>5, <1>7, <2>2, PersonalNetIsAmount
    DEF PersonalCredit!Record, PersonalTargets, PersonalTotals, States, PersonalWorths,
        PersonalOwners
  <2>4. States'[c] # States[c]
    BY <1>2, <1>7 DEF States
  <2> QED
    BY <2>3, <2>4
<1>8. CASE job[j].claim # "SUCCESS"
  <2>1. PersonalTotals' = PersonalTotals
    BY <1>8, PersonalStays DEF CommitsPersonal
  <2> QED
    BY <1>2, <1>4, <1>8, <2>1
    DEF PersonalCredit!ledgerVars, PersonalTargets, PersonalTotals, States, PersonalWorths,
        PersonalOwners
<1> QED
  BY <1>3, <1>6, <1>7, <1>8

\* Every step of a personal invoice is a step of the ledger or none.
LEMMA PersonalLedgerStep ==
  ASSUME PersonalInv, [PersonalNext]_personalVars
  PROVE  [PersonalCredit!LedgerNext]_(PersonalCredit!ledgerVars)
<1> DEFINE Goal == PersonalCredit!LedgerNext \/ UNCHANGED PersonalCredit!ledgerVars
<1>1. ASSUME UNCHANGED <<gateway, row>>, personal'.amountPaid = personal.amountPaid,
             personal'.status = "absent" <=> personal.status = "absent"
      PROVE  Goal
  BY <1>1, PersonalStays, StatesStay
  DEF PersonalCredit!ledgerVars, PersonalTargets, PersonalTotals, States, PersonalWorths,
      PersonalOwners
<1>2. ASSUME QueueStep /\ UNCHANGED personalRow
      PROVE  Goal
  <2>1. personal' = personal
    BY <1>2 DEF personalRow
  <2>2. ASSUME NEW c \in Charges, NEW answer \in {"confirmed", "void"}, ChargeState(c) = "made",
               [d \in Charges |-> ChargeState(d)]'
                 = [[d \in Charges |-> ChargeState(d)] EXCEPT ![c] = answer],
               \A d \in Charges : gateway'[d] = "none" <=> gateway[d] = "none"
        PROVE  Goal
    <3>1. PersonalCredit!Decide(c, answer)
      BY <2>1, <2>2, PersonalStays
      DEF PersonalCredit!Decide, PersonalTargets, PersonalTotals, PersonalWorths, PersonalOwners
    <3>2. States'[c] # States[c]
      BY <2>2 DEF States
    <3> QED
      BY <3>1, <3>2 DEF PersonalCredit!LedgerNext, States
  <2> QED
    BY <1>1, <1>2, <2>1, <2>2, QueueStepIsLedger DEF PersonalInv
<1>3. ASSUME CreatePersonal
      PROVE  Goal
  BY <1>3, PersonalOpens DEF PersonalCredit!LedgerNext, Account
<1>4. ASSUME NEW c \in Charges, PayerCharges(c)
      PROVE  Goal
  BY <1>4, PersonalMakes DEF PersonalCredit!LedgerNext, Account, States
<1>5. ASSUME NEW j \in Jobs, CommitsPersonal(j)
      PROVE  Goal
  BY <1>5, PersonalRecords DEF PersonalCredit!LedgerNext, States
<1>6. ASSUME WritesLapsed
      PROVE  Goal
  <2>1. /\ personal.status # "absent" /\ UNCHANGED <<gateway, row>>
        /\ personal' = [personal EXCEPT !.status = "EXPIRED"]
        /\ personal \in [status : {"absent", "PENDING", "PAID", "EXPIRED"}, amountPaid : Nat]
    BY <1>6 DEF WritesLapsed, queueVars, PersonalInv, PersonalTypeOK
  <2>2. personal'.status # "absent" /\ personal'.amountPaid = personal.amountPaid
    BY <2>1
  <2> QED
    BY <1>1, <2>1, <2>2
<1>7. (\E c \in Charges : PayerReads(c) \/ PayerRefused(c))
        \/ (\E j \in Jobs : InsertsPersonal(j)) \/ Lapses \/ SeesLapsed \/ UNCHANGED personalVars
      => personal' = personal /\ UNCHANGED <<gateway, row>>
  BY DEF PayerReads, PayerRefused, InsertsPersonal, InsertsRow, Lapses, SeesLapsed, queueVars,
     personalRow, personalVars
<1> HIDE DEF Goal
<1>8. Goal
  BY <1>1, <1>2, <1>3, <1>4, <1>5, <1>6, <1>7 DEF PersonalNext
<1> QED
  BY <1>8 DEF Goal

\* No personal invoice is open in the beginning.
LEMMA PersonalLedgerStarts == PersonalInit => PersonalCredit!LedgerInit
<1> SUFFICES ASSUME PersonalInit PROVE PersonalCredit!LedgerInit
  OBVIOUS
<1>1. /\ personal.status = "absent" /\ personal.amountPaid = 0
      /\ \A c \in Charges : gateway[c] = "none" /\ row[c] = "none"
  BY DEF PersonalInit, QueueInit
<1>2. \A c \in Charges : ChargeState(c) = "free" /\ PersonalWorth(c) = 0 /\ PersonalOwner(c) = "none"
  BY <1>1 DEF ChargeState, PersonalWorth, PersonalOwner
<1> QED
  BY <1>1, <1>2 DEF PersonalCredit!LedgerInit, PersonalTarget

\* The second processor keeps the same promise: one confirmed payment brings in the
\* invoice's amount, in the step that records it, and nothing moves the total again.
THEOREM PersonalLedgerKept == PersonalSpec => PersonalLedger
<1>1. PersonalInv /\ [PersonalNext]_personalVars
        => [PersonalCredit!LedgerNext]_(PersonalCredit!ledgerVars)
  BY PersonalLedgerStep
<1> QED
  BY <1>1, PersonalLedgerStarts, PersonalInductive, PTL
  DEF PersonalSpec, PersonalLedger, PersonalCredit!LedgerSpec

=============================================================================

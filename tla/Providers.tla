----------------------------- MODULE Providers -----------------------------
(***************************************************************************)
(* What PawaPayProvider and PaystackProvider make of the gateways' words.  *)
(*                                                                         *)
(* The services know four words for a payment, three for a refund and four *)
(* for a dispute; each gateway has its own.  The functions below are the   *)
(* translations, and the sets are the words a gateway uses of a charge,    *)
(* a refund or a dispute that stands as their index says (external).       *)
(*                                                                         *)
(* Every country is served by PawaPay now; Paystack's charges are those    *)
(* from before, which are still confirmed, refunded and disputed there.    *)
(***************************************************************************)

GatewayNames == {"PAWAPAY", "PAYSTACK"}

-----------------------------------------------------------------------------
(* Charges *)

\* PawaPayProvider: mapDepositStatus
MapDepositStatus(status) ==
  CASE status = "COMPLETED" -> "SUCCESS"
    [] status = "FAILED" -> "FAILED"
    [] OTHER -> "PENDING"

\* PaystackProvider: mapStatus
MapStatus(event, status) ==
  IF event = "charge.success" \/ status = "success" THEN "SUCCESS"
  ELSE IF event = "charge.failed" \/ status = "failed" THEN "FAILED"
  ELSE "PENDING"

\* What a gateway says of a charge (external).
ChargeWords == [
  PAWAPAY  |-> [pending |-> {"ACCEPTED", "PROCESSING", "IN_RECONCILIATION"},
                completed |-> {"COMPLETED"}, failed |-> {"FAILED"}],
  PAYSTACK |-> [pending |-> {"pending", "ongoing", "abandoned"},
                completed |-> {"success"}, failed |-> {"failed"}]]

\* The webhook about it, as parseWebhookEvent reads it.
PaystackEvent(word) ==
  CASE word = "success" -> "charge.success"
    [] word = "failed" -> "charge.failed"
    [] OTHER -> "charge.update"

ParseWebhookEvent(name, word) ==
  IF name = "PAWAPAY" THEN MapDepositStatus(word)
  ELSE MapStatus(PaystackEvent(word), word)

\* Mutant: an answer is taken as a confirmation.
VerifyTransactionAny(name, word) == "SUCCESS"

\* The answer to a lookup, as verifyTransaction reads it.
VerifyTransaction(name, word) ==
  IF name = "PAWAPAY" THEN MapDepositStatus(word) ELSE MapStatus("", word)

-----------------------------------------------------------------------------
(* Refunds *)

\* What a gateway says of a refund (external).
RefundWords == [
  PAWAPAY  |-> [accepted |-> {"ACCEPTED", "ENQUEUED", "PROCESSING", "IN_RECONCILIATION"},
                done |-> {"COMPLETED"}, failed |-> {"FAILED"}],
  PAYSTACK |-> [accepted |-> {"refund.pending", "refund.processing"},
                done |-> {"refund.processed"}, failed |-> {"refund.failed"}]]

\* parseRefundWebhookEvent, parseRefundCallback: any other word is a failure.
RefundSucceeded(name, word) ==
  word = (IF name = "PAWAPAY" THEN "COMPLETED" ELSE "refund.processed")

-----------------------------------------------------------------------------
(* Disputes, at Paystack only *)

\* mapDisputeStatus
MapDisputeStatus(status) ==
  CASE status = "awaiting-bank-feedback" -> "AWAITING_BANK_FEEDBACK"
    [] status = "resolved" -> "RESOLVED"
    [] status = "pending" -> "PENDING"
    [] OTHER -> "AWAITING_MERCHANT_FEEDBACK"

\* Status and resolution of a dispute the bank has open, or has decided
\* (external).
DisputeWords == [
  open |-> {"awaiting-merchant-feedback", "awaiting-bank-feedback", "pending"}
             \X {"none"},
  won  |-> {<<"resolved", "declined">>},
  lost |-> {<<"resolved", "merchant-accepted">>}]

\* Mutant: every resolution is taken as lost.
DisputeOutcomeAnyResolution(status, resolution) ==
  IF MapDisputeStatus(status) = "RESOLVED" THEN "lost" ELSE "open"

\* What handleDisputeEvent tells apart: only a RESOLVED dispute whose resolution
\* is merchant-accepted is lost.
DisputeOutcome(status, resolution) ==
  CASE MapDisputeStatus(status) # "RESOLVED" -> "open"
    [] resolution = "merchant-accepted" -> "lost"
    [] OTHER -> "won"

=============================================================================

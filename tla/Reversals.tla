----------------------------- MODULE Reversals ------------------------------
(***************************************************************************)
(* Taking a contribution back: refunds and lost disputes of the            *)
(* transactions on one single-use invoice (TransactionsService).           *)
(*                                                                         *)
(* refund() checks, calls the gateway and upserts the refund row, without a*)
(* transaction around the three.  completeRefund() and handleDisputeEvent()*)
(* read the row, the transaction and the invoice first and then, in a      *)
(* database transaction, write what they computed from that reading: the   *)
(* new amountPaid is an absolute value.  Any number of them, and the        *)
(* crediting of other payments, run between the two.                       *)
(*                                                                         *)
(* A refund() call and the reference it gets from the gateway have one     *)
(* name.  Handlers are the requests and queue workers at work at a time.   *)
(***************************************************************************)
EXTENDS Integers, Money, Providers

CONSTANTS
  Txns,       \* transactions on the invoice
  Amount,     \* amountSettled of each
  Target,     \* amountRequested of the invoice, 0 if it has none
  Attempts,   \* calls of refund()
  NoAttempt,  \* no providerReference
  Handlers,   \* callbacks and dispute jobs handled at the same time
  Gateway,    \* gateway of each: "PAWAPAY", or "PAYSTACK" with disputes
  ReportsInterim, \* whether the gateways tell of refunds under way as well
  MaxEchoes   \* bound: redeliveries and handler failures

ASSUME SomeRows == IsFiniteSet(Txns) /\ Txns # {} /\ Amount \in [Txns -> Nat \ {0}]
ASSUME TargetAmount == Target \in Nat
ASSUME GatewayName == Gateway \in [Txns -> GatewayNames] /\ ReportsInterim \in BOOLEAN
ASSUME EchoBound == NoAttempt \notin Attempts /\ MaxEchoes \in Nat

VARIABLES
  txn,        \* status of each transaction row
  invoice,    \* status, amountPaid, and how far its expiresAt is
  refund,     \* status and providerReference of each transaction's refund row
  attempt,    \* each refund() call: its transaction and where it stands
  gateway,    \* what the gateway did with each call
  callbacks,  \* refund events still to be delivered, as the provider parsed them
  bank,       \* what the payer's bank decided about each transaction
  notices,    \* dispute events still to be delivered, in any order
  dispute,    \* status of each transaction's dispute row
  handler,    \* what each handler at work has read
  echoes,     \* redeliveries and failures so far
  history     \* credited and lost results, and how totals were disturbed

vars == <<txn, invoice, refund, attempt, gateway, callbacks, bank, notices,
          dispute, handler, echoes, history>>

\* "writing": it was read as expired and not paid, and is about to be written so.
InvoiceRow == [status : {"PENDING", "PARTIALLY_PAID", "PAID", "EXPIRED"}, amountPaid : Nat,
               expiry : {"ahead", "passed", "writing"}]

refundVars == <<refund, attempt, gateway, callbacks>>
disputeVars == <<bank, notices, dispute>>

Idle == [task |-> "idle"]
Tasks ==
  {Idle}
  \cup [task : {"refund"}, txn : Txns, result : Attempts \X BOOLEAN, paid : Nat]
  \cup [task : {"dispute"}, txn : Txns, paid : Nat]

-----------------------------------------------------------------------------
TypeOK ==
  /\ txn \in [Txns -> {"none", "SUCCESS", "REFUNDED"}]
  /\ invoice \in InvoiceRow
  /\ refund \in [Txns -> [status : {"none", "PROCESSING", "COMPLETED", "FAILED"},
                          ref : Attempts \cup {NoAttempt}]]
  /\ attempt \in [Attempts -> [txn : Txns, at : {"idle", "calling", "accepted",
                                                 "rejected", "returned", "broken"}]]
  /\ gateway \in [Attempts -> {"none", "accepted", "rejected", "done", "failed"}]
  /\ callbacks \subseteq Attempts \X BOOLEAN
  /\ bank \in [Txns -> {"none", "open", "won", "lost"}]
  /\ notices \subseteq Txns \X {"open", "won", "lost"}
  /\ dispute \in [Txns -> {"none", "open", "won", "lost"}]
  /\ handler \in [Handlers -> Tasks]
  /\ echoes \in 0 .. MaxEchoes
  /\ history \in [credited : SUBSET Txns, dropped : SUBSET Attempts, interim : SUBSET Attempts,
                  stale : BOOLEAN, twice : BOOLEAN, uncredited : BOOLEAN]
  \* A refund row that has a status was made for a settled transaction.
  /\ \A t \in Txns : refund[t].status # "none" => txn[t] # "none"

Init ==
  /\ txn = [t \in Txns |-> "none"]
  /\ invoice = [status |-> "PENDING", amountPaid |-> 0, expiry |-> "ahead"]
  /\ refund = [t \in Txns |-> [status |-> "none", ref |-> NoAttempt]]
  /\ attempt = [a \in Attempts |-> [txn |-> CHOOSE t \in Txns : TRUE, at |-> "idle"]]
  /\ gateway = [a \in Attempts |-> "none"]
  /\ callbacks = {}
  /\ bank = [t \in Txns |-> "none"]
  /\ notices = {}
  /\ dispute = [t \in Txns |-> "none"]
  /\ handler = [h \in Handlers |-> Idle]
  /\ echoes = 0
  /\ history = [credited |-> {}, dropped |-> {}, interim |-> {},
                stale |-> FALSE, twice |-> FALSE, uncredited |-> FALSE]

-----------------------------------------------------------------------------
\* WebhookProcessor commits a payment: its row, and its credit while the invoice
\* is not PAID, expired or not (module Settlement has the steps of it).
Credits(t) ==
  LET paid == invoice.amountPaid + Amount[t]
  IN /\ txn[t] = "none"
     /\ txn' = [txn EXCEPT ![t] = "SUCCESS"]
     /\ IF invoice.status # "PAID"
          THEN /\ invoice' = [invoice EXCEPT
                    !.status = IF paid >= Target THEN "PAID" ELSE "PARTIALLY_PAID",
                    !.amountPaid = paid]
               /\ history' = [history EXCEPT !.credited = @ \cup {t}]
          ELSE UNCHANGED <<invoice, history>>
     /\ UNCHANGED <<refundVars, disputeVars, handler, echoes>>

\* expiresAt passes; a reader who finds the invoice expired and not paid, on the
\* pay page or at a checkout ...
ExpiryMoves ==
  /\ \/ invoice.expiry = "ahead" /\ invoice' = [invoice EXCEPT !.expiry = "passed"]
     \/ /\ invoice.expiry = "passed" /\ invoice.status # "PAID"
        /\ invoice' = [invoice EXCEPT !.expiry = "writing"]
  /\ UNCHANGED <<txn, refundVars, disputeVars, handler, echoes, history>>

\* ... writes EXPIRED, whatever it is by then.
WritesExpired ==
  /\ invoice.expiry = "writing"
  /\ invoice' = [invoice EXCEPT !.status = "EXPIRED", !.expiry = "passed"]
  /\ UNCHANGED <<txn, refundVars, disputeVars, handler, echoes, history>>

-----------------------------------------------------------------------------
(* refund() *)

\* Mutant: the transaction need not have settled.
RefundChecksAny(a, t) ==
  /\ attempt[a].at = "idle"
  /\ refund[t].status \in {"none", "FAILED"}
  /\ attempt' = [attempt EXCEPT ![a] = [txn |-> t, at |-> "calling"]]
  /\ UNCHANGED <<txn, invoice, refund, gateway, callbacks, disputeVars, handler, echoes, history>>

\* The checks: settled, and no refund row that is not FAILED.
RefundChecks(a, t) ==
  /\ attempt[a].at = "idle"
  /\ txn[t] = "SUCCESS"
  /\ refund[t].status \in {"none", "FAILED"}
  /\ attempt' = [attempt EXCEPT ![a] = [txn |-> t, at |-> "calling"]]
  /\ UNCHANGED <<txn, invoice, refund, gateway, callbacks, disputeVars, handler, echoes, history>>

\* The upsert.  PawaPay's reference is chosen by the caller and always written;
\* Paystack's comes with its acceptance, and an absent one leaves the column.
RefundRecords(a) ==
  LET t == attempt[a].txn
      accepted == attempt[a].at = "accepted"
  IN /\ attempt[a].at \in {"accepted", "rejected"}
     /\ refund' = [refund EXCEPT ![t] =
          [status |-> IF accepted THEN "PROCESSING" ELSE "FAILED",
           ref |-> IF accepted \/ Gateway[t] = "PAWAPAY" THEN a ELSE @.ref]]
     /\ attempt' = [attempt EXCEPT ![a].at = "returned"]
     /\ UNCHANGED <<txn, invoice, gateway, callbacks, disputeVars, handler, echoes, history>>

\* The call throws or the process stops before the upsert.
RefundBreaks(a) ==
  /\ attempt[a].at \in {"calling", "accepted", "rejected"}
  /\ attempt' = [attempt EXCEPT ![a].at = "broken"]
  /\ UNCHANGED <<txn, invoice, refund, gateway, callbacks, disputeVars, handler, echoes, history>>

-----------------------------------------------------------------------------
(* The gateway and the payer's bank (external) *)

\* The gateway never takes a second refund of one charge while the first stands.
GatewayAnswers(a) ==
  /\ attempt[a].at \in {"calling", "broken"}
  /\ gateway[a] = "none"
  /\ \E answer \in {"accepted", "rejected"} :
       /\ answer = "accepted" =>
            \A b \in Attempts :
              attempt[b].txn = attempt[a].txn => gateway[b] \notin {"accepted", "done"}
       /\ gateway' = [gateway EXCEPT ![a] = answer]
       /\ attempt' = [attempt EXCEPT ![a].at = IF @ = "calling" THEN answer ELSE @]
  /\ UNCHANGED <<txn, invoice, refund, callbacks, disputeVars, handler, echoes, history>>

\* An event about the refund, delivered to us as the provider parses it.
Tells(a, standing) ==
  LET name == Gateway[attempt[a].txn]
  IN \E word \in RefundWords[name][standing] :
       callbacks' = callbacks \cup {<<a, RefundSucceeded(name, word)>>}

GatewaySettles(a) ==
  /\ gateway[a] = "accepted"
  /\ \E o \in {"done", "failed"} : gateway' = [gateway EXCEPT ![a] = o] /\ Tells(a, o)
  /\ UNCHANGED <<txn, invoice, refund, attempt, disputeVars, handler, echoes, history>>

\* The refund is under way.  Both controllers hand on every refund event.
GatewayReports(a) ==
  /\ ReportsInterim /\ gateway[a] = "accepted" /\ a \notin history.interim
  /\ Tells(a, "accepted")
  /\ history' = [history EXCEPT !.interim = @ \cup {a}]
  /\ UNCHANGED <<txn, invoice, refund, attempt, gateway, disputeVars, handler, echoes>>

GatewayRedelivers(a) ==
  /\ gateway[a] \in {"done", "failed"}
  /\ echoes < MaxEchoes
  /\ echoes' = echoes + 1
  /\ Tells(a, gateway[a])
  /\ callbacks' # callbacks
  /\ UNCHANGED <<txn, invoice, refund, attempt, gateway, disputeVars, handler, history>>

BankMoves(t) ==
  /\ Gateway[t] = "PAYSTACK"
  /\ txn[t] # "none"
  /\ \E next \in {"open", "won", "lost"} :
       /\ bank[t] = (IF next = "open" THEN "none" ELSE "open")
       /\ bank' = [bank EXCEPT ![t] = next]
       /\ \E w \in DisputeWords[next] :
            notices' = notices \cup {<<t, DisputeOutcome(w[1], w[2])>>}
  /\ UNCHANGED <<txn, invoice, refundVars, dispute, handler, echoes, history>>

-----------------------------------------------------------------------------
(* reverseTransactionCredit *)

\* Mutant: an invoice with nothing left stays PARTIALLY_PAID.
ReversedOpen(paid, t) ==
  LET left == IF paid > Amount[t] THEN paid - Amount[t] ELSE 0
  IN [invoice EXCEPT !.amountPaid = left,
                     !.status = IF left >= Target THEN "PAID" ELSE "PARTIALLY_PAID"]

\* Mutant: the whole total is taken back.
ReversedWhole(paid, t) == [invoice EXCEPT !.amountPaid = 0, !.status = "PENDING"]

\* The total is computed from the invoice as the handler read it.
Reversed(paid, t) ==
  LET left == IF paid > Amount[t] THEN paid - Amount[t] ELSE 0
  IN [invoice EXCEPT !.amountPaid = left,
                     !.status = IF left = 0 THEN "PENDING"
                                ELSE IF left >= Target THEN "PAID" ELSE "PARTIALLY_PAID"]

ReverseCredit(t, paid) ==
  /\ txn' = [txn EXCEPT ![t] = "REFUNDED"]
  /\ invoice' = Reversed(paid, t)
  /\ history' = [history EXCEPT
       !.stale = @ \/ paid # invoice.amountPaid,
       !.twice = @ \/ txn[t] # "SUCCESS",
       !.uncredited = @ \/ t \notin history.credited]

-----------------------------------------------------------------------------
(* completeRefund *)

\* No refund row has the reference: answered, nothing to update.
CallbackUnknown(result) ==
  /\ result \in callbacks
  /\ \A t \in Txns : refund[t].ref # result[1]
  /\ callbacks' = callbacks \ {result}
  /\ history' = [history EXCEPT !.dropped = @ \cup {result[1]}]
  /\ UNCHANGED <<txn, invoice, refund, attempt, gateway, disputeVars, handler, echoes>>

\* The row is COMPLETED or FAILED already: taken for a redelivered callback.
CallbackKnown(result, t) ==
  /\ result \in callbacks
  /\ refund[t].ref = result[1]
  /\ refund[t].status \in {"COMPLETED", "FAILED"}
  /\ callbacks' = callbacks \ {result}
  /\ UNCHANGED <<txn, invoice, refund, attempt, gateway, disputeVars, handler, echoes, history>>

\* The row, its transaction and the invoice are read ...
CallbackReads(h, result, t) ==
  /\ handler[h] = Idle
  /\ result \in callbacks
  /\ refund[t].ref = result[1]
  /\ refund[t].status = "PROCESSING"
  /\ callbacks' = callbacks \ {result}
  /\ handler' = [handler EXCEPT ![h] =
       [task |-> "refund", txn |-> t, result |-> result, paid |-> invoice.amountPaid]]
  /\ UNCHANGED <<txn, invoice, refund, attempt, gateway, disputeVars, echoes, history>>

\* Mutant: a failed refund is left as it is.
RefundCompletesOnSuccess(h) ==
  LET t == handler[h].txn
      succeeded == handler[h].result[2]
  IN /\ handler[h].task = "refund"
     /\ \/ /\ succeeded /\ ReverseCredit(t, handler[h].paid)
           /\ refund' = [refund EXCEPT ![t].status = "COMPLETED"]
        \/ ~succeeded /\ UNCHANGED <<txn, invoice, history, refund>>
     /\ handler' = [handler EXCEPT ![h] = Idle]
     /\ UNCHANGED <<attempt, gateway, callbacks, disputeVars, echoes>>

\* ... and the refund row is closed, with the reversal if the money went back.
RefundCompletes(h) ==
  LET t == handler[h].txn
      succeeded == handler[h].result[2]
  IN /\ handler[h].task = "refund"
     /\ refund' = [refund EXCEPT ![t].status = IF succeeded THEN "COMPLETED" ELSE "FAILED"]
     /\ \/ succeeded /\ ReverseCredit(t, handler[h].paid)
        \/ ~succeeded /\ UNCHANGED <<txn, invoice, history>>
     /\ handler' = [handler EXCEPT ![h] = Idle]
     /\ UNCHANGED <<attempt, gateway, callbacks, disputeVars, echoes>>

-----------------------------------------------------------------------------
(* handleDisputeEvent and updateDisputeStatus *)

\* The transaction and invoice are read and the dispute row takes the event's
\* status, whatever it was; only a lost dispute of a good transaction goes on.
DisputeReads(h, t, s) ==
  /\ handler[h] = Idle
  /\ <<t, s>> \in notices
  /\ notices' = notices \ {<<t, s>>}
  /\ dispute' = [dispute EXCEPT ![t] = s]
  /\ handler' = [handler EXCEPT ![h] =
       IF s = "lost" /\ txn[t] = "SUCCESS"
       THEN [task |-> "dispute", txn |-> t, paid |-> invoice.amountPaid] ELSE Idle]
  /\ UNCHANGED <<txn, invoice, refundVars, bank, echoes, history>>

DisputeReverses(h) ==
  /\ handler[h].task = "dispute"
  /\ ReverseCredit(handler[h].txn, handler[h].paid)
  /\ handler' = [handler EXCEPT ![h] = Idle]
  /\ UNCHANGED <<refundVars, disputeVars, echoes>>

\* Staff set the status of a known dispute by hand.
StaffOverrides(t) ==
  /\ dispute[t] # "none"
  /\ \E s \in {"open", "won", "lost"} \ {dispute[t]} : dispute' = [dispute EXCEPT ![t] = s]
  /\ UNCHANGED <<txn, invoice, refundVars, bank, notices, handler, echoes, history>>

\* A handler fails before its write: the callback is not answered 200, or the
\* job is retried, and the delivery is worked again from the start.
HandlerBreaks(h) ==
  /\ handler[h] # Idle
  /\ echoes < MaxEchoes
  /\ echoes' = echoes + 1
  /\ handler' = [handler EXCEPT ![h] = Idle]
  /\ \/ /\ handler[h].task = "refund"
        /\ callbacks' = callbacks \cup {handler[h].result}
        /\ UNCHANGED notices
     \/ /\ handler[h].task = "dispute"
        /\ notices' = notices \cup {<<handler[h].txn, "lost">>}
        /\ UNCHANGED callbacks
  /\ UNCHANGED <<txn, invoice, refund, attempt, gateway, bank, dispute, history>>

-----------------------------------------------------------------------------
Next ==
  \/ \E t \in Txns : Credits(t) \/ BankMoves(t) \/ StaffOverrides(t)
  \/ ExpiryMoves
  \/ WritesExpired
  \/ \E a \in Attempts, t \in Txns : RefundChecks(a, t)
  \/ \E a \in Attempts :
       \/ RefundRecords(a)
       \/ RefundBreaks(a)
       \/ GatewayAnswers(a)
       \/ GatewaySettles(a)
       \/ GatewayReports(a)
       \/ GatewayRedelivers(a)
  \/ \E result \in Attempts \X BOOLEAN :
       \/ CallbackUnknown(result)
       \/ \E t \in Txns : CallbackKnown(result, t)
       \/ \E t \in Txns, h \in Handlers : CallbackReads(h, result, t)
  \/ \E h \in Handlers, t \in Txns, s \in {"open", "won", "lost"} : DisputeReads(h, t, s)
  \/ \E h \in Handlers : RefundCompletes(h) \/ DisputeReverses(h) \/ HandlerBreaks(h)

Spec == Init /\ [][Next]_vars

\* The gateway settles what it took, deliveries reach a handler, handlers end.
FairSpec ==
  /\ Spec
  /\ \A a \in Attempts : WF_vars(GatewaySettles(a))
  /\ \A result \in Attempts \X BOOLEAN :
       WF_vars(\/ CallbackUnknown(result)
               \/ \E t \in Txns : \/ CallbackKnown(result, t)
                                   \/ \E h \in Handlers : CallbackReads(h, result, t))
  /\ \A h \in Handlers : WF_vars(RefundCompletes(h) \/ DisputeReverses(h))

-----------------------------------------------------------------------------
(* Properties *)

\* A contribution is only written off when its payer has the money back: a
\* refund the gateway carried out, or a dispute the bank decided against us.
WrittenOffForReason ==
  \A t \in Txns : txn[t] = "REFUNDED" =>
    \/ bank[t] = "lost"
    \/ \E a \in Attempts : attempt[a].txn = t /\ gateway[a] = "done"

\* A status other than EXPIRED says what the running total says, whatever was
\* credited to an expired invoice, or reversed from an old reading: nobody is shown
\* as paid, or as having paid a part, who has nothing or not enough on the invoice.
\* EXPIRED says nothing of the total, and is only written after the expiry.
StatusTellsTotal ==
  /\ invoice.status = "PENDING" => invoice.amountPaid = 0
  /\ invoice.status = "PARTIALLY_PAID" => invoice.amountPaid \in 1 .. Target - 1
  /\ invoice.status = "PAID" => invoice.amountPaid > 0 /\ invoice.amountPaid >= Target
  /\ invoice.status = "EXPIRED" => invoice.expiry # "ahead"

GoodCredit == Sum(Amount, {t \in history.credited : txn[t] = "SUCCESS"})

\* The running total is exactly the credited payments that still stand, unless a
\* handler wrote from an old reading, reversed a transaction a second time, or
\* reversed one that was never credited: there is no fourth way to lose count.
ExactUnlessDisturbed ==
  \/ history.stale \/ history.twice \/ history.uncredited
  \/ invoice.amountPaid = GoodCredit

\* A refund in progress is closed as the gateway closed it: COMPLETED with the
\* transaction written off, or FAILED.  The exceptions are a result that found no
\* row, an event about a refund under way, which closes the row as FAILED while
\* the money is still on its way, and a second call of refund() over the row.
RefundSettles ==
  \A t \in Txns : \A a \in Attempts :
    (refund[t].status = "PROCESSING" /\ refund[t].ref = a /\ a \notin history.dropped)
      ~> \/ refund[t].status = "COMPLETED" /\ txn[t] = "REFUNDED" /\ gateway[a] = "done"
         \/ refund[t].status = "FAILED" /\ (gateway[a] = "failed" \/ a \in history.interim)
         \/ \E b \in Attempts \ {a} : attempt[b] = [txn |-> t, at |-> "returned"]

\* "Reverses the running total": while no transaction is reversed twice or
\* without having been credited, the total is the credited payments that stand.
ReversesRunningTotal ==
  history.twice \/ history.uncredited \/ invoice.amountPaid = GoodCredit

\* "Only reverse once, and only if the transaction hasn't already been
\* refunded/reversed by some other path."
OnlyReverseOnce == ~history.twice

\* "Mirrors the exact condition WebhookProcessor uses when incrementing
\* amountPaid": a payment that was not credited is not taken off the total.
MirrorsCredit == ~history.uncredited

\* refund(): "only a completed or still in-flight refund actually blocks a new
\* attempt", so a call only ever records its result over no row or a FAILED one.
InFlightBlocks ==
  [][\A a \in Attempts :
       RefundRecords(a) => refund[attempt[a].txn].status \in {"none", "FAILED"}]_vars

\* completeRefund()'s "already processed - redelivered callback": money that went
\* back for a call whose row is closed is money the books wrote off.
ClosedMeansProcessed ==
  \A t \in Txns, a \in Attempts :
    refund[t] = [status |-> "FAILED", ref |-> a] => gateway[a] # "done"

\* completeRefund()'s "unknown/foreign reference - nothing of ours to update": a
\* result that finds no row is of no refund this application asked for.
UnknownIsForeign == history.dropped = {}

\* A resolution of merchant-accepted "flips the linked Transaction to REFUNDED",
\* once its handler is through.
LostDisputeFlips ==
  \A t \in Txns :
    \/ dispute[t] # "lost"
    \/ \E h \in Handlers : handler[h].task = "dispute" /\ handler[h].txn = t
    \/ <<t, "lost">> \in notices
    \/ txn[t] = "REFUNDED"

=============================================================================

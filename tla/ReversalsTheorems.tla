-------------------------- MODULE ReversalsTheorems --------------------------
(***************************************************************************)
(* When a contribution is written off and what the running total then      *)
(* says, for any payments, refund calls, handlers and gateways.            *)
(*                                                                         *)
(* A result says that the money went back only once the gateway did it, and*)
(* an outcome says lost only once the bank decided so; neither is undone.  *)
(* So what a handler read stays true of the gateway however late it writes,*)
(* although it need not stay true of the total.                            *)
(***************************************************************************)
EXTENDS Reversals, MoneyTheorems

\* A call that has not reached the gateway is not known there, a call under way
\* is about a settled transaction, and a stored reference is of a call for the
\* row's transaction that has returned.
CallsKnown ==
  /\ \A a \in Attempts :
       /\ attempt[a].at \in {"idle", "calling"} => gateway[a] = "none"
       /\ attempt[a].at # "idle" => txn[attempt[a].txn] # "none"
  /\ \A t \in Txns : refund[t].ref # NoAttempt =>
       attempt[refund[t].ref].txn = t /\ attempt[refund[t].ref].at = "returned"

\* What is delivered as carried out was carried out, and what is delivered as
\* lost was lost.
DeliveriesTrue ==
  /\ \A a \in Attempts : <<a, TRUE>> \in callbacks => gateway[a] = "done"
  /\ \A t \in Txns : <<t, "lost">> \in notices => bank[t] = "lost"

\* The same of what the handlers have read; a refund's handler works on the
\* transaction of the call.
HandlersKnow ==
  \A h \in Handlers :
    /\ handler[h].task = "refund" =>
         LET a == handler[h].result[1]
         IN /\ attempt[a].txn = handler[h].txn /\ attempt[a].at = "returned"
            /\ handler[h].result[2] => gateway[a] = "done"
    /\ handler[h].task = "dispute" => bank[handler[h].txn] = "lost"

\* Only a settled payment was ever credited.
CreditedSettled == \A t \in history.credited : txn[t] # "none"

IInv ==
  /\ TypeOK
  /\ CallsKnown
  /\ DeliveriesTrue
  /\ HandlersKnow
  /\ CreditedSettled
  /\ WrittenOffForReason
  /\ StatusTellsTotal
  /\ ExactUnlessDisturbed

-----------------------------------------------------------------------------
(* Types, and what is never undone *)

\* The step is one of these.
LEMMA Cases ==
  ASSUME [Next]_vars
  PROVE  \/ \E t \in Txns : Credits(t) \/ BankMoves(t) \/ StaffOverrides(t)
         \/ ExpiryMoves \/ WritesExpired
         \/ \E a \in Attempts, t \in Txns : RefundChecks(a, t)
         \/ \E a \in Attempts : RefundRecords(a) \/ RefundBreaks(a)
         \/ \E a \in Attempts : GatewayAnswers(a) \/ GatewaySettles(a)
         \/ \E a \in Attempts : GatewayReports(a) \/ GatewayRedelivers(a)
         \/ \E result \in Attempts \X BOOLEAN : CallbackUnknown(result)
         \/ \E result \in Attempts \X BOOLEAN, t \in Txns : CallbackKnown(result, t)
         \/ \E result \in Attempts \X BOOLEAN, t \in Txns, h \in Handlers :
              CallbackReads(h, result, t)
         \/ \E h \in Handlers, t \in Txns, s \in {"open", "won", "lost"} : DisputeReads(h, t, s)
         \/ \E h \in Handlers : RefundCompletes(h) \/ DisputeReverses(h)
         \/ \E h \in Handlers : HandlerBreaks(h)
         \/ UNCHANGED vars
BY DEF Next

\* What a handler at work has read.
LEMMA TaskFields ==
  ASSUME TypeOK, NEW h \in Handlers
  PROVE  /\ handler[h].task = "refund" =>
              /\ handler[h].txn \in Txns /\ handler[h].paid \in Nat
              /\ handler[h].result \in Attempts \X BOOLEAN
              /\ handler[h].result[1] \in Attempts /\ handler[h].result[2] \in BOOLEAN
         /\ handler[h].task = "dispute" => handler[h].txn \in Txns /\ handler[h].paid \in Nat
BY DEF TypeOK, Tasks, Idle

\* Only a refund the gateway carried out is told as carried out, and only a
\* dispute the bank decided against us as lost.
LEMMA WordsTrue ==
  /\ \A name \in GatewayNames :
       /\ \A word \in RefundWords[name]["done"] : RefundSucceeded(name, word)
       /\ \A standing \in {"accepted", "failed"} :
            \A word \in RefundWords[name][standing] : ~RefundSucceeded(name, word)
  /\ \A next \in {"open", "won", "lost"} :
       \A w \in DisputeWords[next] : DisputeOutcome(w[1], w[2]) = next
BY DEF GatewayNames, RefundWords, RefundSucceeded, DisputeWords, DisputeOutcome, MapDisputeStatus

\* An event about a refund says what became of it.
LEMMA TellsTrue ==
  ASSUME TypeOK, NEW a \in Attempts, NEW standing \in {"accepted", "done", "failed"},
         Tells(a, standing)
  PROVE  \E succeeded \in BOOLEAN :
           /\ callbacks' = callbacks \cup {<<a, succeeded>>}
           /\ succeeded => standing = "done"
<1> DEFINE name == Gateway[attempt[a].txn]
<1>1. name \in GatewayNames
  BY GatewayName DEF TypeOK
<1>2. PICK word \in RefundWords[name][standing] :
        callbacks' = callbacks \cup {<<a, RefundSucceeded(name, word)>>}
  BY DEF Tells
<1>3. RefundSucceeded(name, word) \in BOOLEAN
  BY DEF RefundSucceeded
<1>4. RefundSucceeded(name, word) => standing = "done"
  BY <1>1, WordsTrue
<1> QED
  BY <1>2, <1>3, <1>4

\* What a refund or a bank has come to stays, and a call keeps its transaction.
LEMMA NeverUndone ==
  ASSUME TypeOK, CallsKnown, [Next]_vars
  PROVE  /\ \A a \in Attempts :
              /\ gateway[a] = "done" => gateway'[a] = "done"
              /\ attempt[a].at # "idle" =>
                   attempt'[a].at # "idle" /\ attempt'[a].txn = attempt[a].txn
              /\ attempt[a].at = "returned" => attempt'[a].at = "returned"
         /\ \A t \in Txns :
              /\ bank[t] = "lost" => bank'[t] = "lost"
              /\ txn[t] # "none" => txn'[t] # "none"
<1> DEFINE Kept ==
      /\ \A a \in Attempts :
           /\ gateway[a] = "done" => gateway'[a] = "done"
           /\ attempt[a].at # "idle" =>
                attempt'[a].at # "idle" /\ attempt'[a].txn = attempt[a].txn
           /\ attempt[a].at = "returned" => attempt'[a].at = "returned"
      /\ \A t \in Txns :
           /\ bank[t] = "lost" => bank'[t] = "lost"
           /\ txn[t] # "none" => txn'[t] # "none"
<1>1. ASSUME NEW t \in Txns, Credits(t) \/ BankMoves(t)
      PROVE  Kept
  BY <1>1 DEF Credits, BankMoves, TypeOK, refundVars, disputeVars
<1>2. ASSUME NEW a \in Attempts, NEW t \in Txns, RefundChecks(a, t)
      PROVE  Kept
  BY <1>2 DEF RefundChecks, TypeOK, disputeVars
<1>3. ASSUME NEW a \in Attempts, RefundRecords(a) \/ RefundBreaks(a)
      PROVE  Kept
  <2>1. /\ attempt[a].at \in {"calling", "accepted", "rejected"}
        /\ UNCHANGED <<txn, gateway, bank>>
        /\ \E at \in {"returned", "broken"} : attempt' = [attempt EXCEPT ![a].at = at]
    BY <1>3 DEF RefundRecords, RefundBreaks, disputeVars
  <2> QED
    BY <2>1 DEF TypeOK
<1>4. ASSUME NEW a \in Attempts, GatewayAnswers(a)
      PROVE  Kept
  BY <1>4 DEF GatewayAnswers, TypeOK, disputeVars
<1>5. ASSUME NEW a \in Attempts, GatewaySettles(a)
      PROVE  Kept
  BY <1>5 DEF GatewaySettles, TypeOK, disputeVars
<1>6. ASSUME NEW t \in Txns, NEW paid, ReverseCredit(t, paid)
      PROVE  \A u \in Txns : txn[u] # "none" => txn'[u] # "none"
  BY <1>6 DEF ReverseCredit, TypeOK
<1>7. ASSUME NEW h \in Handlers, RefundCompletes(h) \/ DisputeReverses(h)
      PROVE  Kept
  BY <1>7, <1>6, TaskFields DEF RefundCompletes, DisputeReverses, disputeVars, refundVars
<1> HIDE DEF Kept
<1>8. ASSUME UNCHANGED <<txn, attempt, gateway, bank>>
      PROVE  Kept
  BY <1>8 DEF Kept
<1>9. Kept
  BY <1>1, <1>2, <1>3, <1>4, <1>5, <1>7, <1>8, Cases
  DEF ExpiryMoves, WritesExpired, StaffOverrides, GatewayReports, GatewayRedelivers,
      CallbackUnknown, CallbackKnown,
      CallbackReads, DisputeReads, HandlerBreaks, vars, refundVars, disputeVars
<1> QED
  BY <1>9 DEF Kept

\* The total a reversal leaves is an amount.
LEMMA ReversedTyped ==
  ASSUME invoice \in InvoiceRow, NEW t \in Txns, NEW paid \in Nat
  PROVE  /\ Reversed(paid, t).amountPaid \in Nat
         /\ Reversed(paid, t) \in InvoiceRow
<1>1. Amount[t] \in Nat \ {0} /\ Target \in Nat
  BY SomeRows, TargetAmount
<1> DEFINE left == IF paid > Amount[t] THEN paid - Amount[t] ELSE 0
           s == IF left = 0 THEN "PENDING"
                ELSE IF left >= Target THEN "PAID" ELSE "PARTIALLY_PAID"
<1>2. left \in Nat
  BY <1>1
<1>3. s \in {"PENDING", "PARTIALLY_PAID", "PAID"}
  OBVIOUS
<1>4. Reversed(paid, t) = [invoice EXCEPT !.amountPaid = left, !.status = s]
  BY DEF Reversed
<1> HIDE DEF left, s
<1> QED
  BY <1>2, <1>3, <1>4 DEF InvoiceRow

\* What a reversal writes.
LEMMA ReversalTyped ==
  ASSUME TypeOK, NEW t \in Txns, NEW paid \in Nat, ReverseCredit(t, paid)
  PROVE  /\ txn' \in [Txns -> {"none", "SUCCESS", "REFUNDED"}]
         /\ invoice' \in InvoiceRow
         /\ history' \in [credited : SUBSET Txns, dropped : SUBSET Attempts,
                          interim : SUBSET Attempts,
                          stale : BOOLEAN, twice : BOOLEAN, uncredited : BOOLEAN]
<1>1. txn' \in [Txns -> {"none", "SUCCESS", "REFUNDED"}]
  BY DEF ReverseCredit, TypeOK
<1>2. invoice' \in InvoiceRow
  BY ReversedTyped DEF ReverseCredit, TypeOK
<1>3. history' \in [credited : SUBSET Txns, dropped : SUBSET Attempts, interim : SUBSET Attempts,
                    stale : BOOLEAN, twice : BOOLEAN, uncredited : BOOLEAN]
  BY DEF ReverseCredit, TypeOK
<1> QED
  BY <1>1, <1>2, <1>3

\* Every step keeps the types.
LEMMA TypeStep ==
  ASSUME TypeOK, CallsKnown, HandlersKnow, [Next]_vars
  PROVE  TypeOK'
<1>1. ASSUME NEW t \in Txns, Credits(t)
      PROVE  TypeOK'
  <2>1. txn' \in [Txns -> {"none", "SUCCESS", "REFUNDED"}]
    BY <1>1 DEF Credits, TypeOK
  <2>2. /\ invoice' \in InvoiceRow
        /\ history' \in [credited : SUBSET Txns, dropped : SUBSET Attempts,
                         interim : SUBSET Attempts,
                         stale : BOOLEAN, twice : BOOLEAN, uncredited : BOOLEAN]
    <3>1. CASE invoice.status = "PAID"
      BY <1>1, <3>1 DEF Credits, TypeOK
    <3>2. CASE invoice.status # "PAID"
      <4>1. invoice.amountPaid + Amount[t] \in Nat
        BY SomeRows DEF TypeOK, InvoiceRow
      <4>2. /\ \E s \in {"PAID", "PARTIALLY_PAID"} :
                 invoice' = [invoice EXCEPT !.status = s,
                                            !.amountPaid = invoice.amountPaid + Amount[t]]
            /\ history' = [history EXCEPT !.credited = @ \cup {t}]
        BY <1>1, <3>2 DEF Credits
      <4> QED
        BY <4>1, <4>2 DEF TypeOK, InvoiceRow
    <3> QED
      BY <3>1, <3>2
  <2>3. \A u \in Txns : txn[u] # "none" => txn'[u] # "none"
    BY <1>1 DEF Credits, TypeOK
  <2> QED
    BY <1>1, <2>1, <2>2, <2>3 DEF Credits, TypeOK, refundVars, disputeVars
<1>2. ASSUME NEW t \in Txns, BankMoves(t)
      PROVE  TypeOK'
  <2>1. PICK next \in {"open", "won", "lost"}, w \in DisputeWords["open"] \cup DisputeWords["won"]
                 \cup DisputeWords["lost"] :
          /\ bank' = [bank EXCEPT ![t] = next]
          /\ notices' = notices \cup {<<t, DisputeOutcome(w[1], w[2])>>}
    BY <1>2 DEF BankMoves
  <2>2. DisputeOutcome(w[1], w[2]) \in {"open", "won", "lost"}
    BY <2>1, WordsTrue
  <2> QED
    BY <1>2, <2>1, <2>2 DEF BankMoves, TypeOK, refundVars
<1>3. ASSUME NEW t \in Txns, StaffOverrides(t)
      PROVE  TypeOK'
  BY <1>3 DEF StaffOverrides, TypeOK, refundVars
<1>4. ASSUME NEW a \in Attempts, NEW t \in Txns, RefundChecks(a, t)
      PROVE  TypeOK'
  BY <1>4 DEF RefundChecks, TypeOK, disputeVars
<1>5. ASSUME NEW a \in Attempts, RefundRecords(a)
      PROVE  TypeOK'
  <2> DEFINE t == attempt[a].txn
  <2>1. t \in Txns /\ txn[t] # "none"
    BY <1>5 DEF RefundRecords, CallsKnown, TypeOK
  <2>2. \E s \in {"PROCESSING", "FAILED"}, ref \in Attempts \cup {NoAttempt} :
          refund' = [refund EXCEPT ![t] = [status |-> s, ref |-> ref]]
    BY <1>5, <2>1 DEF RefundRecords, TypeOK
  <2>3. attempt' = [attempt EXCEPT ![a].at = "returned"]
    BY <1>5 DEF RefundRecords
  <2> HIDE DEF t
  <2> QED
    <3>1. /\ refund' \in [Txns -> [status : {"none", "PROCESSING", "COMPLETED", "FAILED"},
                                   ref : Attempts \cup {NoAttempt}]]
          /\ \A u \in Txns : u # t => refund'[u] = refund[u]
      <4>1. refund \in [Txns -> [status : {"none", "PROCESSING", "COMPLETED", "FAILED"},
                                ref : Attempts \cup {NoAttempt}]]
        BY DEF TypeOK
      <4> QED
        BY <2>1, <2>2, <4>1
    <3>2. attempt' \in [Attempts -> [txn : Txns, at : {"idle", "calling", "accepted",
                                                     "rejected", "returned", "broken"}]]
      BY <2>3 DEF TypeOK
    <3> QED
      BY <1>5, <2>1, <3>1, <3>2 DEF RefundRecords, TypeOK, disputeVars
<1>6. ASSUME NEW a \in Attempts, RefundBreaks(a)
      PROVE  TypeOK'
  BY <1>6 DEF RefundBreaks, TypeOK, disputeVars
<1>7. ASSUME NEW a \in Attempts, GatewayAnswers(a)
      PROVE  TypeOK'
  BY <1>7 DEF GatewayAnswers, TypeOK, disputeVars
<1>8. ASSUME NEW a \in Attempts, NEW standing \in {"accepted", "done", "failed"},
             Tells(a, standing)
      PROVE  callbacks' \subseteq Attempts \X BOOLEAN
  BY <1>8, TellsTrue DEF TypeOK
<1>9. ASSUME NEW a \in Attempts, GatewaySettles(a)
      PROVE  TypeOK'
  BY <1>9, <1>8 DEF GatewaySettles, TypeOK, disputeVars
<1>10. ASSUME NEW a \in Attempts, GatewayReports(a)
       PROVE  TypeOK'
  <2>1. history' \in [credited : SUBSET Txns, dropped : SUBSET Attempts, interim : SUBSET Attempts,
                      stale : BOOLEAN, twice : BOOLEAN, uncredited : BOOLEAN]
    BY <1>10 DEF GatewayReports, TypeOK
  <2> QED
    BY <1>10, <1>8, <2>1 DEF GatewayReports, TypeOK, disputeVars
<1>11. ASSUME NEW a \in Attempts, GatewayRedelivers(a)
       PROVE  TypeOK'
  <2>1. callbacks' \subseteq Attempts \X BOOLEAN
    BY <1>11, <1>8 DEF GatewayRedelivers
  <2> QED
    BY <1>11, <2>1, EchoBound DEF GatewayRedelivers, TypeOK, disputeVars
<1>12. ASSUME NEW result \in Attempts \X BOOLEAN, CallbackUnknown(result)
       PROVE  TypeOK'
  <2>1. history' \in [credited : SUBSET Txns, dropped : SUBSET Attempts, interim : SUBSET Attempts,
                      stale : BOOLEAN, twice : BOOLEAN, uncredited : BOOLEAN]
    BY <1>12 DEF CallbackUnknown, TypeOK
  <2> QED
    BY <1>12, <2>1 DEF CallbackUnknown, TypeOK, disputeVars
<1>13. ASSUME NEW result \in Attempts \X BOOLEAN, NEW t \in Txns, CallbackKnown(result, t)
       PROVE  TypeOK'
  BY <1>13 DEF CallbackKnown, TypeOK, disputeVars
<1>14. ASSUME NEW result \in Attempts \X BOOLEAN, NEW t \in Txns, NEW h \in Handlers,
              CallbackReads(h, result, t)
       PROVE  TypeOK'
  <2>1. [task |-> "refund", txn |-> t, result |-> result, paid |-> invoice.amountPaid] \in Tasks
    BY DEF TypeOK, Tasks, InvoiceRow
  <2> QED
    BY <1>14, <2>1 DEF CallbackReads, TypeOK, disputeVars
<1>15. ASSUME NEW h \in Handlers, NEW t \in Txns, NEW s \in {"open", "won", "lost"},
              DisputeReads(h, t, s)
       PROVE  TypeOK'
  <2>1. /\ [task |-> "dispute", txn |-> t, paid |-> invoice.amountPaid] \in Tasks
        /\ Idle \in Tasks
    BY DEF TypeOK, Tasks, InvoiceRow
  <2> QED
    BY <1>15, <2>1 DEF DisputeReads, TypeOK, refundVars
<1>16. Idle \in Tasks
  BY DEF Tasks
<1>17. ASSUME NEW h \in Handlers, RefundCompletes(h)
       PROVE  TypeOK'
  <2> DEFINE t == handler[h].txn
  <2>1. t \in Txns /\ handler[h].paid \in Nat
    BY <1>17, TaskFields DEF RefundCompletes
  <2>2. \/ ReverseCredit(t, handler[h].paid)
        \/ UNCHANGED <<txn, invoice, history>>
    BY <1>17 DEF RefundCompletes
  <2>3. /\ txn' \in [Txns -> {"none", "SUCCESS", "REFUNDED"}]
        /\ invoice' \in InvoiceRow
        /\ history' \in [credited : SUBSET Txns, dropped : SUBSET Attempts,
                         interim : SUBSET Attempts,
                         stale : BOOLEAN, twice : BOOLEAN, uncredited : BOOLEAN]
    <3>1. CASE ReverseCredit(t, handler[h].paid)
      BY <2>1, <3>1, ReversalTyped
    <3>2. CASE UNCHANGED <<txn, invoice, history>>
      BY <3>2 DEF TypeOK
    <3> QED
      BY <2>2, <3>1, <3>2
  <2>5. \A u \in Txns : txn[u] # "none" => txn'[u] # "none"
    BY <1>17, NeverUndone
  <2>4. /\ refund' \in [Txns -> [status : {"none", "PROCESSING", "COMPLETED", "FAILED"},
                                ref : Attempts \cup {NoAttempt}]]
        /\ \A u \in Txns : refund'[u].status # "none" => u = t \/ refund[u].status # "none"
    <3>1. PICK s \in {"COMPLETED", "FAILED"} : refund' = [refund EXCEPT ![t].status = s]
      BY <1>17 DEF RefundCompletes
    <3> HIDE DEF t
    <3>2. refund' \in [Txns -> [status : {"none", "PROCESSING", "COMPLETED", "FAILED"},
                               ref : Attempts \cup {NoAttempt}]]
      <4>1. refund \in [Txns -> [status : {"none", "PROCESSING", "COMPLETED", "FAILED"},
                                ref : Attempts \cup {NoAttempt}]]
        BY DEF TypeOK
      <4> QED
        BY <2>1, <3>1, <4>1
    <3>3. \A u \in Txns : u # t => refund'[u] = refund[u]
      BY <2>1, <3>1 DEF TypeOK
    <3> QED
      BY <3>2, <3>3
  <2>6. txn[t] # "none"
    BY <1>17, <2>1, TaskFields DEF RefundCompletes, CallsKnown, HandlersKnow
  <2> HIDE DEF t
  <2> QED
    BY <1>17, <1>16, <2>3, <2>4, <2>5, <2>6 DEF RefundCompletes, TypeOK, disputeVars
<1>18. ASSUME NEW h \in Handlers, DisputeReverses(h)
       PROVE  TypeOK'
  <2>1. handler[h].txn \in Txns /\ handler[h].paid \in Nat
    BY <1>18, TaskFields DEF DisputeReverses
  <2>2. \A u \in Txns : txn[u] # "none" => txn'[u] # "none"
    BY <1>18, NeverUndone
  <2> QED
    BY <1>18, <1>16, <2>1, <2>2, ReversalTyped DEF DisputeReverses, TypeOK, refundVars, disputeVars
<1>19. ASSUME NEW h \in Handlers, HandlerBreaks(h)
       PROVE  TypeOK'
  <2>1. callbacks' \subseteq Attempts \X BOOLEAN /\ notices' \subseteq Txns \X {"open", "won", "lost"}
    BY <1>19, TaskFields DEF HandlerBreaks, TypeOK
  <2> QED
    BY <1>19, <1>16, <2>1, EchoBound DEF HandlerBreaks, TypeOK
<1>20. ASSUME UNCHANGED vars
       PROVE  TypeOK'
  BY <1>20 DEF vars, TypeOK
<1>21. ASSUME ExpiryMoves \/ WritesExpired
       PROVE  TypeOK'
  <2>1. invoice' \in InvoiceRow
    BY <1>21 DEF ExpiryMoves, WritesExpired, TypeOK, InvoiceRow
  <2> QED
    BY <1>21, <2>1 DEF ExpiryMoves, WritesExpired, TypeOK, refundVars, disputeVars
<1> QED
  BY <1>1, <1>2, <1>3, <1>4, <1>5, <1>6, <1>7, <1>9, <1>10, <1>11, <1>12, <1>13, <1>14, <1>15,
     <1>17, <1>18, <1>19, <1>20, <1>21, Cases

-----------------------------------------------------------------------------
(* What is known of the gateway and the bank *)

\* A call is known at the gateway only after it was made, of a settled payment.
LEMMA CallsStep ==
  ASSUME TypeOK, CallsKnown, HandlersKnow, [Next]_vars
  PROVE  CallsKnown'
<1>1. ASSUME NEW a \in Attempts, NEW t \in Txns, RefundChecks(a, t)
      PROVE  CallsKnown'
  BY <1>1 DEF RefundChecks, CallsKnown, TypeOK
<1>2. ASSUME NEW a \in Attempts, RefundRecords(a)
      PROVE  CallsKnown'
  <2> DEFINE t == attempt[a].txn
  <2>1. t \in Txns
    BY DEF TypeOK
  <2>2. \E s \in {"PROCESSING", "FAILED"}, ref \in {a, refund[t].ref} :
          refund' = [refund EXCEPT ![t] = [status |-> s, ref |-> ref]]
    BY <1>2, <2>1 DEF RefundRecords, TypeOK
  <2>3. /\ attempt[a].at \in {"accepted", "rejected"}
        /\ attempt' = [attempt EXCEPT ![a].at = "returned"]
        /\ UNCHANGED <<txn, gateway>>
    BY <1>2 DEF RefundRecords
  <2>4. \A b \in Attempts : attempt'[b].txn = attempt[b].txn
    BY <2>3 DEF TypeOK
  <2>5. \A u \in Txns : refund'[u].ref = refund[u].ref \/ (u = t /\ refund'[u].ref = a)
    <3> HIDE DEF t
    <3>1. PICK s \in {"PROCESSING", "FAILED"}, ref \in {a, refund[t].ref} :
            refund' = [refund EXCEPT ![t] = [status |-> s, ref |-> ref]]
      BY <2>2
    <3>2. refund'[t].ref = ref /\ \A u \in Txns : u # t => refund'[u] = refund[u]
      BY <2>1, <3>1 DEF TypeOK
    <3>3. ASSUME NEW u \in Txns, u = t
          PROVE  refund'[u].ref = refund[u].ref \/ (u = t /\ refund'[u].ref = a)
      BY <3>2, <3>3
    <3>4. ASSUME NEW u \in Txns, u # t
          PROVE  refund'[u].ref = refund[u].ref \/ (u = t /\ refund'[u].ref = a)
      BY <3>2, <3>4
    <3> QED
      BY <3>3, <3>4
  <2>6. \A b \in Attempts :
          /\ attempt'[b].at = IF b = a THEN "returned" ELSE attempt[b].at
    BY <2>3 DEF TypeOK
  <2>7. \A b \in Attempts :
          /\ attempt'[b].at \in {"idle", "calling"} => gateway'[b] = "none"
          /\ attempt'[b].at # "idle" => txn'[attempt'[b].txn] # "none"
    BY <2>3, <2>4, <2>6 DEF CallsKnown
  <2>8. \A u \in Txns : refund[u].ref \in Attempts \cup {NoAttempt}
    BY DEF TypeOK
  <2>9. \A u \in Txns : refund'[u].ref # NoAttempt =>
          attempt'[refund'[u].ref].txn = u /\ attempt'[refund'[u].ref].at = "returned"
    BY <2>4, <2>5, <2>6, <2>8 DEF CallsKnown
  <2> QED
    BY <2>7, <2>9 DEF CallsKnown
<1>3. ASSUME NEW a \in Attempts, RefundBreaks(a)
      PROVE  CallsKnown'
  BY <1>3 DEF RefundBreaks, CallsKnown, TypeOK
<1>4. ASSUME NEW a \in Attempts, GatewayAnswers(a)
      PROVE  CallsKnown'
  <2>1. /\ attempt[a].at \in {"calling", "broken"} /\ UNCHANGED <<txn, refund>>
        /\ \E answer \in {"accepted", "rejected"} : gateway' = [gateway EXCEPT ![a] = answer]
        /\ \E at \in {"accepted", "rejected", "broken"} :
             attempt' = [attempt EXCEPT ![a].at = at]
    BY <1>4 DEF GatewayAnswers, TypeOK
  <2> QED
    BY <2>1 DEF CallsKnown, TypeOK
<1>5. ASSUME NEW a \in Attempts, GatewaySettles(a)
      PROVE  CallsKnown'
  BY <1>5 DEF GatewaySettles, CallsKnown, TypeOK
<1>6. ASSUME UNCHANGED <<attempt, gateway>>,
             \A t \in Txns : /\ txn[t] # "none" => txn'[t] # "none"
                             /\ refund'[t].ref = refund[t].ref
      PROVE  CallsKnown'
  BY <1>6 DEF CallsKnown, TypeOK
<1>7. \A t \in Txns : txn[t] # "none" => txn'[t] # "none"
  BY NeverUndone
<1>8. ASSUME NEW h \in Handlers, RefundCompletes(h)
      PROVE  CallsKnown'
  <2>1. \A t \in Txns : refund'[t].ref = refund[t].ref
    BY <1>8, TaskFields DEF RefundCompletes, TypeOK
  <2> QED
    BY <1>6, <1>7, <1>8, <2>1 DEF RefundCompletes
<1>9. ASSUME UNCHANGED <<attempt, gateway, refund>>
      PROVE  CallsKnown'
  BY <1>6, <1>7, <1>9
<1> QED
  BY <1>1, <1>2, <1>3, <1>4, <1>5, <1>8, <1>9, Cases
  DEF ExpiryMoves, WritesExpired, Credits, BankMoves, StaffOverrides, GatewayReports,
      GatewayRedelivers, CallbackUnknown,
      CallbackKnown, CallbackReads, DisputeReads, DisputeReverses, HandlerBreaks, vars,
      refundVars, disputeVars

\* The handlers that go on with what they read.
LEMMA HandlersStep ==
  ASSUME TypeOK, CallsKnown, DeliveriesTrue, HandlersKnow, [Next]_vars
  PROVE  HandlersKnow'
<1> DEFINE Knows(task) ==
      /\ task.task = "refund" =>
           /\ attempt[task.result[1]].txn = task.txn /\ attempt[task.result[1]].at = "returned"
           /\ task.result[2] => gateway[task.result[1]] = "done"
      /\ task.task = "dispute" => bank[task.txn] = "lost"
<1>1. ASSUME \A h \in Handlers : handler'[h] = handler[h] \/ handler'[h].task = "idle"
      PROVE  HandlersKnow'
  <2>1. ASSUME NEW h \in Handlers, handler'[h] = handler[h], handler[h].task = "refund"
        PROVE  /\ attempt'[handler'[h].result[1]].txn = handler'[h].txn
               /\ attempt'[handler'[h].result[1]].at = "returned"
               /\ handler'[h].result[2] => gateway'[handler'[h].result[1]] = "done"
    BY <2>1, TaskFields, NeverUndone DEF HandlersKnow
  <2>2. ASSUME NEW h \in Handlers, handler'[h] = handler[h], handler[h].task = "dispute"
        PROVE  bank'[handler'[h].txn] = "lost"
    BY <2>2, TaskFields, NeverUndone DEF HandlersKnow
  <2> QED
    BY <1>1, <2>1, <2>2 DEF HandlersKnow
<1>2. ASSUME NEW result \in Attempts \X BOOLEAN, NEW t \in Txns, NEW h \in Handlers,
             CallbackReads(h, result, t)
      PROVE  HandlersKnow'
  <2> DEFINE task == [task |-> "refund", txn |-> t, result |-> result, paid |-> invoice.amountPaid]
  <2>1. /\ handler' = [handler EXCEPT ![h] = task]
        /\ UNCHANGED <<attempt, gateway, bank>>
    BY <1>2 DEF CallbackReads, disputeVars
  <2>2. attempt[result[1]].txn = t /\ attempt[result[1]].at = "returned"
    BY <1>2, EchoBound DEF CallbackReads, CallsKnown
  <2>3. result[2] => gateway[result[1]] = "done"
    <3>1. PICK a \in Attempts, succeeded \in BOOLEAN : result = <<a, succeeded>>
      OBVIOUS
    <3>2. succeeded => gateway[a] = "done"
      BY <1>2, <3>1 DEF CallbackReads, DeliveriesTrue
    <3> QED
      BY <3>1, <3>2
  <2>4. \A g \in Handlers : handler'[g] = IF g = h THEN task ELSE handler[g]
    BY <2>1 DEF TypeOK
  <2>5. Knows(task)
    BY <2>2, <2>3
  <2>6. \A g \in Handlers : Knows(handler[g])
    BY DEF HandlersKnow
  <2> HIDE DEF task
  <2>7. \A g \in Handlers : Knows(handler'[g])
    BY <2>4, <2>5, <2>6
  <2> QED
    BY <2>1, <2>7 DEF HandlersKnow
<1>3. ASSUME NEW h \in Handlers, NEW t \in Txns, NEW s \in {"open", "won", "lost"},
             DisputeReads(h, t, s)
      PROVE  HandlersKnow'
  <2>1. /\ UNCHANGED <<attempt, gateway, bank>>
        /\ \/ handler' = [handler EXCEPT ![h] = Idle]
           \/ /\ s = "lost"
              /\ handler' = [handler EXCEPT ![h] =
                               [task |-> "dispute", txn |-> t, paid |-> invoice.amountPaid]]
    BY <1>3 DEF DisputeReads, refundVars
  <2>2. s = "lost" => bank[t] = "lost"
    BY <1>3 DEF DisputeReads, DeliveriesTrue
  <2>3. \A g \in Handlers :
          \/ handler'[g] = handler[g]
          \/ handler'[g].task = "idle"
          \/ handler'[g].task = "dispute" /\ handler'[g].txn = t /\ s = "lost"
    BY <2>1 DEF TypeOK, Idle
  <2> QED
    BY <2>1, <2>2, <2>3 DEF HandlersKnow
<1>4. ASSUME handler' = handler \/ \E h \in Handlers : handler' = [handler EXCEPT ![h] = Idle]
      PROVE  HandlersKnow'
  <2>1. \A h \in Handlers : handler'[h] = handler[h] \/ handler'[h].task = "idle"
    BY <1>4 DEF TypeOK, Idle
  <2> QED
    BY <1>1, <2>1
<1> QED
  BY <1>2, <1>3, <1>4, Cases
  DEF ExpiryMoves, WritesExpired, Credits, BankMoves, StaffOverrides, RefundChecks,
      RefundRecords, RefundBreaks,
      GatewayAnswers, GatewaySettles, GatewayReports, GatewayRedelivers, CallbackUnknown,
      CallbackKnown, RefundCompletes, DisputeReverses, HandlerBreaks, vars

\* A result is of one call and says one thing.
LEMMA ResultIs ==
  ASSUME NEW a, NEW b, NEW succeeded \in BOOLEAN, <<b, TRUE>> = <<a, succeeded>>
  PROVE  b = a /\ succeeded
<1>1. b = a
  OBVIOUS
<1>2. CASE succeeded = TRUE
  BY <1>1, <1>2
<1>3. CASE succeeded = FALSE
  BY <1>3
<1> QED
  BY <1>2, <1>3

\* The deliveries still to be made.
LEMMA DeliveriesStep ==
  ASSUME TypeOK, CallsKnown, DeliveriesTrue, HandlersKnow, [Next]_vars
  PROVE  DeliveriesTrue'
<1>1. ASSUME \A a \in Attempts : <<a, TRUE>> \in callbacks' =>
               <<a, TRUE>> \in callbacks \/ gateway'[a] = "done",
             \A t \in Txns : <<t, "lost">> \in notices' =>
               <<t, "lost">> \in notices \/ bank'[t] = "lost"
      PROVE  DeliveriesTrue'
  BY <1>1, NeverUndone DEF DeliveriesTrue
<1>2. ASSUME NEW a \in Attempts, NEW standing \in {"accepted", "done", "failed"},
             Tells(a, standing), gateway'[a] = standing, notices' = notices
      PROVE  DeliveriesTrue'
  <2>1. PICK succeeded \in BOOLEAN :
          callbacks' = callbacks \cup {<<a, succeeded>>} /\ (succeeded => standing = "done")
    BY <1>2, TellsTrue
  <2>2. \A b \in Attempts : <<b, TRUE>> \in callbacks' =>
          <<b, TRUE>> \in callbacks \/ (b = a /\ succeeded)
    BY <2>1, ResultIs
  <2> QED
    BY <1>1, <1>2, <2>1, <2>2
<1>3. ASSUME NEW a \in Attempts, GatewaySettles(a)
      PROVE  DeliveriesTrue'
  BY <1>2, <1>3 DEF GatewaySettles, TypeOK, disputeVars
<1>4. ASSUME NEW a \in Attempts, GatewayReports(a) \/ GatewayRedelivers(a)
      PROVE  DeliveriesTrue'
  BY <1>2, <1>4 DEF GatewayReports, GatewayRedelivers, disputeVars
<1>5. ASSUME NEW t \in Txns, BankMoves(t)
      PROVE  DeliveriesTrue'
  <2>1. PICK next \in {"open", "won", "lost"}, w \in DisputeWords["open"] \cup DisputeWords["won"]
                 \cup DisputeWords["lost"] :
          /\ w \in DisputeWords[next]
          /\ bank' = [bank EXCEPT ![t] = next]
          /\ notices' = notices \cup {<<t, DisputeOutcome(w[1], w[2])>>}
    BY <1>5 DEF BankMoves
  <2>2. DisputeOutcome(w[1], w[2]) = next /\ bank'[t] = next
    BY <2>1, WordsTrue DEF TypeOK
  <2>3. callbacks' = callbacks
    BY <1>5 DEF BankMoves, refundVars
  <2> QED
    BY <1>1, <2>1, <2>2, <2>3
<1>6. ASSUME NEW h \in Handlers, HandlerBreaks(h)
      PROVE  DeliveriesTrue'
  <2>1. UNCHANGED <<gateway, bank>>
    BY <1>6 DEF HandlerBreaks
  <2>2. CASE handler[h].task = "refund"
    <3>1. PICK a \in Attempts, succeeded \in BOOLEAN :
            handler[h].result = <<a, succeeded>> /\ (succeeded => gateway[a] = "done")
      BY <2>2, TaskFields DEF HandlersKnow
    <3>2. callbacks' = callbacks \cup {<<a, succeeded>>} /\ notices' = notices
      BY <1>6, <2>2, <3>1 DEF HandlerBreaks
    <3>3. \A b \in Attempts : <<b, TRUE>> \in callbacks' =>
            <<b, TRUE>> \in callbacks \/ (b = a /\ succeeded)
      BY <3>2, ResultIs
    <3> QED
      BY <1>1, <2>1, <3>1, <3>2, <3>3
  <2>3. CASE handler[h].task = "dispute"
    BY <1>1, <1>6, <2>1, <2>3 DEF HandlerBreaks, HandlersKnow
  <2> QED
    BY <1>6, <2>2, <2>3 DEF HandlerBreaks
<1>7. ASSUME callbacks' \subseteq callbacks, notices' \subseteq notices
      PROVE  DeliveriesTrue'
  BY <1>1, <1>7
<1> QED
  BY <1>3, <1>4, <1>5, <1>6, <1>7, Cases
  DEF ExpiryMoves, WritesExpired, Credits, StaffOverrides, RefundChecks, RefundRecords,
      RefundBreaks, GatewayAnswers,
      CallbackUnknown, CallbackKnown, CallbackReads, DisputeReads, RefundCompletes,
      DisputeReverses, vars, refundVars, disputeVars

\* A payment is written off by a handler that knows the money went back.
LEMMA WrittenOffStep ==
  ASSUME TypeOK, CallsKnown, HandlersKnow, WrittenOffForReason, [Next]_vars
  PROVE  WrittenOffForReason'
<1> DEFINE Reason(t) ==
      bank'[t] = "lost" \/ \E a \in Attempts : attempt'[a].txn = t /\ gateway'[a] = "done"
<1>1. ASSUME \A t \in Txns : txn'[t] = "REFUNDED" => txn[t] = "REFUNDED" \/ Reason(t)
      PROVE  WrittenOffForReason'
  <2>1. ASSUME NEW t \in Txns, txn[t] = "REFUNDED"
        PROVE  Reason(t)
    <3>1. CASE bank[t] = "lost"
      BY <3>1, NeverUndone
    <3>2. ASSUME NEW a \in Attempts, attempt[a].txn = t, gateway[a] = "done"
          PROVE  Reason(t)
      BY <3>2, NeverUndone DEF CallsKnown
    <3> QED
      BY <2>1, <3>1, <3>2 DEF WrittenOffForReason
  <2> QED
    BY <1>1, <2>1 DEF WrittenOffForReason
<1>2. ASSUME NEW h \in Handlers, RefundCompletes(h)
      PROVE  WrittenOffForReason'
  <2>1. handler[h].txn \in Txns /\ handler[h].result[1] \in Attempts
    BY <1>2, TaskFields DEF RefundCompletes
  <2>2. CASE ReverseCredit(handler[h].txn, handler[h].paid) /\ handler[h].result[2]
    <3>1. Reason(handler[h].txn)
      BY <1>2, <2>1, <2>2, NeverUndone DEF RefundCompletes, HandlersKnow
    <3> QED
      BY <1>1, <2>1, <2>2, <3>1 DEF ReverseCredit, TypeOK
  <2>3. CASE txn' = txn
    BY <1>1, <2>3
  <2> QED
    BY <1>2, <2>2, <2>3 DEF RefundCompletes
<1>3. ASSUME NEW h \in Handlers, DisputeReverses(h)
      PROVE  WrittenOffForReason'
  <2>1. handler[h].txn \in Txns
    BY <1>3, TaskFields DEF DisputeReverses
  <2>2. Reason(handler[h].txn)
    BY <1>3, <2>1, NeverUndone DEF DisputeReverses, HandlersKnow
  <2> QED
    BY <1>1, <1>3, <2>1, <2>2 DEF DisputeReverses, ReverseCredit, TypeOK
<1>4. ASSUME NEW t \in Txns, Credits(t)
      PROVE  WrittenOffForReason'
  BY <1>1, <1>4 DEF Credits, TypeOK
<1>5. ASSUME txn' = txn
      PROVE  WrittenOffForReason'
  BY <1>1, <1>5
<1> QED
  BY <1>2, <1>3, <1>4, <1>5, Cases
  DEF ExpiryMoves, WritesExpired, BankMoves, StaffOverrides, RefundChecks, RefundRecords,
      RefundBreaks, GatewayAnswers,
      GatewaySettles, GatewayReports, GatewayRedelivers, CallbackUnknown, CallbackKnown,
      CallbackReads, DisputeReads, HandlerBreaks, vars

-----------------------------------------------------------------------------
(* The running total *)

Good == {t \in history.credited : txn[t] = "SUCCESS"}

\* The steps that touch the invoice, its payments or what is known of them.
LEMMA MoneySteps ==
  ASSUME TypeOK, [Next]_vars
  PROVE  \/ \E t \in Txns : Credits(t)
         \/ ExpiryMoves \/ WritesExpired
         \/ \E h \in Handlers : /\ handler[h].task \in {"refund", "dispute"}
                                /\ ReverseCredit(handler[h].txn, handler[h].paid)
         \/ /\ UNCHANGED <<txn, invoice>>
            /\ history'.credited = history.credited /\ history'.stale = history.stale
            /\ history'.twice = history.twice /\ history'.uncredited = history.uncredited
<1> DEFINE Apart ==
      /\ UNCHANGED <<txn, invoice>>
      /\ history'.credited = history.credited /\ history'.stale = history.stale
      /\ history'.twice = history.twice /\ history'.uncredited = history.uncredited
<1>1. ASSUME UNCHANGED <<txn, invoice, history>>
      PROVE  Apart
  BY <1>1
<1>2. ASSUME NEW a \in Attempts, GatewayReports(a)
      PROVE  Apart
  BY <1>2 DEF GatewayReports, TypeOK
<1>3. ASSUME NEW result \in Attempts \X BOOLEAN, CallbackUnknown(result)
      PROVE  Apart
  BY <1>3 DEF CallbackUnknown, TypeOK
<1> HIDE DEF Apart
<1>4. Apart => /\ UNCHANGED <<txn, invoice>>
               /\ history'.credited = history.credited /\ history'.stale = history.stale
               /\ history'.twice = history.twice /\ history'.uncredited = history.uncredited
  BY DEF Apart
<1> QED
  BY <1>1, <1>2, <1>3, <1>4, Cases
  DEF ExpiryMoves, WritesExpired, BankMoves, StaffOverrides, RefundChecks, RefundRecords,
      RefundBreaks, GatewayAnswers,
      GatewaySettles, GatewayRedelivers, CallbackKnown, CallbackReads, DisputeReads,
      RefundCompletes, DisputeReverses, HandlerBreaks, vars

\* A reversal works on a payment and on a total it read.
LEMMA ReversalReads ==
  ASSUME TypeOK, NEW h \in Handlers, handler[h].task \in {"refund", "dispute"}
  PROVE  handler[h].txn \in Txns /\ handler[h].paid \in Nat
BY TaskFields

\* Only settled payments are in the total.
LEMMA CreditedStep ==
  ASSUME TypeOK, CallsKnown, CreditedSettled, [Next]_vars
  PROVE  CreditedSettled'
<1>1. \A t \in Txns : txn[t] # "none" => txn'[t] # "none"
  BY NeverUndone
<1>2. history.credited \subseteq Txns
  BY DEF TypeOK
<1>3. ASSUME NEW t \in Txns, Credits(t)
      PROVE  history'.credited \subseteq history.credited \cup {t} /\ txn'[t] # "none"
  BY <1>3 DEF Credits, TypeOK
<1>4. ASSUME NEW t, NEW paid, ReverseCredit(t, paid)
      PROVE  history'.credited = history.credited
  BY <1>4 DEF ReverseCredit, TypeOK
<1>5. ASSUME ExpiryMoves \/ WritesExpired
      PROVE  history'.credited = history.credited
  BY <1>5 DEF ExpiryMoves, WritesExpired
<1> QED
  BY <1>1, <1>2, <1>3, <1>4, <1>5, MoneySteps DEF CreditedSettled

\* The status follows the total.
LEMMA StatusStep ==
  ASSUME TypeOK, StatusTellsTotal, [Next]_vars
  PROVE  StatusTellsTotal'
<1> USE DEF InvoiceRow
<1>1. ASSUME NEW t \in Txns, Credits(t)
      PROVE  StatusTellsTotal'
  <2>1. invoice.amountPaid \in Nat /\ Amount[t] \in Nat \ {0} /\ Target \in Nat
    BY SomeRows, TargetAmount DEF TypeOK
  <2>2. CASE invoice.status = "PAID"
    BY <1>1, <2>2 DEF Credits, StatusTellsTotal
  <2>3. CASE invoice.status # "PAID"
    <3> DEFINE paid == invoice.amountPaid + Amount[t]
    <3>1. paid \in Nat /\ paid > 0
      BY <2>1
    <3>2. /\ invoice'.amountPaid = paid
          /\ invoice'.status = IF paid >= Target THEN "PAID" ELSE "PARTIALLY_PAID"
      BY <1>1, <2>3 DEF Credits, TypeOK
    <3> HIDE DEF paid
    <3>3. CASE paid >= Target
      BY <2>1, <3>1, <3>2, <3>3 DEF StatusTellsTotal
    <3>4. CASE ~(paid >= Target)
      BY <2>1, <3>1, <3>2, <3>4 DEF StatusTellsTotal
    <3> QED
      BY <3>3, <3>4
  <2> QED
    BY <2>2, <2>3
<1>2. ASSUME NEW t \in Txns, NEW paid \in Nat, ReverseCredit(t, paid)
      PROVE  StatusTellsTotal'
  <2>1. Amount[t] \in Nat \ {0} /\ Target \in Nat
    BY SomeRows, TargetAmount
  <2> QED
    BY <1>2, <2>1 DEF ReverseCredit, Reversed, StatusTellsTotal, TypeOK
<1>3. ASSUME ExpiryMoves \/ WritesExpired
      PROVE  StatusTellsTotal'
  BY <1>3 DEF ExpiryMoves, WritesExpired, StatusTellsTotal, TypeOK
<1>4. ASSUME invoice' = invoice
      PROVE  StatusTellsTotal'
  BY <1>4 DEF StatusTellsTotal
<1> QED
  BY <1>1, <1>2, <1>3, <1>4, MoneySteps, ReversalReads

\* A payment is credited once, and an undisturbed reversal takes off what it was
\* credited with.
LEMMA ExactStep ==
  ASSUME TypeOK, CreditedSettled, ExactUnlessDisturbed, [Next]_vars
  PROVE  ExactUnlessDisturbed'
<1> DEFINE Disturbed == history.stale \/ history.twice \/ history.uncredited
<1>1. Good \subseteq Txns /\ IsFiniteSet(Good) /\ \A t \in Txns : Amount[t] \in Nat \ {0}
  BY SomeRows, FS_Subset DEF Good, TypeOK
<1>2. GoodCredit = Sum(Amount, Good) /\ GoodCredit' = Sum(Amount, Good')
  BY DEF GoodCredit, Good
<1>3. ASSUME NEW t \in Txns, Credits(t)
      PROVE  ExactUnlessDisturbed'
  <2>1. t \notin history.credited /\ txn[t] = "none" /\ history.credited \subseteq Txns
    BY <1>3 DEF Credits, CreditedSettled, TypeOK
  <2>2. \A u \in Txns : txn'[u] = IF u = t THEN "SUCCESS" ELSE txn[u]
    BY <1>3 DEF Credits, TypeOK
  <2>3. CASE invoice.status = "PAID"
    <3>1. UNCHANGED <<invoice, history>>
      BY <1>3, <2>3 DEF Credits
    <3>2. Good' = Good
      BY <2>1, <2>2, <3>1 DEF Good
    <3> QED
      BY <1>2, <3>1, <3>2 DEF ExactUnlessDisturbed
  <2>4. CASE invoice.status # "PAID"
    <3>1. /\ invoice'.amountPaid = invoice.amountPaid + Amount[t]
          /\ history'.credited = history.credited \cup {t}
          /\ history'.stale = history.stale
          /\ history'.twice = history.twice /\ history'.uncredited = history.uncredited
      BY <1>3, <2>4 DEF Credits, TypeOK, InvoiceRow
    <3>2. Good' = Good \cup {t} /\ t \notin Good
      BY <2>1, <2>2, <3>1 DEF Good
    <3>3. Sum(Amount, Good \cup {t}) = Sum(Amount, Good) + Amount[t]
      <4>1. \A r \in Good \cup {t} : Amount[r] \in Nat
        BY <1>1
      <4> QED
        BY <1>1, <3>2, <4>1, SumAdd
    <3> QED
      BY <1>2, <3>1, <3>2, <3>3 DEF ExactUnlessDisturbed
  <2> QED
    BY <2>3, <2>4
<1>4. ASSUME NEW t \in Txns, NEW paid \in Nat, ReverseCredit(t, paid)
      PROVE  ExactUnlessDisturbed'
  <2>1. /\ history'.stale <=> history.stale \/ paid # invoice.amountPaid
        /\ history'.twice <=> history.twice \/ txn[t] # "SUCCESS"
        /\ history'.uncredited <=> history.uncredited \/ t \notin history.credited
        /\ history'.credited = history.credited
    BY <1>4 DEF ReverseCredit, TypeOK
  <2> SUFFICES ASSUME ~(history'.stale \/ history'.twice \/ history'.uncredited)
               PROVE  invoice'.amountPaid = GoodCredit'
    BY DEF ExactUnlessDisturbed
  <2>2. /\ paid = invoice.amountPaid /\ txn[t] = "SUCCESS" /\ t \in history.credited
        /\ paid = Sum(Amount, Good)
    BY <1>2, <2>1 DEF ExactUnlessDisturbed
  <2>3. \A u \in Txns : txn'[u] = IF u = t THEN "REFUNDED" ELSE txn[u]
    BY <1>4 DEF ReverseCredit, TypeOK
  <2>4. t \in Good /\ Good' = Good \ {t}
    BY <1>1, <2>1, <2>2, <2>3 DEF Good, TypeOK
  <2>5. Sum(Amount, Good) = Sum(Amount, Good \ {t}) + Amount[t]
    <3>1. \A r \in Good : Amount[r] \in Nat
      BY <1>1
    <3> QED
      BY <1>1, <2>4, <3>1, SumRemove
  <2>6. Sum(Amount, Good \ {t}) \in Nat
    <3>1. IsFiniteSet(Good \ {t}) /\ \A r \in Good \ {t} : Amount[r] \in Nat
      BY <1>1, FS_Subset
    <3> QED
      BY <3>1, SumType
  <2>7. invoice'.amountPaid = IF paid > Amount[t] THEN paid - Amount[t] ELSE 0
    BY <1>4 DEF ReverseCredit, Reversed, TypeOK, InvoiceRow
  <2> QED
    BY <1>1, <1>2, <2>2, <2>4, <2>5, <2>6, <2>7
<1>5. ASSUME UNCHANGED <<txn, invoice>>, history'.credited = history.credited,
             history'.stale = history.stale, history'.twice = history.twice,
             history'.uncredited = history.uncredited
      PROVE  ExactUnlessDisturbed'
  <2>1. Good' = Good
    BY <1>5 DEF Good
  <2> QED
    BY <1>2, <1>5, <2>1 DEF ExactUnlessDisturbed
<1>6. ASSUME ExpiryMoves \/ WritesExpired
      PROVE  ExactUnlessDisturbed'
  <2>1. UNCHANGED <<txn, history>> /\ invoice'.amountPaid = invoice.amountPaid
    BY <1>6 DEF ExpiryMoves, WritesExpired, TypeOK, InvoiceRow
  <2>2. Good' = Good
    BY <2>1 DEF Good
  <2> QED
    BY <1>2, <2>1, <2>2 DEF ExactUnlessDisturbed
<1> QED
  BY <1>3, <1>4, <1>5, <1>6, MoneySteps, ReversalReads

-----------------------------------------------------------------------------
(* The theorems *)

\* At first there is nothing to tell.
LEMMA InitIInv == Init => IInv
<1> SUFFICES ASSUME Init PROVE IInv
  OBVIOUS
<1>1. (CHOOSE t \in Txns : TRUE) \in Txns
  BY SomeRows
<1>2. TypeOK
  <2>1. handler \in [Handlers -> Tasks]
    BY DEF Init, Tasks
  <2>2. attempt \in [Attempts -> [txn : Txns, at : {"idle", "calling", "accepted",
                                                    "rejected", "returned", "broken"}]]
    BY <1>1 DEF Init
  <2> QED
    BY <2>1, <2>2, EchoBound DEF Init, TypeOK, InvoiceRow
<1>3. CallsKnown /\ DeliveriesTrue /\ CreditedSettled /\ WrittenOffForReason
  BY DEF Init, CallsKnown, DeliveriesTrue, CreditedSettled, WrittenOffForReason
<1>4. HandlersKnow
  BY DEF Init, HandlersKnow, Idle
<1>5. StatusTellsTotal
  BY TargetAmount DEF Init, StatusTellsTotal
<1>6. ExactUnlessDisturbed
  <2>1. {t \in history.credited : txn[t] = "SUCCESS"} = {}
    BY DEF Init
  <2> QED
    BY <2>1, SumEmpty DEF Init, ExactUnlessDisturbed, GoodCredit
<1> QED
  BY <1>2, <1>3, <1>4, <1>5, <1>6 DEF IInv

\* Every reachable state satisfies the inductive invariant: whatever a handler
\* has read of the gateway or the bank is still so when it writes.
THEOREM Inductive == Spec => []IInv
<1>1. IInv /\ [Next]_vars => IInv'
  BY TypeStep, CallsStep, DeliveriesStep, HandlersStep, CreditedStep, WrittenOffStep,
     StatusStep, ExactStep DEF IInv
<1> QED
  BY InitIInv, <1>1, PTL DEF Spec

\* Every state is typed, and only settled payments have a refund row.
THEOREM TypeCorrect == Spec => []TypeOK
<1>1. IInv => TypeOK
  BY DEF IInv
<1> QED
  BY <1>1, Inductive, PTL

\* completeRefund() and handleDisputeEvent() write a contribution off only when
\* its payer has the money back.
THEOREM MoneyWentBack == Spec => []WrittenOffForReason
<1>1. IInv => WrittenOffForReason
  BY DEF IInv
<1> QED
  BY <1>1, Inductive, PTL

\* Crediting and reversing leave the status that the new total asks for, from
\* however old a reading, on an expired invoice and on one without an amount;
\* EXPIRED alone says nothing of the total.
THEOREM StatusFollows == Spec => []StatusTellsTotal
<1>1. IInv => StatusTellsTotal
  BY DEF IInv
<1> QED
  BY <1>1, Inductive, PTL

\* The total is the payments that stand, until an old reading, a second reversal
\* or the reversal of an uncredited payment: nothing else loses count.
THEOREM TotalExact == Spec => []ExactUnlessDisturbed
<1>1. IInv => ExactUnlessDisturbed
  BY DEF IInv
<1> QED
  BY <1>1, Inductive, PTL

=============================================================================

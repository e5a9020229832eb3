--------------------------- MODULE GatewayPayout ---------------------------
(***************************************************************************)
(* The life of a payout that leaves the platform through PawaPay.          *)
(*                                                                         *)
(* Three services send money out: vendor disbursements, organization       *)
(* withdrawals and the platform's own withdrawals.  All three               *)
(*   1. insert a PENDING row inside a Serializable transaction,            *)
(*   2. POST a payout with a fresh payoutId to PawaPay,                    *)
(*   3. store the answer on the row (accepted, with the payoutId as        *)
(*      reference, or FAILED),                                             *)
(*   4. wait for the signed callback that carries the final status.        *)
(* Nothing joins the four steps: the request may throw or the process may  *)
(* stop between any two of them, and the callback is a separate request    *)
(* that does not wait for step 3.                                          *)
(*                                                                         *)
(* Step 1 belongs to the service (its guard differs); this module is the   *)
(* rest.  A payout and the row made for it have one name: a payoutId is a  *)
(* fresh uuid used by one request.                                         *)
(***************************************************************************)
EXTENDS Naturals, FiniteSets

CONSTANTS
  Payouts,           \* the payout attempts, one row and one payoutId each
  Handed,            \* row status once PawaPay accepted: "QUEUED" or "PROCESSING"
  Done,              \* row status once the money arrived: "SUCCESS" or "COMPLETED"
  MaxRedeliveries    \* bound: callbacks PawaPay sends although it was answered

ASSUME PayoutsFinite == IsFiniteSet(Payouts)
ASSUME StatusNames ==
  /\ Handed \notin {"none", "PENDING", "FAILED"}
  /\ Done \notin {"none", "PENDING", "FAILED", Handed}
ASSUME RedeliveriesBound == MaxRedeliveries \in Nat

VARIABLES
  status,      \* the status column of the row, "none" before the insert
  refStored,   \* rows whose providerReference / gatewayTransferRef is set
  request,     \* where the request that created the row stands
  gateway,     \* what PawaPay did with the payout
  callbacks,   \* payouts whose final callback PawaPay still has to deliver
  dropped,     \* payouts whose callback was answered 200 but matched no row
  redelivered  \* redeliveries so far

payoutVars ==
  <<status, refStored, request, gateway, callbacks, dropped, redelivered>>

Statuses == {"none", "PENDING", Handed, Done, "FAILED"}

\* Statuses a row does not leave unless a callback contradicts it.
Final == {Done, "FAILED"}

PayoutTypeOK ==
  /\ status \in [Payouts -> Statuses]
  /\ refStored \in SUBSET Payouts
  /\ request \in [Payouts ->
       {"idle", "calling", "accepted", "rejected", "returned", "broken"}]
  /\ gateway \in [Payouts -> {"none", "accepted", "rejected", "paid", "failed"}]
  /\ callbacks \in SUBSET Payouts
  /\ dropped \in SUBSET Payouts
  /\ redelivered \in 0 .. MaxRedeliveries

PayoutInit ==
  /\ status = [p \in Payouts |-> "none"]
  /\ refStored = {}
  /\ request = [p \in Payouts |-> "idle"]
  /\ gateway = [p \in Payouts |-> "none"]
  /\ callbacks = {}
  /\ dropped = {}
  /\ redelivered = 0

-----------------------------------------------------------------------------
(* The requesting service *)

\* The insert of the PENDING row, the last statement of the service's
\* reservation transaction; its guard is the service's.
CreateRow(p) ==
  /\ status[p] = "none"
  /\ status' = [status EXCEPT ![p] = "PENDING"]
  /\ request' = [request EXCEPT ![p] = "calling"]
  /\ UNCHANGED <<refStored, gateway, callbacks, dropped, redelivered>>

\* result.accepted: the row takes the payoutId as its reference.
RecordAccepted(p) ==
  /\ request[p] = "accepted"
  /\ status' = [status EXCEPT ![p] = Handed]
  /\ refStored' = refStored \cup {p}
  /\ request' = [request EXCEPT ![p] = "returned"]
  /\ UNCHANGED <<gateway, callbacks, dropped, redelivered>>

\* The payout was refused: FAILED with a failureReason and no reference.
RecordRejected(p) ==
  /\ request[p] = "rejected"
  /\ status' = [status EXCEPT ![p] = "FAILED"]
  /\ request' = [request EXCEPT ![p] = "returned"]
  /\ UNCHANGED <<refStored, gateway, callbacks, dropped, redelivered>>

\* Mutant: a catch block that marks the row FAILED when the request broke.
RequestFailsRow(p) ==
  /\ request[p] \in {"calling", "accepted", "rejected"}
  /\ request' = [request EXCEPT ![p] = "broken"]
  /\ status' = [status EXCEPT ![p] = "FAILED"]
  /\ UNCHANGED <<refStored, gateway, callbacks, dropped, redelivered>>

\* initiatePayout throws (no connection, an answer that is not JSON), the
\* update after it throws, or the process stops: nothing catches it and no job
\* picks the row up again, so the row stays as it is.
RequestBreaks(p) ==
  /\ request[p] \in {"calling", "accepted", "rejected"}
  /\ request' = [request EXCEPT ![p] = "broken"]
  /\ UNCHANGED <<status, refStored, gateway, callbacks, dropped, redelivered>>

-----------------------------------------------------------------------------
(* PawaPay (external) *)

\* PawaPay takes or refuses the payout; the answer reaches a request that is
\* still waiting for it.
GatewayAnswers(p, answer) ==
  /\ request[p] \in {"calling", "broken"}
  /\ gateway[p] = "none"
  /\ gateway' = [gateway EXCEPT ![p] = answer]
  /\ request' = [request EXCEPT ![p] = IF @ = "calling" THEN answer ELSE @]
  /\ UNCHANGED <<status, refStored, callbacks, dropped, redelivered>>

\* An accepted payout reaches the recipient or fails; either way PawaPay owes
\* one callback, sent until it is answered 200.
GatewaySettles(p, outcome) ==
  /\ gateway[p] = "accepted"
  /\ gateway' = [gateway EXCEPT ![p] = outcome]
  /\ callbacks' = callbacks \cup {p}
  /\ UNCHANGED <<status, refStored, request, dropped, redelivered>>

\* A callback that was answered already is sent once more.
GatewayRedelivers(p) ==
  /\ gateway[p] \in {"paid", "failed"}
  /\ p \notin callbacks
  /\ redelivered < MaxRedeliveries
  /\ redelivered' = redelivered + 1
  /\ callbacks' = callbacks \cup {p}
  /\ UNCHANGED <<status, refStored, request, gateway, dropped>>

-----------------------------------------------------------------------------
(* The callback handler *)

\* Mutant: only COMPLETED is treated as final.
NextStatusOnSuccess(p) == IF gateway[p] = "paid" THEN Done ELSE status[p]

\* nextStatus: COMPLETED or anything else.
NextStatus(p) == IF gateway[p] = "paid" THEN Done ELSE "FAILED"

\* The row is looked up by reference; when found it takes the final status.
\* (The handler's early return when the status is that already only skips an
\* identical write.)
CallbackMatches(p) ==
  /\ p \in callbacks
  /\ p \in refStored
  /\ status' = [status EXCEPT ![p] = NextStatus(p)]
  /\ callbacks' = callbacks \ {p}
  /\ UNCHANGED <<refStored, request, gateway, dropped, redelivered>>

\* No row has this reference: the handler answers 200 and does nothing.
CallbackUnknown(p) ==
  /\ p \in callbacks
  /\ p \notin refStored
  /\ dropped' = dropped \cup {p}
  /\ callbacks' = callbacks \ {p}
  /\ UNCHANGED <<status, refStored, request, gateway, redelivered>>

-----------------------------------------------------------------------------
\* Everything but the reservation.
PayoutStep(p) ==
  \/ RecordAccepted(p)
  \/ RecordRejected(p)
  \/ RequestBreaks(p)
  \/ GatewayAnswers(p, "accepted")
  \/ GatewayAnswers(p, "rejected")
  \/ GatewaySettles(p, "paid")
  \/ GatewaySettles(p, "failed")
  \/ GatewayRedelivers(p)
  \/ CallbackMatches(p)
  \/ CallbackUnknown(p)

\* Money that left, or can still leave, through PawaPay for this payout.
Live(p) ==
  \/ gateway[p] \in {"accepted", "paid"}
  \/ gateway[p] = "none" /\ request[p] # "idle"

\* A row never ends in a status the gateway contradicts: SUCCESS/COMPLETED only
\* for money that arrived, FAILED only for a payout that was refused or failed.
\* Broken by any handler that guesses: a catch block that fails the row of a
\* request that broke, or a callback whose status is not looked at.
FinalMatchesGateway ==
  \A p \in Payouts :
    /\ status[p] = Done => gateway[p] = "paid"
    /\ status[p] = "FAILED" => gateway[p] \in {"rejected", "failed"}

\* A row PawaPay accepted ends in its final status, unless its callback came
\* before the reference it is looked up by was stored.
HandedSettles ==
  \A p \in Payouts :
    (status[p] = Handed /\ p \notin dropped) ~> status[p] \in Final

\* The callback handler's "unknown/foreign payout - nothing of ours to update":
\* a callback that matches no row is not one of this platform's payouts.
UnknownIsForeign == dropped = {}

=============================================================================

------------------------------ MODULE Treasury ------------------------------
(***************************************************************************)
(* The money of one country: what the wallet at PawaPay holds and what the *)
(* application's books say it should hold.                                 *)
(*                                                                         *)
(* Charges of the country land in one wallet, but for those that Paystack  *)
(* took before Kenya moved to PawaPay: its rows, and what was paid out     *)
(* through it, are in the books still.  Three services pay out of the      *)
(* wallet, each against a balance of its own:                              *)
(*   WithdrawalsService      an organization takes its own money           *)
(*   DisbursementsService    an event of the organization pays a vendor    *)
(*   PlatformPayoutsService  the platform takes its fees                   *)
(* Each reserves in one Serializable transaction, one step here, and goes  *)
(* on as module GatewayPayout says.  Refunds take money out as well, and   *)
(* personal invoices put money in.  ReconciliationService compares the     *)
(* wallet with the books.                                                  *)
(*                                                                         *)
(* One organization with one event stands for all of them: the balances    *)
(* are per organization and the wallet adds them up.  Module Disbursements *)
(* has the categories behind the amount of a vendor payout.                *)
(***************************************************************************)
EXTENDS Integers, Money, GatewayPayout

CONSTANTS
  Contributions,  \* transaction rows of the organization's event
  Manual,         \* those recorded by hand: money outside the platform
  Paystack,       \* those charged by Paystack: money outside the wallet
  Settled,        \* amountSettled of each contribution
  Fee,            \* platformFeeAmount of each contribution, 0 by hand
  Personal,       \* personal invoices of the country's users
  Gross,          \* what the payer of each personal invoice is charged
  Earlier,        \* what payouts of each kind took that Paystack completed
  MaxAmount       \* bound: largest amount paid out at once

ASSUME ContributionRows ==
  /\ IsFiniteSet(Contributions)
  /\ Manual \subseteq Contributions
  /\ Paystack \subseteq Contributions \ Manual
  /\ Settled \in [Contributions -> Nat]
  /\ Fee \in [Contributions -> Nat]
  /\ \A t \in Manual : Fee[t] = 0
ASSUME PersonalRows == IsFiniteSet(Personal) /\ Gross \in [Personal -> Nat]
ASSUME AmountBound == MaxAmount \in Nat

Kinds == {"withdrawal", "disbursement", "platform"}

ASSUME EarlierPayouts == Earlier \in [Kinds -> Nat]

VARIABLES
  kind,          \* the table of each payout row
  amount,        \* its amount
  contribution,  \* where each contribution stands, the gateway included
  personal,      \* personal invoices that were paid
  destination,   \* the platform has a payout destination for the country
  late           \* history: payouts that were asked for while a live payout of
                 \* their pool was not in the balance the request looked at

poolVars == <<kind, amount, contribution, personal, destination, late>>
vars == <<payoutVars, poolVars>>

\* "charged": the payer's money is at the gateway, no webhook job has inserted
\* its row, or none ever will.  "returned": the money went back, by a refund or a
\* lost dispute, and the row is still SUCCESS, or stays so.
Stages == {"none", "charged", "SUCCESS", "returned", "REFUNDED"}

-----------------------------------------------------------------------------
(* Aggregates of the books *)

Rows(k, counted) == {p \in Payouts : kind[p] = k /\ status[p] \in counted}

\* Mutant: only completed withdrawals count.
WithdrawnCompleted == {Done}

\* Withdrawals that count: PROCESSING and COMPLETED, of both tables.
Withdrawn == {Handed, Done}

\* Vendor payouts that count, the ones not yet answered for included.
SpokenFor == {"PENDING", Handed, Done}

Credited == {t \in Contributions : contribution[t] \in {"SUCCESS", "returned"}}

\* Mutant: money recorded by hand counts as received.
TotalReceivedCash == Sum(Settled, Credited)

TotalReceived == Sum(Settled, Credited \ Manual)
TotalWithdrawn == Earlier["withdrawal"] + Sum(amount, Rows("withdrawal", Withdrawn))
TotalDisbursed == Earlier["disbursement"] + Sum(amount, Rows("disbursement", SpokenFor))
TotalFees == Sum(Fee, Credited)
TotalFeesWithdrawn == Earlier["platform"] + Sum(amount, Rows("platform", Withdrawn))

\* WithdrawalsService.getBalance
Balance == TotalReceived - TotalWithdrawn - TotalDisbursed

\* What a vendor payout may take: withdrawals are not looked at.
EventRealRemaining == TotalReceived - TotalDisbursed

\* PlatformPayoutsService.getBalance
PlatformBalance == TotalFees - TotalFeesWithdrawn

-----------------------------------------------------------------------------
(* The wallet (PawaPay) and the comparison *)

Charged == Contributions \ (Manual \cup Paystack)
InWallet == {t \in Charged : contribution[t] \in {"charged", "SUCCESS"}}
PaidOut == {p \in Payouts : gateway[p] \in {"accepted", "paid"}}

\* Charges in, refunds and payouts out; a payout is debited when it is accepted.
LiveBalance ==
  Sum(Settled, InWallet) + Sum(Fee, InWallet) + Sum(Gross, personal)
  - Sum(amount, PaidOut)

\* The books have no gateway: what went through Paystack counts like the rest.
TotalOwedToOrgs == TotalReceived - TotalWithdrawn - TotalDisbursed
ExpectedTotal == TotalOwedToOrgs + PlatformBalance
Drift == LiveBalance - ExpectedTotal

-----------------------------------------------------------------------------
TypeOK ==
  /\ PayoutTypeOK
  /\ kind \in [Payouts -> Kinds \cup {"none"}]
  /\ amount \in [Payouts -> 0 .. MaxAmount]
  /\ contribution \in [Contributions -> Stages]
  /\ personal \in SUBSET Personal
  /\ destination \in BOOLEAN
  /\ late \in SUBSET {p \in Payouts : status[p] # "none"}
  /\ \A p \in Payouts : (status[p] = "none") <=> (request[p] = "idle")
  /\ \A p \in Payouts : status[p] # "none" => kind[p] # "none" /\ amount[p] > 0

Init ==
  /\ PayoutInit
  /\ kind = [p \in Payouts |-> "none"]
  /\ amount = [p \in Payouts |-> 0]
  /\ contribution = [t \in Contributions |-> IF t \in Paystack THEN "charged" ELSE "none"]
  /\ personal = {}
  /\ destination = FALSE
  /\ late = {}

-----------------------------------------------------------------------------
(* Payouts *)

\* A payout of kind k whose money may still leave, or has left, with a row in one
\* of these statuses.
Under(k, statuses) ==
  \E q \in Payouts : kind[q] = k /\ Live(q) /\ status[q] \in statuses

\* The row of kind k for amount a; unseen tells that a live payout of the pool is
\* not in the balance.
Reserve(p, k, a, unseen) ==
  /\ CreateRow(p)
  /\ kind' = [kind EXCEPT ![p] = k]
  /\ amount' = [amount EXCEPT ![p] = a]
  /\ late' = IF unseen THEN late \cup {p} ELSE late
  /\ UNCHANGED <<contribution, personal, destination>>

\* Mutant: an amount of zero passes validation.
RequestWithdrawalOfNothing(p, a) ==
  /\ a <= Balance \/ a = 0
  /\ Reserve(p, "withdrawal", a, Under("withdrawal", {"PENDING"}))

\* WithdrawalsService.requestWithdrawal, up to the commit of its reservation;
\* the amount is positive by validation.
RequestWithdrawal(p, a) ==
  /\ a > 0
  /\ a <= Balance
  /\ Reserve(p, "withdrawal", a, Under("withdrawal", {"PENDING"}))

\* DisbursementsService.pay of a funded category with a vendor who can be paid,
\* up to the commit of its reservation.
Pay(p, a) ==
  /\ a > 0
  /\ a <= EventRealRemaining
  /\ Reserve(p, "disbursement", a,
       Earlier["withdrawal"] > 0 \/ Under("withdrawal", {"PENDING", Handed, Done}))

\* PlatformPayoutsService.requestWithdrawal, up to the commit of its
\* reservation.  The destination is read before; it can be replaced but not
\* taken away.
RequestPlatformWithdrawal(p, a) ==
  /\ destination
  /\ a > 0
  /\ a <= PlatformBalance
  /\ Reserve(p, "platform", a, Under("platform", {"PENDING"}))

\* PlatformPayoutsService.setDestination
SetDestination ==
  /\ ~destination
  /\ destination' = TRUE
  /\ UNCHANGED <<payoutVars, kind, amount, contribution, personal, late>>

\* The rest of a request, and completeWithdrawal or completeDisbursement.
PayoutMoves(p) ==
  /\ PayoutStep(p)
  /\ UNCHANGED poolVars

-----------------------------------------------------------------------------
(* Money in, money back *)

ContributionMoves(t, from, to) ==
  /\ contribution[t] = from
  /\ contribution' = [contribution EXCEPT ![t] = to]
  /\ UNCHANGED <<payoutVars, kind, amount, personal, destination, late>>

\* A payer is charged (external), no longer through Paystack.
PayerCharged(t) == t \in Charged /\ ContributionMoves(t, "none", "charged")

\* WebhookProcessor inserts the row with its settled amount and its fee.
WebhookCredits(t) == ContributionMoves(t, "charged", "SUCCESS")

\* TransactionsService.recordManual: cash, no wallet and no fee.
RecordManual(t) == t \in Manual /\ ContributionMoves(t, "none", "SUCCESS")

\* The gateway that took a charge pays all of it back: a refund, or a dispute the
\* payer's bank decided (external).
RefundPaid(t) == t \notin Manual /\ ContributionMoves(t, "SUCCESS", "returned")

\* reverseTransactionCredit flips the row: neither its settled amount nor its fee
\* counts.
RefundCompletes(t) == ContributionMoves(t, "returned", "REFUNDED")

\* A personal invoice is paid: its row is in a table no aggregate reads.
PersonalInvoicePaid(i) ==
  /\ i \notin personal
  /\ personal' = personal \cup {i}
  /\ UNCHANGED <<payoutVars, kind, amount, contribution, destination, late>>

-----------------------------------------------------------------------------
Next ==
  \/ \E p \in Payouts, a \in 0 .. MaxAmount :
       RequestWithdrawal(p, a) \/ Pay(p, a) \/ RequestPlatformWithdrawal(p, a)
  \/ \E p \in Payouts : PayoutMoves(p)
  \/ SetDestination
  \/ \E t \in Contributions :
       \/ PayerCharged(t)
       \/ WebhookCredits(t)
       \/ RecordManual(t)
       \/ RefundPaid(t)
       \/ RefundCompletes(t)
  \/ \E i \in Personal : PersonalInvoicePaid(i)

Spec == Init /\ [][Next]_vars

-----------------------------------------------------------------------------
(* Properties *)

EverCredited == {t \in Contributions : contribution[t] \notin {"none", "charged"}}
LiveOf(kinds) == Sum(amount, {p \in Payouts : kind[p] \in kinds /\ Live(p)})

\* Only late requests overdraw: what the others may take, with what was paid out
\* through Paystack before, is never more than the organization ever received
\* through a gateway, of its withdrawals and vendor payouts together, and never
\* more than the fees the platform ever charged.  A request is late that is made
\* before the answer to a live withdrawal of its pool is stored, or for a vendor
\* while a withdrawal is live or was made; the pools share a wallet and do not eat
\* into each other.
OnTimeOf(kinds) ==
  Sum(amount, {p \in Payouts \ late : kind[p] \in kinds /\ Live(p)})

OnlyLateOverdraw ==
  LET ofOrganization == OnTimeOf({"withdrawal", "disbursement"})
      ofPlatform == OnTimeOf({"platform"})
  IN /\ ofOrganization > 0 =>
          Earlier["withdrawal"] + Earlier["disbursement"] + ofOrganization
            <= Sum(Settled, EverCredited \ Manual)
     /\ ofPlatform > 0 => Earlier["platform"] + ofPlatform <= Sum(Fee, EverCredited)

\* Charges in the wallet without a row, because their job is on its way or used up
\* its attempts, and rows that count money the wallet does not have: Paystack's,
\* and those of which a refund was paid and not recorded, or not yet.
Unrecorded == {t \in Charged : contribution[t] = "charged"}
Elsewhere == {t \in Credited \ Manual : t \in Paystack \/ contribution[t] = "returned"}

\* Rows that do not say, or not yet, what happened to their money: a request that
\* broke leaves its row PENDING, which hides a withdrawal that was made and keeps a
\* vendor payout that was not; a callback that came before the reference leaves
\* a failed payout counted.
Hidden ==
  {p \in PaidOut : kind[p] # "disbursement" /\ status[p] = "PENDING"}
Phantom ==
  {p \in Payouts \ PaidOut :
     \/ kind[p] = "disbursement" /\ status[p] = "PENDING"
     \/ status[p] = Handed}

Charge(contributions) == Sum(Settled, contributions) + Sum(Fee, contributions)

\* What a drift that reconciliation reports can consist of, to the unit and at any
\* time: personal invoices, charges without a row, payouts a row hides or invents,
\* rows of money that is elsewhere, and what Paystack paid out.  Nothing else
\* drifts: cash, fees, reversals and the three kinds of payout cancel out.
DriftExplained ==
  Drift = Sum(Gross, personal) + Charge(Unrecorded) - Charge(Elsewhere)
            - Sum(amount, Hidden) + Sum(amount, Phantom)
            + (Earlier["withdrawal"] + Earlier["disbursement"] + Earlier["platform"])

\* The comment of checkPawaPayCountry: "Exact, no known confound", once nothing
\* is under way.
NoConfound ==
  (/\ \A t \in Contributions : contribution[t] \in {"none", "SUCCESS", "REFUNDED"}
   /\ \A p \in Payouts : request[p] \in {"idle", "returned"}
   /\ callbacks = {}) => Drift = 0

\* The reservation's comment: requests do not end up "draining more than the
\* organization actually has", overlapping or not.
NeverOverdrawn ==
  LiveOf({"withdrawal"}) > 0 =>
    Earlier["withdrawal"] + Earlier["disbursement"] + LiveOf({"withdrawal"})
      <= Sum(Settled, EverCredited \ Manual)

\* getBalance's comment: money that left for a vendor "must not remain
\* double-countable"; kept by withdrawals, not by the vendor payouts themselves.
NeverCountedTwice ==
  Earlier["withdrawal"] + Earlier["disbursement"] + LiveOf({"withdrawal", "disbursement"})
    <= Sum(Settled, EverCredited \ Manual)

=============================================================================

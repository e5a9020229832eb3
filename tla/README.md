# OpenPoll: a formal model

OpenPoll is a NestJS backend with which organizers collect contributions for an
event, allocate them to budget categories and pay vendors. Money comes in through
PawaPay and Paystack, leaves through PawaPay, and is accounted for in Postgres.
These modules model the parts that move money or decide whether it may move. Every
safety property that a run checks and that the code keeps is also proved for all
values of the constants; liveness is model-checked.

Paths below are relative to the repository; modules and runs are in this directory.

## 1. Inventory

| component | state it keeps | operations | what makes it correct |
|---|---|---|---|
| Vendor disbursements (`src/modules/disbursements`) | `Disbursement` rows | `pay`, callback | a category's vendor is never paid more than its allocation, the event never pays what it did not receive, a row ends as the gateway says |
| Withdrawals (`src/modules/withdrawals`) | `Withdrawal` rows | `getBalance`, `requestWithdrawal`, `completeWithdrawal` | an organization never draws more than it received |
| Platform payouts (`src/modules/platform-payouts`) | `PlatformWithdrawal` rows, a destination per country | `setDestination`, `requestWithdrawal`, `completeWithdrawal` | fees are withdrawn once |
| Reconciliation (`src/modules/reconciliation`) | none | `check` | a drift consists of nothing but what is known to cause one |
| Checkout and settlement (`src/modules/payments`) | `Transaction` rows, `Invoice.status` and `amountPaid`, the webhook queue | `initializeCheckout`, `initiateDeposit`, webhook controllers, `WebhookProcessor` | each charge recorded as successful is credited once, net of the fee; the payer pays no more than what is outstanding |
| Payment providers (`src/modules/payments/providers`) | none | charges, payouts, refunds, parsing of webhooks | a gateway's word is never taken for more than it says |
| Invoices (`src/modules/invoices`) | `Invoice` rows | `create`, `createPledge`, `findByToken`, `getContributorSummary` | the summary says what the totals say |
| Personal invoices (`src/modules/personal-invoices`) | `PersonalInvoice`, its payments, a second queue | `create`, `initializeCheckout`, `findByToken`, its processor | credited its own amount, once, after confirmation, in its currency |
| Refunds and disputes (`src/modules/transactions`) | `Refund`, `Dispute` rows, `Transaction.status` | `refund`, `completeRefund`, `handleDisputeEvent`, `updateDisputeStatus`, `recordManual` | a contribution is written off only when its payer was paid back, once, and the invoice's total follows |
| Budget categories and templates (`src/modules/budget-categories`, `budget-templates`) | categories, allocations, templates | `create`, `update`, `remove`, `allocate`, `assignVendor`; `createFromEvent`, `apply` | allocations fit the receipts; nothing moves after submission |
| Budget approvals (`src/modules/budget-approvals`) | one approval per event | `getStatus`, `submit`, `decide`, `fund` | funded means approved, with the approved numbers |
| Vendors (`src/modules/vendors`) | `Vendor` rows | `create`, `remove` | a payout in flight keeps its vendor |
| Authentication, users (`src/auth`, `src/modules/users`) | `User` rows | `register`, `updateProfile`, `setMobileMoneyPayout` | an invitation confers what it says; payout, country and currency fit |
| Organizations, agency clients, guards (`src/modules/organizations`, `agency-clients`, `src/common`) | organizations, memberships, invitations, client links and grants | `create`, `getOrCreatePersonalOrg`, `inviteMember`, `createClient`, `grantAccess`, `revokeAccess` | nobody gets access from nowhere, nobody is shut out for good, a role stays |
| Platform administration (`src/modules/platform-admin`) | staff roles and invitations, the agency plan | `inviteStaff`, `revokeStaff`, `setAgencyPlan` | the second client is paid for |
| Events, reports, bank lookups, audit, e-mail, configuration | see `PROJECT.json` | | `createQuick` only, or left out with a reason (section 8) |

How they interact. A checkout asks a gateway for a charge and keeps nothing of it;
the charge comes back as a signed webhook, is queued in BullMQ and worked by a
processor, which inserts the `Transaction` and credits the invoice. Balances are
aggregates over `Transaction`, `Disbursement` and `Withdrawal` rows, read anew by
every reservation. A payout reserves a row, posts to PawaPay, stores the answer,
and is finished by a callback that looks the row up by reference. Refunds go the
same way but keep no reservation. The budget workflow decides what may be paid, and
memberships and grants decide who may ask.

What is hard. There are no locks: only three reservations run Serializable, the
other checks are a read and a later write. The gateway is called between
statements, so a request can die with the payout made and the row not updated, and
a callback can arrive before its reference. Webhooks repeat and overtake each
other, jobs are retried from the start. `PROJECT.json` "hazards" lists these at
their lines.

## 2. Modules

| module | models | extends |
|---|---|---|
| `Money` | `Sum`, the SQL aggregate | |
| `GatewayPayout` | what follows the reservation of every payout: request, answer, failure at every point, callback | |
| `Disbursements` | `pay()` and everything that moves what it reads, category by category | `Money`, `GatewayPayout` |
| `PayoutPool` | the abstract promise of a payout service | `Money` |
| `Treasury` | the three payout services over one wallet, and the reconciliation of it | `Money`, `GatewayPayout` |
| `Providers` | what the providers make of the gateways' words | |
| `WebhookQueue` | charges, webhook deliveries, retried jobs | `Providers` |
| `Fees` | the platform's fee | |
| `CreditLedger` | the abstract promise of the two charge processors | |
| `Settlement` | issuing, checkout, expiry and crediting of invoices, links and deposits | `WebhookQueue`, `Fees`, `Money` |
| `PersonalInvoices` | the same for a personal invoice, which is closed by a conditional update | `WebhookQueue`, `Fees` |
| `Reversals` | refunds and disputes of the payments of one invoice | `Money`, `Providers` |
| `BudgetApproval` | categories, templates, allocations and the approval of one event | `Money` |
| `BudgetSpending` | its vendors and payouts | `BudgetApproval` |
| `Accounts` | users, registration, invitations, staff, payout settings, currency of personal invoices | |
| `Organizations` | organizations, memberships, agencies, grants, workspaces | |
| `MoneyTheorems` | facts about `Sum` | `Money` |
| `DisbursementsTheorems`, `TreasuryTheorems`, `ReversalsTheorems` | the proofs | the module named, `MoneyTheorems` |
| `SettlementTheorems` | the proofs about the queue and both of its processors | `Settlement`, `PersonalInvoices`, `MoneyTheorems` |
| `BudgetTheorems` | the proofs about both budget modules | `BudgetSpending`, `MoneyTheorems` |
| `AccountsTheorems`, `OrganizationsTheorems` | the proofs | the module named |
| `MC...` | instances for TLC | the module named |

`PROJECT.json` "map" gives the lines of each definition. The correspondence in short:

- **Payouts.** A row and its payoutId have one name. `request` is where the HTTP
  request stands between its statements, `status` the row's column, `gateway` what
  PawaPay did. `RequestBreaks` is any throw or process exit between two statements.
  `CallbackMatches` finds the row by reference, `CallbackUnknown` is the branch that
  answers 200 without one. A Serializable reservation (`reserveDisbursement`,
  `reserveWithdrawal`) is one step: if two conflict, Postgres refuses one, which is
  the answer 409 and changes nothing.
- **Treasury.** `kind` is the table of a row; the rest of it is `GatewayPayout`'s.
  `Balance`, `EventRealRemaining` and `PlatformBalance` are the three checks,
  `ExpectedTotal` and `Drift` are reconciliation's, `LiveBalance` is PawaPay's
  wallet. One organization with one event stands for all: the code's balances are
  sums over the rows of one organization, and reconciliation adds them up. `Paystack`
  are the transactions of Kenya from before it moved to PawaPay
  (`supported-countries.ts:33-38`, `transactions.service.ts:111-114`) and `Earlier`
  the payouts Paystack made then: no aggregate filters by gateway, so they are in
  every balance, and their money never was in PawaPay's wallet. A charge that is
  `charged` has no row, because its job is on the way or used up its attempts;
  `returned` is money that went back while its row still says SUCCESS, or does for
  good because the result of the refund found no row. `late` is
  history: the payouts that were asked for while a live one of their pool was not in
  the balance the request looked at.
- **Queue.** One webhook delivery is one job. A job's steps are the duplicate
  check, the verification, the insert of the row, the commit with the credit, and
  the audit record; `Retries` is a throw at any of them. A processor's transaction
  runs at Read Committed, so the invoice it read may be old when it writes; the
  increment is computed by the database and is not. Two inserts of one reference
  wait for each other, by the unique index.
- **Settlement.** A charge starts as a pay page (`OpensPage`, `quote` is the total it
  shows), goes on as a checkout (`CheckoutReads`, which decides the amount from the
  invoice as it reads it) and ends at the gateway (`CheckoutCharges`, `CheckoutRefused`).
  `permanent` is `expiresAt = null`; `amountRequested = 0` is null. A refund or a lost
  dispute takes a payment off the invoice in two steps, `ReversalReads` and
  `ReversalWrites`, once for each charge; `outdated` is history: a payment was taken
  off since the page was opened. What leads to a reversal, and several of one
  transaction, are in `Reversals`.
- **Personal invoices.** A checkout reads (`PayerReads`) and then asks for the charge
  (`PayerCharges`, `PayerRefused`). A visitor who has read an expired invoice writes
  EXPIRED in a later statement whatever the row is by then (`SeesLapsed`,
  `lapsing`, `WritesLapsed`). The credit is `updateMany` on an invoice that is not
  PAID.
- **Providers.** The sets of words are external; the functions are the code's.
  `WebhookQueue` and `Reversals` choose any word that is true of the charge, refund
  or dispute and pass it through them.
- **Reversals.** A handler reads (`CallbackReads`, `DisputeReads`) and writes
  (`RefundCompletes`, `DisputeReverses`) in two steps; the write is an absolute
  `amountPaid` computed from the reading. The invoice has every status: whoever opens or
  checks out an expired one that he reads as not paid (`ExpiryMoves`) writes EXPIRED in
  a statement of its own (`WritesExpired`), and a late payment is credited to it.
  `Target` 0 is an invoice without an amount. The `history` fields are not in the code:
  they remember results that found no row, interim events and the three ways a total is
  lost.
- **Budget.** A call is `...Reads` and `...Writes`; `allocate` has three steps, at
  Read Committed, `apply` two for each item. `overlapped`, `approved` and `late` are
  history: whether two calls ever overlapped, which numbers the last approval was
  given for, and how often the budget changed since it was editable.
- **Accounts, Organizations.** A call is what one request has read; its last step
  writes. Unique indexes (e-mail, membership, token) are conditions of the write.
  `MemberJoins` of `Organizations` is, in one step, what `Accounts` has in several.
  `overlapped`, `rushed` and `hurried` are history: whose own requests ran at once.

Definitions under a comment "Mutant:" are plausible bugs of the definition that
follows them. No specification uses them; each breaks one of the properties.

## 3. What is assumed

- The gateway tells the truth. An answer that says a payout or refund was not
  accepted means that it was not made, and the provider's final status is final.
  (`initiatePayout` takes every answer but ACCEPTED as a refusal,
  `pawapay.provider.ts:230`.)
- PawaPay and Paystack never take a second refund of a charge while one stands.
- A payoutId, a refundId and a charge reference are fresh (uuids), and so is the
  token of an invitation.
- Signatures are checked as the code says; a webhook is from its gateway. Its word
  of success need not be true, which is what `verifyTransaction` is for.
- Outside `Organizations` the callers are allowed to call.
- `recordManual` inserts money that never went through a gateway (`Manual`).
- PawaPay debits a payout when it accepts it and credits it back when it fails; a
  refund returns the whole charge, fee included, as `refund()` says.
- The status CANCELLED of `PersonalInvoice` is read, and not written by any code: it is
  absent.
- Payouts of Paystack lie before everything in `Treasury`: what it paid out is a number
  (`Earlier`), even if its receipts were refunded since. Its rows come in at any time,
  which includes their all being there before.
- PawaPay takes nothing for itself out of the wallet: a fee of its own would drift, and
  no code of the repository knows of one.
- The platform's fee may be a fraction of a percent: `FeePercent / PercentParts`.
- `Settlement` reverses a charge once. `Reversals` has the ways to reverse it twice.
- Rows of organizations and users are never deleted, as in the code.

## 4. Runs

All bounds are in the `.cfg` and `MC` modules. `CHECK_DEADLOCK FALSE` stands where
every charge, attempt, category or request can be used up and the system then
rests; elsewhere an action is always left.

| run | instance | shows |
|---|---|---|
| `disbursements` | 2 payouts, 2 categories that may be deleted and made anew, a contribution of 2, one redelivery, FairSpec | whatever breaks on the way, `NeverOverpaid`, `NeverBeyondReceipts`, `FinalMatchesGateway`; refinement of `PayoutPool`; `HandedSettles` |
| `treasury` | 2 payouts of any kind, a charge of 1 with a fee of 1 through each gateway, a cash entry, a personal invoice, a payout of 1 made by Paystack | `OnlyLateOverdraw`, pool by pool; `DriftExplained`, in every state |
| `treasury_overdraw` | the same | `NeverOverdrawn` fails (section 6) |
| `settlement` | an invoice or link of any shape, 2 charges, 2 deliveries, 2 attempts per job, reversals, fee 50.5 % | `NoCreditLostOrDoubled`, `SummaryTellsTotals`, `NeverAboveQuote`, `AloneNeverOvercharges`, `OrganizersEmailKept`; refinement of `CreditLedger` |
| `settlement_overcharge` | the same | `NeverOvercharged` fails |
| `personal_invoices` | 2 charges, one of each gateway, 2 deliveries with interim statuses, PersonalFairSpec | `CreditedOnceExactly`, `ConfirmedChargeCredits`; refinement of `CreditLedger` |
| `reversals` | a Paystack payment of 1 and a PawaPay payment of 2 on an invoice of 2 that expires at any time, 2 refund calls, 2 handlers | `WrittenOffForReason`, `StatusTellsTotal`, `ExactUnlessDisturbed` |
| `refunds_live` | 1 PawaPay payment on an invoice without an amount, 2 refund calls, interim events, FairSpec | `RefundSettles` |
| `disputes_twice` | as `reversals` | `OnlyReverseOnce` fails |
| `budget` | 2 categories, 2 calls, a contribution of 2 and a cash entry of 1, amounts up to 2; a vendor and 2 payouts, where calls overlap for one category | `SerialAllocationsCovered`, `SerialApprovalStands`, `FundedWasApproved`, `LateChangesBounded`, `SerialPaidAsApproved`, `SerialPayoutKeepsItsRows`; refinement of `PayoutPool` |
| `onboarding` | 2 users, 2 addresses, an invitation of each kind, 2 countries, 2 calls at a time, 4 in all | `AcceptedAsInvited`, `RoleKept`, `SerialNetworkFits`, `SerialChargedAsIssued` |
| `agency` | 2 users, 3 organizations, 2 countries, 2 calls at a time, 7 requests in all | `NeverStranded`, `AccessFromAbove`, `SerialClientsPaid`, `SerialOneWorkspace` |

The type invariants of `Settlement`, `PersonalInvoices` and `BudgetSpending` and
`OnlyConfirmedMoney` are proved and not run again: the refinements of `CreditLedger`
and `PayoutPool` say more.

Why the bounds are enough to meet the cases. Every hazard listed needs two actors:
two payouts over one balance, two charges over one invoice, two handlers over one
total, two calls over one approval. BullMQ gives five attempts; a job that fails
once and succeeds, and a job that uses its attempts up, both occur with two. Beyond two
failures in all, the jobs of `settlement` are not followed (`FewFailures`): one uses up
its attempts, or each fails once. One
redelivery suffices for a repeated callback to come at any later point. Amounts of
one and two tell "fits", "fits exactly" and "does not fit" apart; a fee of
50.5 % rounds up at 1 and down at 2. Four requests reach each race of `Accounts`: two that
register or set up, two that race. Seven requests of `Organizations` reach an
agency that is a client, grants by somebody who came by a grant himself, and two
calls that race over either; the third organization is the second client, or the
end of the chain. `MCBudget` follows overlapping requests in full before there is a
vendor: what they do to the budget does not depend on its vendors. Beside a vendor
and payouts it follows them for one category, without cash entries, templates and
refusals (`OverlapsFollowed`): an allocation or a removal that read the budget as
open is then written under a payout of its category, which is what
`SpendingWithinPools` is about; the other claims about vendors and payouts are of
requests that do not overlap.
Symmetry is used for safety only.

Fairness. `Disbursements!FairSpec`: PawaPay settles what it accepted and repeats a
callback until it is answered 200, its documented contract and the reason the
controller answers unknown references. `PersonalInvoices!PersonalFairSpec`: BullMQ runs
queued jobs; a job that can neither go on nor finish fails its attempt.
`Reversals!FairSpec`: the gateway settles, deliveries reach a handler, a handler
that has read ends. Nothing is assumed of organizers, payers, staff, or of a
request surviving.

## 5. What is proved

Each module of proofs defines `IInv`, shows that the initial states satisfy it and
that every step keeps it, one lemma per conjunct and in it one step per action, and
derives the properties. TLC checked each `IInv` on the component's run before it was
proved. The theorems hold for every value of the constants that satisfies the
`ASSUME`s of the extended modules: finite sets of rows, calls and jobs, amounts that
are naturals, names that differ. TLC evaluates those on every instance. The bounds
(`MaxAmount`, `MaxRedeliveries`, `Attempts`, numbers of calls) are arbitrary naturals.

| module | theorems about checked properties |
|---|---|
| `DisbursementsTheorems` | `TypeCorrect`, `VendorsNeverOverpaid`, `PayoutsCoveredByReceipts`, `RowsTellTheTruth`, `Refines` |
| `TreasuryTheorems` | `TypeCorrect`, `OnlyLateRequestsOverdraw`, `DriftIsExplained`, `RowsTellTheTruth` |
| `SettlementTheorems` | `TypeCorrect`, `ConfirmedOnly`, `CreditedOnce`, `SummaryTrue`, `QuoteKept`, `AloneIsCovered`, `EmailKept`, `LedgerKept`; of personal invoices `PersonalTypeCorrect`, `PersonalCreditedOnce`, `PersonalLedgerKept` |
| `ReversalsTheorems` | `TypeCorrect`, `MoneyWentBack`, `StatusFollows`, `TotalExact` |
| `BudgetTheorems` | `TypeCorrect`, `FundedAfterApproval`, `LateChanges`, `AllocationsCovered`, `ApprovalStands`, `PaidAsApproved`, `PayoutKeepsItsRows`, `SpendingKeepsPools` |
| `AccountsTheorems` | `TypeCorrect`, `AcceptedGivesRole`, `RolesAreKept`, `NetworkFitsCountry`, `ChargedInItsCurrency` |
| `OrganizationsTheorems` | `TypeCorrect`, `NobodyStranded`, `GrantsComeFromAbove`, `SecondClientPaid`, `OneWorkspace` |

`PROJECT.json` "theorems" says which property each states. The arguments:

- **Money.** `Money` defines `Sum` as a number of units, so that it needs no
  recursion and the library's facts about cardinalities apply. `MoneyTheorems` has
  what the proofs use: a row more adds its amount (`SumAdd`), fewer rows are no more
  (`SumMonotone`), two aggregates differ by what each counts alone (`SumDifference`).
- **Disbursements.** `NeverOverpaid` speaks of the gateway (what left or still can)
  and the code only sees rows. `RowAgrees` ties each row to its request and to
  PawaPay: while the request is at work or broken the row is PENDING, only money
  that arrived makes it SUCCESS, only a refusal or a failed payout FAILED. Hence a
  live payout has a row that is counted (`LiveIsSpokenFor`), and the counted rows fit
  (`CategoryCovered`): `pay` adds exactly what remains, every other step takes
  counted rows away or raises the allocation, and a category that is deleted keeps no
  rows at all (`RemovalDetaches`) while the event goes on counting them. Receipts are counted as ever received,
  since a refund may come after the payout. `Refines` reads a payout's state off its
  request and PawaPay, not off the row: unanswered or accepted is held, even when
  the request broke.
- **Treasury.** A live payout has a row that is counted or PENDING (`LiveIsCounted`).
  A request that is not late meets no live payout of its pool that its balance leaves
  out, those of late requests included (`OrganizationLive`, `PlatformLive`), so it
  looks at all that is live and what it adds fits (`RequestsCovered`); a late one is
  left out of the sum; every other step releases money or brings some in
  (`OthersCovered`). Hence no hypothesis on the past: one late request spoils nothing
  but itself. `DriftExplained` is a fact about every state, whether something is under
  way or stuck: the rows that the books subtract and the payouts that the wallet made
  differ by `Phantom` one way (`CountedButNotPaid`) and by `Hidden` the other
  (`PaidButNotCounted`), and the charges in the wallet and the rows of the books by
  `Unrecorded` and `Elsewhere`.
- **The queue.** `QueueInv` speaks of `gateway`, `row` and `job` only: a job past
  its verification has a SUCCESS the gateway confirmed, and a charge whose row is
  being inserted has none and is being inserted once (`AloneInTransaction`; the
  unique index). Every step of either processor is one of `QueueMoves`, and those
  keep it (`QueueInductive`).
- **Settlement.** Two components read an invoice and act on it later. Until a payment
  of it is reversed totals do not shrink, so what they read errs to one side only
  (`InvoiceReadsHold`, `CheckoutReadsHold`): an invoice read as closed has met its
  target, and what was owed when the page was opened is never less than what is owed
  later. A reversal makes more outstanding; it marks the pages and checkouts that are
  open (`outdated`), and of those `NeverAboveQuote` says nothing, since the code then
  does charge more than the page showed. An
  increment computed by the database keeps `NoCreditLostOrDoubled` whatever was read,
  but a reversal writes an absolute total, so it is claimed of invoices without one.
  `AloneNeverOvercharges` follows from it: an invoice a checkout finds open has a
  running total of all its recorded charges, so the remainder and they are no more
  than its amount (`CheckoutAlone`). `SummaryTellsTotals` needs none of this: whoever
  writes a total writes the status that goes with it.
- **Personal invoices.** They have the same queue, so its lemmas serve unchanged.
  `PersonalInv` adds that the total is the amount if and only if a charge was
  recorded, and that an invoice that was not issued has no charge: an EXPIRED
  written late can reopen a paid invoice, but what is then written again is the
  same amount.
- **The promise of `CreditLedger`.** A charge's state is read off the gateway and its
  row (`ChargeState`), whatever the jobs are doing. The start of a charge is `Make`,
  the gateway's decision `Decide`, the commit of a confirmed one `Record`
  (`CommitRecords`, `PersonalRecords`), the write of a reversal `Reverse`
  (`ReversalReverses`), the issuing of an invoice `Open`; every other
  step, each retry, redelivery, expiry and interim row among them, leaves all five
  variables as they are. Both `QueueInv` and the inductive invariants above are needed:
  without them a commit could be of a charge that is not confirmed, or pass over an
  invoice that still owes and had nothing reversed.
- **Reversals.** A result says that the money went back only once the gateway did
  it, an outcome says lost only once the bank decided so, and neither is undone
  (`DeliveriesTrue`, `HandlersKnow`): what a handler read stays true of the gateway
  however late it writes, although not of the total, which is what the three flags of
  `history` record. `StatusTellsTotal` is its own invariant: credit and reversal write the
  status with the total, and EXPIRED comes only after the expiry.
- **Budget.** Overlapping or not: a change of a locked budget uses up a request that
  was at work when it was locked (`LateWritersBounded`), and who funds has seen an
  approval (`ApprovalKnown`). An allocation stays, grows or is gone with its category,
  which then has no payouts (`AllocationFates`, `PaidWithinAllocation`); so the
  refinement of `PayoutPool` needs no hypothesis about overlaps: allocations and the
  categories of payouts move as `Disbursements` lets them. While requests do not overlap at most one is at work
  (`OneAtWork`), so what it read still holds when it writes (`ReadsHold`), and the
  numbers that were approved are the numbers that are paid.
- **Accounts.** Memberships are inserted, never updated. A user's lone request still
  finds what it looked up when it writes (`LookUpsHold`); once the network is set,
  neither the country nor the currency of what was issued moves
  (`PayableInItsCurrency`).
- **Organizations.** `Above` is the chain of agencies, as the smallest set closed
  upwards, which needs no recursion. Only new organizations become clients, so chains
  never close; whoever opens a client account is a member of the agency or of one
  above it and stays one (`CallersFromAbove`). `AtMostOneClient` and
  `AtMostOneWorkspace` count a call that has seen the free place as having taken it.

Only model-checked: the three liveness properties (`HandedSettles`,
`ConfirmedChargeCredits`, `RefundSettles`), since fairness and ENABLED are out of the
prover's reach, and the disagreements of section 6, which are counterexamples.
`MCDisbursements` compares `Sum` with a fold over rows on small sets: that the two
agree on all sets would be an induction over data, which is out of reach as well.

## 6. Where the code and its comments disagree

Three disagreements are runs; TLC refutes the others in the same way when the
definition named is added to the component's `.cfg`. They are kept in the modules
as the promises they are, ready to be checked once the code keeps them.

| promise | where it is made | what happens |
|---|---|---|
| `Treasury!NeverOverdrawn` (run) | `withdrawals.service.ts:169` "draining more than the organization actually has", `platform-payouts.service.ts:180` "can't both pass the balance check" | the balances leave PENDING rows out (62-64; 54-56): two requests draw one twice |
| `Treasury!NeverCountedTwice` | `withdrawals.service.ts:40` "must not remain double-countable" | a vendor payout does not look at withdrawals (`disbursements.service.ts:187`) |
| `Treasury!NoConfound` | `reconciliation.service.ts:58` "Exact, no known confound" | personal invoices are paid into the same wallet and are in no aggregate; Paystack's rows and payouts are in the aggregates and never were in the wallet; a charge whose job used up its attempts, a refund whose result found no row and a payout whose request broke stay adrift |
| `Settlement!NeverOvercharged` (run) | `payments.service.ts:218` "never more than what's left outstanding" | charges under way are not outstanding: two open checkouts each charge the remainder |
| `Settlement!FirstEmailKept` | `payments.service.ts:243` "(or an earlier payer)" | two checkouts read the e-mail as blank, the later one stays |
| `WebhookQueue!SkipsOnlyRedeliveries` | `webhook.processor.ts:31` | a row stored for an interim status hides the final SUCCESS |
| `PersonalInvoices!OneInvoiceOnePayment` | `personal-invoice-webhook.processor.ts:94` "One invoice, one payment" | two checkouts under way are both paid and recorded |
| `GatewayPayout!UnknownIsForeign`, `Reversals!UnknownIsForeign` | `pawapay-webhook.controller.ts:124`, `transactions.service.ts:173` "nothing of ours to update" | a result that overtakes the storing of its reference is ours and is lost |
| `Reversals!ClosedMeansProcessed` | `transactions.service.ts:177` "redelivered callback" | an event about a refund under way closes it as FAILED; the final one is then skipped |
| `Reversals!OnlyReverseOnce` (run) | `transactions.service.ts:300` "Only reverse once" | a refund in flight and a lost dispute both take the payment off |
| `Reversals!ReversesRunningTotal` | `transactions.service.ts:217` | an absolute total from an old reading loses a payment credited meanwhile |
| `Reversals!MirrorsCredit` | `transactions.service.ts:216` "Mirrors the exact condition" | a payment after PAID was never added and is taken off |
| `Reversals!InFlightBlocks` | `transactions.service.ts:96` | two refund calls pass the check, the second replaces the first one's row |
| `Reversals!LostDisputeFlips` | `prisma/schema.prisma:530` | a resolution set by staff reverses nothing |
| `BudgetApproval!NeverOverAllocated` | `budget-categories.service.ts:163` "correctly blocked" | two allocations at Read Committed both fit |
| `BudgetApproval!LockedUnlessEditable` | `prisma/schema.prisma:341` | an edit checked before the submission is written after it |
| `BudgetApproval!FundsOnlyApproved` | `budget-approvals.service.ts:109` | `fund` overwrites a decision made after its check |
| `BudgetSpending!NeverOrphaned` | `vendors.service.ts:90` "silently orphan that row's FK reference" | a payout reserved between the count and the delete loses its vendor |
| `Accounts!PendingForNewcomers` | `organizations.service.ts:361` "No account exists yet for this email" | the person registers before the invitation is written, or without its token |
| `Accounts!ChargedAsIssued` | an invoice's own `currency` | the charge takes the issuer's country of the moment (`personal-invoices.service.ts:247`) |
| `Organizations!ClientsPaid` | `agency-clients.service.ts:73` "only the 2nd+ requires the Agency plan" | two first clients are counted before either is linked |
| `Organizations!OwnWorkspace` | `organizations.service.ts:73` "spawning a new one" | a member of somebody else's workspace is given that one |
| `Organizations!NeverBoth` | `organizations.service.ts:241` "shouldn't happen in practice" | the holder of a grant is invited as a member |

The passing properties say how far the damage goes: `OnlyLateOverdraw` that whatever
was overdrawn was asked for late, `AloneNeverOvercharges` that it takes another
charge under way, or a reversal, to overcharge; those named `Serial...` hold as
long as calls of one kind do not overlap, `ExactUnlessDisturbed` names the only
three ways a total is lost, `LateChangesBounded` bounds what a submission can miss
by the number of requests at work, `DriftExplained` says what a drift consists of, `NeverAboveQuote` that only a reversal
raises a charge above its quote,
and `FundedWasApproved`, `RoleKept`, `AcceptedAsInvited`, `NeverStranded` and
`AccessFromAbove` hold always.

## 7. Plan

Done: payouts, the treasury, the queue with its two processors, issuing and
settlement, reversals, the budget with its vendors and templates, accounts and
organizations, abstract promises for payouts and for credits, and the proofs of every
safety property that is checked and kept. Next:

1. The lemma about `RowAgrees` is proved once in each of the two modules that extend
   `GatewayPayout`; it could be stated once over `payoutVars`.
2. `BudgetSpending` shown to be an environment of `Disbursements` action by action,
   beyond the promise that both keep.

## 8. Not modelled

HTTP, DTO validation and signatures (what an answer means is kept, how it is
spelled is in `Providers`), passwords, hashing and JWTs, e-mail and audit texts (a
failing audit write is a failing step), report formatting, share links, bank
lookups, configuration, and edits that are one statement with no invariant to break
(branding, archiving, event details, the payout settings of an organization or
event). Of two parts only the effect is kept: a payout's destination, and a
template's rows. Each country has its own wallet and its own currency and nothing
is converted, so amounts of `Treasury` are numbers of one currency; the currency
itself is in `Accounts`. Reconciliation's reads are not one snapshot in the code, and
`Treasury` takes them as one: a check that runs while money moves can report a drift
`DriftExplained` does not speak of. Paystack's bank
transfers and subaccounts are code that no supported country reaches. Event reports
and the lists of every service read and write nothing.

What the modules simplify, besides:

- `NoCreditLostOrDoubled` and `CreditLedger` speak of charges that got a SUCCESS row. A
  confirmed charge that never gets one, because its job used up its attempts or an
  interim row hides it, is only in `ConfirmedChargeCredits`, as its exceptions, and in
  `DriftExplained`, as `Unrecorded`.
- Refunds of deposits and of payments through permanent links change nothing but the
  transaction's row. `Settlement` leaves them out; `Treasury` has them.
- `events.update` can change the goal a template's percentages are of; `Goal` is a
  constant, and no property depends on a template's arithmetic.
- The operations of `Organizations` that are one step look up the caller's role and
  write at once. In the code a grant can be revoked between the two, and the call then
  passes on access its caller no longer has; who had it still came by it from above.

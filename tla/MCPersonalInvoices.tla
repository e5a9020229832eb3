------------------------- MODULE MCPersonalInvoices -------------------------
(***************************************************************************)
(* Two charges of one invoice, two deliveries, interim statuses included.  *)
(***************************************************************************)
EXTENDS PersonalInvoices

CONSTANTS a, b, j1, j2

MCCharges == {a, b}
MCJobs == {j1, j2}
\* b is a charge from before the change of gateways.
MCGateway == [c \in MCCharges |-> IF c = a THEN "PAWAPAY" ELSE "PAYSTACK"]

=============================================================================

-------------------------------- MODULE Fees --------------------------------
(***************************************************************************)
(* The platform's fee on a contribution or a personal invoice.             *)
(***************************************************************************)
EXTENDS Integers

CONSTANTS
  FeePercent,   \* PLATFORM_FEE_PERCENT, counted in parts of a per cent,
  PercentParts  \* so many to the per cent

ASSUME FeeRate == FeePercent \in Nat /\ PercentParts \in Nat \ {0}

\* calculatePlatformFee: the percentage rounded half up to a minor unit.
PlatformFee(base) == (base * FeePercent + 50 * PercentParts) \div (100 * PercentParts)

=============================================================================

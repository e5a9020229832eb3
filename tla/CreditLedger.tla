---------------------------- MODULE CreditLedger ----------------------------
(***************************************************************************)
(* What the two charge processors promise the owner of an invoice: a charge*)
(* the gateway confirmed is recorded at most once, and nothing else is; an *)
(* account's total moves only in the step that records a charge of it, by  *)
(* that charge's net amount, or in the one that reverses a recorded charge,*)
(* at most once each.  A charge is left out of the total only when the     *)
(* total has reached its target, or the account had a charge reversed.     *)
(* What a total is after a reversal is left open.                          *)
(***************************************************************************)
EXTENDS Naturals

CONSTANTS
  Charges,   \* payments that were asked for
  Accounts,  \* what they are for
  Unowned    \* the owner of a charge not yet made

VARIABLES
  target,  \* where each account closes; 0 is an account that keeps no total
  total,   \* what each account was credited
  state,   \* of each charge: "free", "made", "confirmed", "void", "recorded" or
           \* "reversed"
  worth,   \* what each charge is to credit
  owner    \* the account it is for

ledgerVars == <<target, total, state, worth, owner>>

LedgerInit ==
  /\ target = [x \in Accounts |-> 0]
  /\ total = [x \in Accounts |-> 0]
  /\ state = [c \in Charges |-> "free"]
  /\ worth = [c \in Charges |-> 0]
  /\ owner = [c \in Charges |-> Unowned]

\* An account is opened, once, before there are charges of it.
Open(x) ==
  /\ target[x] = 0
  /\ \A c \in Charges : state[c] # "free" => owner[c] # x
  /\ target' \in [Accounts -> Nat]
  /\ target' = [target EXCEPT ![x] = target'[x]]
  /\ UNCHANGED <<total, state, worth, owner>>

Make(c, x) ==
  /\ state[c] = "free"
  /\ state' = [state EXCEPT ![c] = "made"]
  /\ owner' = [owner EXCEPT ![c] = x]
  /\ worth' \in [Charges -> Nat]
  /\ worth' = [worth EXCEPT ![c] = worth'[c]]
  /\ worth'[c] > 0
  /\ UNCHANGED <<target, total>>

Decide(c, answer) ==
  /\ state[c] = "made"
  /\ state' = [state EXCEPT ![c] = answer]
  /\ UNCHANGED <<target, total, worth, owner>>

Record(c) ==
  /\ state[c] = "confirmed"
  /\ state' = [state EXCEPT ![c] = "recorded"]
  /\ \/ target[owner[c]] > 0 /\ total' = [total EXCEPT ![owner[c]] = @ + worth[c]]
     \/ total[owner[c]] >= target[owner[c]] /\ UNCHANGED total
     \/ (\E d \in Charges : state[d] = "reversed" /\ owner[d] = owner[c]) /\ UNCHANGED total
  /\ UNCHANGED <<target, worth, owner>>

Reverse(c) ==
  /\ state[c] = "recorded"
  /\ state' = [state EXCEPT ![c] = "reversed"]
  /\ total' \in [Accounts -> Nat]
  /\ total' = [total EXCEPT ![owner[c]] = total'[owner[c]]]
  /\ target[owner[c]] = 0 => UNCHANGED total
  /\ UNCHANGED <<target, worth, owner>>

\* A step opens an account or moves one charge on.
LedgerNext ==
  \/ \E x \in Accounts : Open(x)
  \/ \E c \in Charges :
       /\ state'[c] # state[c]
       /\ \/ \E x \in Accounts : Make(c, x)
          \/ \E answer \in {"confirmed", "void"} : Decide(c, answer)
          \/ Record(c)
          \/ Reverse(c)

LedgerSpec == LedgerInit /\ [][LedgerNext]_ledgerVars

=============================================================================

----------------------------- MODULE PayoutPool -----------------------------
(***************************************************************************)
(* What the payout services promise: money is earmarked before it is sent, *)
(* an earmark fits in what its pool still has, and it is given back only   *)
(* when the money certainly did not leave.  A pool can be closed; what was *)
(* earmarked in it keeps its state and is of no pool any more.             *)
(***************************************************************************)
EXTENDS Money

CONSTANTS Payouts, Pools, NoPool

VARIABLES
  granted,   \* what each pool may pay out in total
  state,     \* of each payout: "free", "held", "paid" or "void"
  worth,     \* the amount a payout was earmarked for
  pool       \* the pool it was earmarked in

poolVars == <<granted, state, worth, pool>>

Committed(c) == {p \in Payouts : pool[p] = c /\ state[p] \in {"held", "paid"}}

PoolInit ==
  /\ granted = [c \in Pools |-> 0]
  /\ state = [p \in Payouts |-> "free"]
  /\ worth = [p \in Payouts |-> 0]
  /\ pool = [p \in Payouts |-> NoPool]

Grow(c) ==
  /\ granted' \in [Pools -> Nat]
  /\ granted'[c] > granted[c]
  /\ granted' = [granted EXCEPT ![c] = granted'[c]]
  /\ UNCHANGED <<state, worth, pool>>

Close(c) ==
  /\ granted' = [granted EXCEPT ![c] = 0]
  /\ pool' = [p \in Payouts |-> IF pool[p] = c THEN NoPool ELSE pool[p]]
  /\ UNCHANGED <<state, worth>>

Hold(p, c) ==
  /\ state[p] = "free"
  /\ state' = [state EXCEPT ![p] = "held"]
  /\ pool' = [pool EXCEPT ![p] = c]
  /\ \E a \in 1 .. granted[c] :
       /\ Sum(worth, Committed(c)) + a <= granted[c]
       /\ worth' = [worth EXCEPT ![p] = a]
  /\ UNCHANGED granted

Pay(p) ==
  /\ state[p] = "held"
  /\ state' = [state EXCEPT ![p] = "paid"]
  /\ UNCHANGED <<granted, worth, pool>>

Release(p) ==
  /\ state[p] = "held"
  /\ state' = [state EXCEPT ![p] = "void"]
  /\ UNCHANGED <<granted, worth, pool>>

PoolNext ==
  \/ \E c \in Pools : Grow(c) \/ Close(c)
  \/ \E p \in Payouts : Pay(p) \/ Release(p)
  \/ \E p \in Payouts, c \in Pools : Hold(p, c)

PoolSpec == PoolInit /\ [][PoolNext]_poolVars

=============================================================================

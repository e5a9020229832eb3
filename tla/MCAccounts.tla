---------------------------- MODULE MCAccounts ------------------------------
(***************************************************************************)
(* Two people and two addresses, one invitation of each kind, two          *)
(* countries with one network each, one personal invoice; two requests     *)
(* at a time.                                                              *)
(***************************************************************************)
EXTENDS Accounts, TLC

CONSTANTS u1, u2, e1, e2, h1, h2

MCUsers == {u1, u2}
MCEmails == {e1, e2}
MCCalls == {h1, h2}
MCNetworks == [KE |-> {"MPESA"}, UG |-> {"MTN"}]
MCCurrency == [KE |-> "KES", UG |-> "UGX"]

Symmetry == Permutations(Users) \cup Permutations(Emails) \cup Permutations(Calls)

=============================================================================

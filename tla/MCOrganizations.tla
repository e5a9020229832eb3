-------------------------- MODULE MCOrganizations ---------------------------
(***************************************************************************)
(* Two users and three organizations, so that an agency may have two       *)
(* clients or a client that is an agency itself; two requests at a time.   *)
(***************************************************************************)
EXTENDS Organizations, TLC

CONSTANTS u1, u2, o1, o2, o3, h1, h2, KE, UG

MCUsers == {u1, u2}
MCOrgs == {o1, o2, o3}
MCPaying == {o1}
MCCountries == {KE, UG}
MCCalls == {h1, h2}

Symmetry ==
  Permutations(Users) \cup Permutations(Orgs \ Paying)
    \cup Permutations(Calls) \cup Permutations(Countries)

=============================================================================

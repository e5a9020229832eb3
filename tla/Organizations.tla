--------------------------- MODULE Organizations ---------------------------
(***************************************************************************)
(* Organizations and who may manage them: created by a user, lazily as the *)
(* personal workspace of a quick collection (OrganizationsService), or by  *)
(* an agency as its client (AgencyClientsService); the agency plan         *)
(* (PlatformAdminService); and the role OrgRolesGuard finds.               *)
(*                                                                         *)
(* createClient and getOrCreatePersonalOrg read, decide and write in a     *)
(* later statement: a call is two steps, and other calls run between them. *)
(* The other operations are one step: what they read is never taken away   *)
(* again, or they only write.  All users have registered.                  *)
(***************************************************************************)
EXTENDS Naturals, FiniteSets

CONSTANTS
  Users,
  Orgs,       \* organizations that may come to exist
  NoOrg,
  Roles,      \* OrgRole
  NoRole,
  Countries,
  Paying,     \* bound: organizations whose plan platform staff changes
  Calls,      \* bound: two-step requests being handled at the same time
  MaxRequests \* bound: requests in all

ASSUME SomeRequests == MaxRequests \in Nat
ASSUME FiniteOrgs == IsFiniteSet(Orgs)
ASSUME AbsentValues == NoOrg \notin Orgs /\ NoRole \notin Roles
ASSUME RoleNames == "MAIN_ORGANIZER" \in Roles
ASSUME SomePay == Paying \subseteq Orgs

VARIABLES
  org,          \* organization rows
  member,       \* role of each OrganizationMembership
  access,       \* role of each AgencyClientAccess
  agency,       \* AgencyClientLink: the agency an organization is a client of
  plan,         \* organizations with hasAgencyPlan
  call,         \* what each request being handled has read
  left,         \* requests the bound leaves
  everPlan,     \* history: organizations that had the plan at some time
  rushed,       \* history: agencies two of whose createClient calls overlapped
  hurried       \* history: users two of whose quick collections overlapped

vars == <<org, member, access, agency, plan, call, left, everPlan, rushed, hurried>>

Idle == [at |-> "idle"]
Requests ==
  {Idle}
  \cup [at : {"linking"}, user : Users, org : Orgs]
  \cup [at : {"quick"}, user : Users, country : Countries]
Missing == [kind |-> "none"]
Rows == [kind : {"shared"}] \cup [kind : {"personal"}, country : Countries, founder : Users]

Exists == {o \in Orgs : org[o] # Missing}
Clients(a) == {c \in Orgs : agency[c] = a}

\* OrgRolesGuard: a direct membership decides; only without one, the grant.
Role(u, o) == IF member[u][o] # NoRole THEN member[u][o] ELSE access[u][o]

\* @Roles(MAIN_ORGANIZER)
Manages(u, o) == Role(u, o) = "MAIN_ORGANIZER"

\* resolveOwnerOrganizationIds and isOwnerOrganization: whose vendors and budget
\* templates an organization may use, its own and its agency's, no further up.
Owners(o) == {o} \cup ({agency[o]} \ {NoOrg})

-----------------------------------------------------------------------------
TypeOK ==
  /\ org \in [Orgs -> Rows \cup {Missing}]
  /\ member \in [Users -> [Orgs -> Roles \cup {NoRole}]]
  /\ access \in [Users -> [Orgs -> Roles \cup {NoRole}]]
  /\ agency \in [Orgs -> Orgs \cup {NoOrg}]
  /\ call \in [Calls -> Requests]
  /\ left \in 0 .. MaxRequests
  /\ plan \subseteq everPlan /\ everPlan \subseteq Exists
  /\ rushed \subseteq Exists
  /\ hurried \subseteq Users

Init ==
  /\ org = [o \in Orgs |-> Missing]
  /\ member = [u \in Users |-> [o \in Orgs |-> NoRole]]
  /\ access = [u \in Users |-> [o \in Orgs |-> NoRole]]
  /\ agency = [o \in Orgs |-> NoOrg]
  /\ plan = {}
  /\ call = [h \in Calls |-> Idle]
  /\ left = MaxRequests
  /\ everPlan = {}
  /\ rushed = {}
  /\ hurried = {}

Begins(h, request) ==
  /\ call[h] = Idle
  /\ call' = [call EXCEPT ![h] = request]

Ends(h) == call' = [call EXCEPT ![h] = Idle]

\* The request throws or the process stops before the write.
CallBreaks(h) ==
  /\ call[h] # Idle
  /\ Ends(h)
  /\ UNCHANGED <<org, member, access, agency, plan, everPlan, rushed, hurried>>

-----------------------------------------------------------------------------
(* OrganizationsService *)

\* An organization and its creator's membership, one statement.
Founds(u, o, row) ==
  /\ o \notin Exists
  /\ org' = [org EXCEPT ![o] = row]
  /\ member' = [member EXCEPT ![u][o] = "MAIN_ORGANIZER"]
  /\ UNCHANGED <<access, agency, plan, everPlan, rushed, hurried>>

Create(u, o) == Founds(u, o, [kind |-> "shared"]) /\ UNCHANGED call

\* The look-up of getOrCreatePersonalOrg: any personal workspace of the country
\* the user is a member of, also somebody else's.
Workspace(u, c) ==
  {o \in Exists : /\ org[o].kind = "personal" /\ org[o].country = c
                  /\ member[u][o] # NoRole}

\* Mutant: no look-up.
QuickReadsNothing(h, u, c) ==
  /\ hurried' = IF \E g \in Calls : call[g].at = "quick" /\ call[g].user = u
                  THEN hurried \cup {u} ELSE hurried
  /\ Begins(h, [at |-> "quick", user |-> u, country |-> c])
  /\ UNCHANGED <<org, member, access, agency, plan, everPlan, rushed>>

\* createQuick() of an event, the look-up that finds no workspace; one that is
\* found is used as it is.
QuickReads(h, u, c) ==
  /\ Workspace(u, c) = {}
  /\ hurried' = IF \E g \in Calls : call[g].at = "quick" /\ call[g].user = u
                  THEN hurried \cup {u} ELSE hurried
  /\ Begins(h, [at |-> "quick", user |-> u, country |-> c])
  /\ UNCHANGED <<org, member, access, agency, plan, everPlan, rushed>>

QuickFounds(h, o) ==
  LET c == call[h] IN
  /\ c.at = "quick"
  /\ Founds(c.user, o, [kind |-> "personal", country |-> c.country, founder |-> c.user])
  /\ Ends(h)

\* Mutant: the membership is upserted.
MemberUpserted(by, o, u, r) ==
  /\ Manages(by, o)
  /\ member' = [member EXCEPT ![u][o] = r]
  /\ UNCHANGED <<org, access, agency, plan, call, everPlan, rushed, hurried>>

\* inviteMember() of an account, and register() with an invitation: whoever is a
\* member already is refused (module Accounts has the steps).
MemberJoins(by, o, u, r) ==
  /\ Manages(by, o)
  /\ member[u][o] = NoRole
  /\ member' = [member EXCEPT ![u][o] = r]
  /\ UNCHANGED <<org, access, agency, plan, call, everPlan, rushed, hurried>>

-----------------------------------------------------------------------------
(* AgencyClientsService and PlatformAdminService.setAgencyPlan *)

\* Mutant: the count is compared one too late.
MayAddThird(a) == Cardinality(Clients(a)) <= 1 \/ a \in plan

\* assertCanLinkAnotherClient: the first client is free.
MayAddClient(a) == Clients(a) = {} \/ a \in plan

ClientReads(h, u, a) ==
  /\ Manages(u, a)
  /\ MayAddClient(a)
  /\ rushed' = IF \E g \in Calls : call[g].at = "linking" /\ call[g].org = a
                 THEN rushed \cup {a} ELSE rushed
  /\ Begins(h, [at |-> "linking", user |-> u, org |-> a])
  /\ UNCHANGED <<org, member, access, agency, plan, everPlan, hurried>>

\* The transaction of createClient(): no membership, but the link and a grant.
ClientWrites(h, o) ==
  LET c == call[h] IN
  /\ c.at = "linking"
  /\ o \notin Exists
  /\ org' = [org EXCEPT ![o] = [kind |-> "shared"]]
  /\ agency' = [agency EXCEPT ![o] = c.org]
  /\ access' = [access EXCEPT ![c.user][o] = "MAIN_ORGANIZER"]
  /\ Ends(h)
  /\ UNCHANGED <<member, plan, everPlan, rushed, hurried>>

\* Mutant: whether the user is on the agency's staff is not asked.
GrantAccessToAnyone(by, c, u, r) ==
  /\ agency[c] # NoOrg
  /\ Manages(by, agency[c])
  /\ access' = [access EXCEPT ![u][c] = r]
  /\ UNCHANGED <<org, member, agency, plan, call, everPlan, rushed, hurried>>

\* grantAccess(), a new grant or another role.
GrantAccess(by, c, u, r) ==
  /\ agency[c] # NoOrg
  /\ Manages(by, agency[c])
  /\ member[u][agency[c]] # NoRole
  /\ access' = [access EXCEPT ![u][c] = r]
  /\ UNCHANGED <<org, member, agency, plan, call, everPlan, rushed, hurried>>

\* revokeAccess(), of anyone's grant, one's own included.
RevokeAccess(by, c, u) ==
  /\ agency[c] # NoOrg
  /\ Manages(by, agency[c])
  /\ access' = [access EXCEPT ![u][c] = NoRole]
  /\ UNCHANGED <<org, member, agency, plan, call, everPlan, rushed, hurried>>

\* Mutant: an organization that does not exist is given the plan.
SetAgencyPlanOfMissing(a) ==
  /\ a \in Paying
  /\ plan' = IF a \in plan THEN plan \ {a} ELSE plan \cup {a}
  /\ everPlan' = everPlan \cup {a}
  /\ UNCHANGED <<org, member, access, agency, call, rushed, hurried>>

\* setAgencyPlan(), by the platform's owner.
SetAgencyPlan(a) ==
  /\ a \in Exists \cap Paying
  /\ plan' = IF a \in plan THEN plan \ {a} ELSE plan \cup {a}
  /\ everPlan' = everPlan \cup {a}
  /\ UNCHANGED <<org, member, access, agency, call, rushed, hurried>>

-----------------------------------------------------------------------------
Request ==
  \/ \E u \in Users, o \in Orgs : Create(u, o)
  \/ \E h \in Calls, u \in Users, c \in Countries : QuickReads(h, u, c)
  \/ \E h \in Calls, u \in Users, a \in Orgs : ClientReads(h, u, a)
  \/ \E by, u \in Users, o \in Orgs, r \in Roles :
       MemberJoins(by, o, u, r) \/ GrantAccess(by, o, u, r)
  \/ \E by, u \in Users, c \in Orgs : RevokeAccess(by, c, u)
  \/ \E a \in Orgs : SetAgencyPlan(a)

Next ==
  \/ left > 0 /\ left' = left - 1 /\ Request
  \/ UNCHANGED left /\ \E h \in Calls :
       CallBreaks(h) \/ \E o \in Orgs : QuickFounds(h, o) \/ ClientWrites(h, o)

Spec == Init /\ [][Next]_vars

-----------------------------------------------------------------------------
(* Properties *)

\* A set that holds, with each organization, its agency.
Upward(S) == \A o \in S : agency[o] # NoOrg => agency[o] \in S

\* An organization, its agency, the agency's own agency and so on: what is in
\* every upward set it is in.
Chain(o) == {a \in Orgs : \A S \in SUBSET Orgs : o \in S /\ Upward(S) => a \in S}
Above(o) == Chain(o) \ {o}

\* Nobody can be shut out of an organization for good: it has a member who is a
\* main organizer, or it is a client and, up the chain of agencies, one has;
\* whatever is revoked, granted and invited.
NeverStranded ==
  \A o \in Exists : \E a \in Chain(o), u \in Users : member[u][a] = "MAIN_ORGANIZER"

\* "The agency's own staff roster is the pool": whoever has access to a client
\* is a member of an agency above it, also where a client is itself an agency
\* and its creator got there by a grant.
AccessFromAbove ==
  \A u \in Users, c \in Exists :
    access[u][c] # NoRole => \E a \in Above(c) : member[u][a] # NoRole

\* "The first linked client is free -- only the 2nd+ requires the Agency plan":
\* an agency that never had the plan has one client at most, unless two of its
\* createClient calls overlapped.
SerialClientsPaid ==
  \A a \in Exists : a \notin everPlan \cup rushed => Cardinality(Clients(a)) <= 1

\* "Reuses the same organization on repeat use rather than spawning a new one":
\* a user founds one workspace per country, unless his calls overlapped.
SerialOneWorkspace ==
  \A u \in Users \ hurried, c \in Countries, o, p \in Orgs :
    LET row == [kind |-> "personal", country |-> c, founder |-> u]
    IN  org[o] = row /\ org[p] = row => o = p

\* Not kept, the same with two calls at once.
ClientsPaid == \A a \in Exists : a \notin everPlan => Cardinality(Clients(a)) <= 1

\* Not kept: somebody invited into another user's workspace is given it for his
\* own quick collections.
OwnWorkspace ==
  \A u \in Users, c \in Countries : \A o \in Workspace(u, c) : org[o].founder = u

\* Not kept: "shouldn't happen in practice".
NeverBoth == \A u \in Users, o \in Orgs : member[u][o] = NoRole \/ access[u][o] = NoRole

=============================================================================

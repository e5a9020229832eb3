----------------------- MODULE OrganizationsTheorems -----------------------
(***************************************************************************)
(* Who may manage an organization, for any users, organizations, roles,    *)
(* countries and number of requests.                                       *)
(*                                                                         *)
(* Memberships and links are never taken away and only new organizations   *)
(* are linked, so chains of agencies only grow and never close.  Whoever   *)
(* opens a client account has, there or further up, a membership, and it   *)
(* stays whatever is revoked before the account is written.                *)
(***************************************************************************)
EXTENDS Organizations, FiniteSetTheorems, TLAPS

\* Memberships, grants, links and calls name organizations that exist, and an
\* organization is not its own client.
RowsExist ==
  /\ \A u \in Users, o \in Orgs :
       member[u][o] # NoRole \/ access[u][o] # NoRole => o \in Exists
  /\ \A c \in Orgs : agency[c] # NoOrg =>
       c \in Exists /\ agency[c] \in Exists /\ agency[c] # c
  /\ \A h \in Calls : call[h].at = "linking" => call[h].org \in Exists

\* Whoever is opening a client account for an agency is a member of the agency or
\* of one above it.
CallersFromAbove ==
  \A h \in Calls : call[h].at = "linking" =>
    \E a \in Chain(call[h].org) : member[call[h].user][a] # NoRole

Linking(a) == {h \in Calls : call[h].at = "linking" /\ call[h].org = a}

\* An agency that needs the plan for a second client has one, or one being opened.
AtMostOneClient ==
  \A a \in Exists \ (everPlan \cup rushed) :
    /\ \A c, d \in Clients(a) : c = d
    /\ \A g, h \in Linking(a) : g = h
    /\ Clients(a) = {} \/ Linking(a) = {}

Founding(u) == {h \in Calls : call[h].at = "quick" /\ call[h].user = u}
PersonalRow(u, c) == [kind |-> "personal", country |-> c, founder |-> u]

\* A founder is a member of his workspaces; a user whose calls did not overlap is
\* founding one at most, and only where he has none.
AtMostOneWorkspace ==
  /\ \A u \in Users, c \in Countries, o \in Orgs :
       org[o] = PersonalRow(u, c) => member[u][o] # NoRole
  /\ \A u \in Users \ hurried :
       /\ \A g, h \in Founding(u) : g = h
       /\ \A h \in Founding(u), o \in Orgs : org[o] # PersonalRow(u, call[h].country)

AccessInv == RowsExist /\ NeverStranded /\ AccessFromAbove /\ CallersFromAbove

IInv == TypeOK /\ AccessInv /\ AtMostOneClient /\ AtMostOneWorkspace /\ SerialOneWorkspace

-----------------------------------------------------------------------------
(* Types, and what only grows *)

\* The step is one of these.
LEMMA Cases ==
  ASSUME [Next]_vars
  PROVE  \/ \E u \in Users, o \in Orgs : Create(u, o)
         \/ \E h \in Calls, o \in Orgs : QuickFounds(h, o) \/ ClientWrites(h, o)
         \/ \E h \in Calls, u \in Users, c \in Countries : QuickReads(h, u, c)
         \/ \E h \in Calls, u \in Users, a \in Orgs : ClientReads(h, u, a)
         \/ \E by, u \in Users, o \in Orgs, r \in Roles :
              MemberJoins(by, o, u, r) \/ GrantAccess(by, o, u, r)
         \/ \E by, u \in Users, c \in Orgs : RevokeAccess(by, c, u)
         \/ \E a \in Orgs : SetAgencyPlan(a)
         \/ \E h \in Calls : CallBreaks(h)
         \/ UNCHANGED vars
BY DEF Next, Request

\* What each request being handled may be.
LEMMA RequestFields ==
  ASSUME TypeOK, NEW h \in Calls
  PROVE  /\ call[h].at = "linking" => call[h].user \in Users /\ call[h].org \in Orgs
         /\ call[h].at = "quick" => call[h].user \in Users /\ call[h].country \in Countries
BY DEF TypeOK, Requests, Idle

\* Founding an organization makes the row and the membership, and nothing else.
LEMMA FoundsRows ==
  ASSUME TypeOK, NEW u \in Users, NEW o \in Orgs, NEW row \in Rows, Founds(u, o, row)
  PROVE  /\ o \notin Exists
         /\ Exists' = Exists \cup {o}
         /\ org' \in [Orgs -> Rows \cup {Missing}]
         /\ member' \in [Users -> [Orgs -> Roles \cup {NoRole}]]
         /\ \A v \in Users, p \in Orgs :
              member'[v][p] = IF v = u /\ p = o THEN "MAIN_ORGANIZER" ELSE member[v][p]
<1>1. row # Missing
  BY DEF Rows, Missing
<1> QED
  BY <1>1, RoleNames DEF Founds, Exists, TypeOK

\* Opening a client account makes the row, the link and the grant.
LEMMA ClientRows ==
  ASSUME TypeOK, NEW h \in Calls, NEW o \in Orgs, ClientWrites(h, o)
  PROVE  /\ o \notin Exists
         /\ call[h].at = "linking" /\ call[h].org \in Orgs /\ call[h].user \in Users
         /\ Exists' = Exists \cup {o}
         /\ org' \in [Orgs -> Rows \cup {Missing}]
         /\ agency' \in [Orgs -> Orgs \cup {NoOrg}]
         /\ access' \in [Users -> [Orgs -> Roles \cup {NoRole}]]
         /\ agency' = [agency EXCEPT ![o] = call[h].org]
         /\ \A v \in Users, p \in Orgs :
              access'[v][p] = IF v = call[h].user /\ p = o THEN "MAIN_ORGANIZER" ELSE access[v][p]
<1>1. [kind |-> "shared"] \in Rows /\ [kind |-> "shared"] # Missing
  BY DEF Rows, Missing
<1>2. call[h].at = "linking" /\ call[h].org \in Orgs /\ call[h].user \in Users
  BY RequestFields DEF ClientWrites
<1> QED
  BY <1>1, <1>2, RoleNames DEF ClientWrites, Exists, TypeOK

\* The two ways to found one.
LEMMA FoundedRow ==
  ASSUME TypeOK
  PROVE  /\ [kind |-> "shared"] \in Rows
         /\ \A h \in Calls : call[h].at = "quick" =>
              /\ call[h].user \in Users /\ call[h].country \in Countries
              /\ PersonalRow(call[h].user, call[h].country) \in Rows
BY RequestFields DEF Rows, PersonalRow

\* Every call is a request afterwards.
LEMMA CallsTyped ==
  ASSUME TypeOK, [Next]_vars
  PROVE  call' \in [Calls -> Requests] /\ left' \in 0 .. MaxRequests
<1>1. left' \in 0 .. MaxRequests
  BY SomeRequests DEF TypeOK, Next, vars
<1>2. ASSUME NEW h \in Calls, NEW request \in Requests, Begins(h, request)
      PROVE  call' \in [Calls -> Requests]
  BY <1>2 DEF TypeOK, Begins
<1>3. ASSUME NEW h \in Calls, Ends(h)
      PROVE  call' \in [Calls -> Requests]
  BY <1>3 DEF TypeOK, Ends, Requests
<1>4. ASSUME call' = call
      PROVE  call' \in [Calls -> Requests]
  BY <1>4 DEF TypeOK
<1>5. /\ \A u \in Users, c \in Countries : [at |-> "quick", user |-> u, country |-> c] \in Requests
      /\ \A u \in Users, a \in Orgs : [at |-> "linking", user |-> u, org |-> a] \in Requests
  BY DEF Requests
<1> QED
  BY <1>1, <1>2, <1>3, <1>4, <1>5, Cases DEF Create, QuickFounds, ClientWrites, QuickReads,
     ClientReads, MemberJoins, GrantAccess, RevokeAccess, SetAgencyPlan, CallBreaks, vars

\* Organizations, memberships and links stay as they are.
LEMMA OnlyGrows ==
  ASSUME TypeOK, RowsExist, [Next]_vars
  PROVE  /\ Exists \subseteq Exists'
         /\ \A u \in Users, o \in Orgs : member[u][o] # NoRole => member'[u][o] = member[u][o]
         /\ \A o \in Orgs : agency[o] # NoOrg => agency'[o] = agency[o]
<1> DEFINE Stays ==
      /\ Exists \subseteq Exists'
      /\ \A u \in Users, o \in Orgs : member[u][o] # NoRole => member'[u][o] = member[u][o]
      /\ \A o \in Orgs : agency[o] # NoOrg => agency'[o] = agency[o]
<1>1. ASSUME NEW u \in Users, NEW o \in Orgs, NEW row \in Rows, Founds(u, o, row)
      PROVE  Stays
  <2>1. /\ o \notin Exists /\ Exists' = Exists \cup {o}
        /\ \A v \in Users, p \in Orgs :
             member'[v][p] = IF v = u /\ p = o THEN "MAIN_ORGANIZER" ELSE member[v][p]
    BY <1>1, FoundsRows
  <2>2. agency' = agency
    BY <1>1 DEF Founds
  <2> QED
    BY <2>1, <2>2 DEF RowsExist
<1>2. ASSUME NEW h \in Calls, NEW o \in Orgs, ClientWrites(h, o)
      PROVE  Stays
  <2>1. /\ o \notin Exists /\ Exists' = Exists \cup {o}
        /\ agency' = [agency EXCEPT ![o] = call[h].org]
    BY <1>2, ClientRows
  <2>2. member' = member
    BY <1>2 DEF ClientWrites
  <2> QED
    BY <2>1, <2>2 DEF RowsExist, TypeOK
<1>3. ASSUME NEW by \in Users, NEW u \in Users, NEW o \in Orgs, NEW r \in Roles,
             MemberJoins(by, o, u, r)
      PROVE  Stays
  BY <1>3 DEF MemberJoins, TypeOK, Exists
<1>4. ASSUME UNCHANGED <<org, member, agency>>
      PROVE  Stays
  BY <1>4 DEF Exists
<1> HIDE DEF Stays
<1>5. ASSUME NEW h \in Calls, NEW o \in Orgs, QuickFounds(h, o)
      PROVE  Stays
  <2>1. PICK u \in Users, row \in Rows : Founds(u, o, row)
    BY <1>5, FoundedRow DEF QuickFounds, PersonalRow
  <2> QED
    BY <2>1, <1>1
<1>6. Stays
  BY <1>1, <1>2, <1>3, <1>4, <1>5, Cases, FoundedRow DEF Create, QuickReads,
     ClientReads, GrantAccess, RevokeAccess, SetAgencyPlan, CallBreaks, vars
<1> QED
  BY <1>6 DEF Stays

\* Whoever manages an organization manages one that exists.
LEMMA ManagedExists ==
  ASSUME RowsExist, NEW u \in Users, NEW o \in Orgs, Manages(u, o)
  PROVE  o \in Exists
BY RoleNames, AbsentValues DEF RowsExist, Manages, Role

\* Types are kept.
LEMMA TypeStep == TypeOK /\ RowsExist /\ [Next]_vars => TypeOK'
<1> SUFFICES ASSUME TypeOK, RowsExist, [Next]_vars PROVE TypeOK'
  OBVIOUS
<1> DEFINE RowsTyped ==
      /\ org \in [Orgs -> Rows \cup {Missing}]
      /\ member \in [Users -> [Orgs -> Roles \cup {NoRole}]]
      /\ access \in [Users -> [Orgs -> Roles \cup {NoRole}]]
      /\ agency \in [Orgs -> Orgs \cup {NoOrg}]
           HistoryTyped ==
      /\ plan \subseteq everPlan /\ everPlan \subseteq Exists
      /\ rushed \subseteq Exists
      /\ hurried \subseteq Users
<1>1. ASSUME NEW u \in Users, NEW o \in Orgs, NEW row \in Rows, Founds(u, o, row)
      PROVE  RowsTyped' /\ HistoryTyped'
  <2>1. /\ Exists \subseteq Exists'
        /\ org' \in [Orgs -> Rows \cup {Missing}]
        /\ member' \in [Users -> [Orgs -> Roles \cup {NoRole}]]
    BY <1>1, FoundsRows
  <2>2. UNCHANGED <<access, agency, plan, everPlan, rushed, hurried>>
    BY <1>1 DEF Founds
  <2> QED
    BY <2>1, <2>2 DEF TypeOK
<1>2. ASSUME NEW h \in Calls, NEW o \in Orgs, ClientWrites(h, o)
      PROVE  RowsTyped' /\ HistoryTyped'
  <2>1. /\ Exists \subseteq Exists'
        /\ org' \in [Orgs -> Rows \cup {Missing}]
        /\ agency' \in [Orgs -> Orgs \cup {NoOrg}]
        /\ access' \in [Users -> [Orgs -> Roles \cup {NoRole}]]
    BY <1>2, ClientRows
  <2>2. UNCHANGED <<member, plan, everPlan, rushed, hurried>>
    BY <1>2 DEF ClientWrites
  <2> QED
    BY <2>1, <2>2 DEF TypeOK
<1>3. ASSUME NEW h \in Calls, NEW u \in Users, NEW c \in Countries, QuickReads(h, u, c)
      PROVE  RowsTyped' /\ HistoryTyped'
  BY <1>3 DEF QuickReads, TypeOK, Exists
<1>4. ASSUME NEW h \in Calls, NEW u \in Users, NEW a \in Orgs, ClientReads(h, u, a)
      PROVE  RowsTyped' /\ HistoryTyped'
  BY <1>4, ManagedExists DEF ClientReads, TypeOK, Exists
<1>5. ASSUME NEW by \in Users, NEW u \in Users, NEW o \in Orgs, NEW r \in Roles,
             MemberJoins(by, o, u, r) \/ GrantAccess(by, o, u, r)
      PROVE  RowsTyped' /\ HistoryTyped'
  <2>1. CASE MemberJoins(by, o, u, r)
    BY <2>1 DEF MemberJoins, TypeOK, Exists
  <2>2. CASE GrantAccess(by, o, u, r)
    BY <2>2 DEF GrantAccess, TypeOK, Exists
  <2> QED
    BY <1>5, <2>1, <2>2
<1>6. ASSUME NEW by \in Users, NEW u \in Users, NEW c \in Orgs, RevokeAccess(by, c, u)
      PROVE  RowsTyped' /\ HistoryTyped'
  BY <1>6 DEF RevokeAccess, TypeOK, Exists
<1>7. ASSUME NEW a \in Orgs, SetAgencyPlan(a)
      PROVE  RowsTyped' /\ HistoryTyped'
  BY <1>7 DEF SetAgencyPlan, TypeOK, Exists
<1>8. ASSUME UNCHANGED <<org, member, access, agency, plan, everPlan, rushed, hurried>>
      PROVE  RowsTyped' /\ HistoryTyped'
  BY <1>8 DEF TypeOK, Exists
<1>9. ASSUME NEW h \in Calls, NEW o \in Orgs, QuickFounds(h, o)
      PROVE  RowsTyped' /\ HistoryTyped'
  <2>1. PICK u \in Users, row \in Rows : Founds(u, o, row)
    BY <1>9, FoundedRow DEF QuickFounds, PersonalRow
  <2> HIDE DEF RowsTyped, HistoryTyped
  <2> QED
    BY <2>1, <1>1
<1> HIDE DEF RowsTyped, HistoryTyped
<1>10. RowsTyped' /\ HistoryTyped'
  BY <1>1, <1>2, <1>3, <1>4, <1>5, <1>6, <1>7, <1>8, <1>9, Cases, FoundedRow
     DEF Create, CallBreaks, vars
<1> QED
  BY <1>10, CallsTyped DEF RowsTyped, HistoryTyped, TypeOK

\* Nothing names an organization that does not exist.
LEMMA RowsExistStep == TypeOK /\ RowsExist /\ [Next]_vars => RowsExist'
<1> SUFFICES ASSUME TypeOK, RowsExist, [Next]_vars PROVE RowsExist'
  OBVIOUS
<1> DEFINE CallsExist == \A h \in Calls : call[h].at = "linking" => call[h].org \in Exists
           RolesExist == \A u \in Users, o \in Orgs :
             member[u][o] # NoRole \/ access[u][o] # NoRole => o \in Exists
           LinksExist == \A c \in Orgs : agency[c] # NoOrg =>
             c \in Exists /\ agency[c] \in Exists /\ agency[c] # c
<1>1. CallsExist'
  <2> SUFFICES ASSUME NEW h \in Calls, call'[h].at = "linking" PROVE call'[h].org \in Exists'
    OBVIOUS
  <2>1. CASE call'[h] = call[h]
    BY <2>1, OnlyGrows DEF RowsExist
  <2>2. CASE call'[h] = Idle
    BY <2>2 DEF Idle
  <2>3. ASSUME NEW u \in Users, NEW a \in Orgs, ClientReads(h, u, a)
        PROVE  call'[h].org \in Exists'
    <3>1. call'[h] = [at |-> "linking", user |-> u, org |-> a] /\ a \in Exists
      BY <2>3, ManagedExists DEF ClientReads, Begins, TypeOK
    <3> QED
      BY <3>1, OnlyGrows
  <2>4. ASSUME NEW u \in Users, NEW c \in Countries, QuickReads(h, u, c)
        PROVE  call'[h].at = "quick"
    BY <2>4 DEF QuickReads, Begins, TypeOK
  <2>5. \/ call'[h] = call[h] \/ call'[h] = Idle
        \/ \E u \in Users, a \in Orgs : ClientReads(h, u, a)
        \/ \E u \in Users, c \in Countries : QuickReads(h, u, c)
    BY Cases DEF TypeOK, Create, QuickFounds, ClientWrites, QuickReads, ClientReads,
       MemberJoins, GrantAccess, RevokeAccess, SetAgencyPlan, CallBreaks, vars, Begins, Ends
  <2> QED
    BY <2>1, <2>2, <2>3, <2>4, <2>5
<1>2. ASSUME NEW u \in Users, NEW o \in Orgs, NEW row \in Rows, Founds(u, o, row)
      PROVE  RolesExist' /\ LinksExist'
  <2>1. /\ Exists' = Exists \cup {o}
        /\ \A v \in Users, p \in Orgs :
             member'[v][p] = IF v = u /\ p = o THEN "MAIN_ORGANIZER" ELSE member[v][p]
    BY <1>2, FoundsRows
  <2>2. UNCHANGED <<access, agency>>
    BY <1>2 DEF Founds
  <2> QED
    BY <2>1, <2>2 DEF RowsExist
<1>3. ASSUME NEW h \in Calls, NEW o \in Orgs, ClientWrites(h, o)
      PROVE  RolesExist' /\ LinksExist'
  <2>1. /\ o \notin Exists /\ Exists' = Exists \cup {o}
        /\ call[h].at = "linking"
        /\ agency' = [agency EXCEPT ![o] = call[h].org]
        /\ \A v \in Users, p \in Orgs :
             access'[v][p] = IF v = call[h].user /\ p = o THEN "MAIN_ORGANIZER" ELSE access[v][p]
    BY <1>3, ClientRows
  <2>2. member' = member
    BY <1>3 DEF ClientWrites
  <2> QED
    BY <2>1, <2>2 DEF RowsExist, TypeOK
<1>4. ASSUME NEW by \in Users, NEW u \in Users, NEW o \in Orgs, NEW r \in Roles,
             MemberJoins(by, o, u, r)
      PROVE  RolesExist' /\ LinksExist'
  BY <1>4, ManagedExists DEF MemberJoins, RowsExist, TypeOK, Exists
<1>5. ASSUME NEW by \in Users, NEW u \in Users, NEW o \in Orgs, NEW r \in Roles,
             GrantAccess(by, o, u, r)
      PROVE  RolesExist' /\ LinksExist'
  BY <1>5 DEF GrantAccess, RowsExist, TypeOK, Exists
<1>6. ASSUME NEW by \in Users, NEW u \in Users, NEW c \in Orgs, RevokeAccess(by, c, u)
      PROVE  RolesExist' /\ LinksExist'
  BY <1>6 DEF RevokeAccess, RowsExist, TypeOK, Exists
<1>7. ASSUME UNCHANGED <<org, member, access, agency>>
      PROVE  RolesExist' /\ LinksExist'
  BY <1>7 DEF RowsExist, Exists
<1>8. ASSUME NEW h \in Calls, NEW o \in Orgs, QuickFounds(h, o)
      PROVE  RolesExist' /\ LinksExist'
  <2>1. PICK u \in Users, row \in Rows : Founds(u, o, row)
    BY <1>8, FoundedRow DEF QuickFounds, PersonalRow
  <2> HIDE DEF RolesExist, LinksExist
  <2> QED
    BY <2>1, <1>2
<1> HIDE DEF CallsExist, RolesExist, LinksExist
<1>9. RolesExist' /\ LinksExist'
  BY <1>2, <1>3, <1>4, <1>5, <1>6, <1>7, <1>8, Cases, FoundedRow
     DEF Create, QuickReads, ClientReads, SetAgencyPlan, CallBreaks, vars
<1> QED
  BY <1>1, <1>9 DEF CallsExist, RolesExist, LinksExist, RowsExist

-----------------------------------------------------------------------------
(* Chains of agencies *)

\* What holds of an upward set that o is in holds of o's chain; a chain is in
\* every such set.
LEMMA ChainLeast ==
  ASSUME NEW o \in Orgs, NEW S \in SUBSET Orgs, o \in S, Upward(S)
  PROVE  Chain(o) \subseteq S
BY DEF Chain

\* An organization is in its own chain, and its agency's chain is part of it.
LEMMA ChainClimbs ==
  ASSUME TypeOK, NEW o \in Orgs
  PROVE  /\ o \in Chain(o) /\ Chain(o) \subseteq Orgs
         /\ agency[o] # NoOrg => Chain(agency[o]) \subseteq Chain(o)
BY DEF Chain, Upward, TypeOK

\* A chain has only organizations that exist.
LEMMA ChainExists ==
  ASSUME TypeOK, RowsExist, NEW o \in Exists
  PROVE  Chain(o) \subseteq Exists
<1>1. Exists \in SUBSET Orgs /\ Upward(Exists)
  BY DEF Exists, Upward, RowsExist
<1> QED
  BY <1>1, ChainLeast DEF Exists

\* A chain never loses anybody.
LEMMA ChainGrows ==
  ASSUME TypeOK, RowsExist, [Next]_vars, NEW o \in Orgs
  PROVE  Chain(o) \subseteq Chain(o)'
<1>1. ASSUME NEW S \in SUBSET Orgs, Upward(S)'
      PROVE  Upward(S)
  BY <1>1, OnlyGrows DEF Upward, TypeOK
<1> QED
  BY <1>1 DEF Chain

\* A new organization has a main organizer, or an agency that was there before.
LEMMA NewOrganization ==
  ASSUME TypeOK, RowsExist, [Next]_vars, NEW o \in Exists', o \notin Exists
  PROVE  \/ \E u \in Users : member'[u][o] = "MAIN_ORGANIZER"
         \/ agency'[o] # NoOrg /\ agency'[o] \in Exists
<1> DEFINE Kept == \/ \E u \in Users : member'[u][o] = "MAIN_ORGANIZER"
                   \/ agency'[o] # NoOrg /\ agency'[o] \in Exists
<1> o \in Orgs
  BY DEF Exists
<1>1. ASSUME NEW u \in Users, NEW p \in Orgs, NEW row \in Rows, Founds(u, p, row)
      PROVE  Kept
  <2>1. /\ Exists' = Exists \cup {p}
        /\ \A v \in Users, q \in Orgs :
             member'[v][q] = IF v = u /\ q = p THEN "MAIN_ORGANIZER" ELSE member[v][q]
    BY <1>1, FoundsRows
  <2> QED
    BY <2>1
<1>2. ASSUME NEW h \in Calls, NEW p \in Orgs, ClientWrites(h, p)
      PROVE  Kept
  <2>1. /\ Exists' = Exists \cup {p}
        /\ call[h].at = "linking" /\ call[h].org \in Orgs
        /\ agency' = [agency EXCEPT ![p] = call[h].org]
    BY <1>2, ClientRows
  <2> QED
    BY <2>1, AbsentValues DEF RowsExist, TypeOK
<1>3. ASSUME NEW h \in Calls, NEW p \in Orgs, QuickFounds(h, p)
      PROVE  Kept
  <2>1. PICK u \in Users, row \in Rows : Founds(u, p, row)
    BY <1>3, FoundedRow DEF QuickFounds, PersonalRow
  <2> HIDE DEF Kept
  <2> QED
    BY <2>1, <1>1
<1>4. ASSUME org' = org
      PROVE  Kept
  BY <1>4 DEF Exists
<1> HIDE DEF Kept
<1>5. Kept
  BY <1>1, <1>2, <1>3, <1>4, Cases, FoundedRow DEF Create, QuickReads,
     ClientReads, MemberJoins, GrantAccess, RevokeAccess, SetAgencyPlan, CallBreaks, vars
<1> QED
  BY <1>5 DEF Kept

\* A grant that a step makes is one of two: the account just opened, or given to
\* a member of the agency.
LEMMA NewGrant ==
  ASSUME TypeOK, [Next]_vars, NEW u \in Users, NEW c \in Orgs,
         access[u][c] = NoRole, access'[u][c] # NoRole
  PROVE  \/ \E h \in Calls : ClientWrites(h, c) /\ call[h].user = u
         \/ agency[c] # NoOrg /\ member[u][agency[c]] # NoRole
<1> DEFINE Given == \/ \E h \in Calls : ClientWrites(h, c) /\ call[h].user = u
                    \/ agency[c] # NoOrg /\ member[u][agency[c]] # NoRole
<1>1. ASSUME NEW h \in Calls, NEW o \in Orgs, ClientWrites(h, o)
      PROVE  Given
  <2>1. \A v \in Users, p \in Orgs :
          access'[v][p] = IF v = call[h].user /\ p = o THEN "MAIN_ORGANIZER" ELSE access[v][p]
    BY <1>1, ClientRows
  <2> QED
    BY <1>1, <2>1
<1>2. ASSUME NEW by \in Users, NEW v \in Users, NEW o \in Orgs, NEW r \in Roles,
             GrantAccess(by, o, v, r)
      PROVE  Given
  BY <1>2 DEF GrantAccess, TypeOK
<1>3. ASSUME NEW by \in Users, NEW v \in Users, NEW o \in Orgs, RevokeAccess(by, o, v)
      PROVE  Given
  BY <1>3 DEF RevokeAccess, TypeOK
<1>4. ASSUME access' = access
      PROVE  Given
  BY <1>4
<1> HIDE DEF Given
<1>5. Given
  BY <1>1, <1>2, <1>3, <1>4, Cases DEF Create, Founds, QuickFounds, QuickReads,
     ClientReads, MemberJoins, SetAgencyPlan, CallBreaks, vars
<1> QED
  BY <1>5 DEF Given

\* A request that starts to open an account was allowed to.
LEMMA NewLinking ==
  ASSUME TypeOK, [Next]_vars, NEW h \in Calls, call'[h] # call[h], call'[h].at = "linking"
  PROVE  \E u \in Users, a \in Orgs :
           ClientReads(h, u, a) /\ call'[h].user = u /\ call'[h].org = a
<1> DEFINE Began == \E u \in Users, a \in Orgs :
             ClientReads(h, u, a) /\ call'[h].user = u /\ call'[h].org = a
<1>1. ASSUME NEW g \in Calls, NEW u \in Users, NEW a \in Orgs, ClientReads(g, u, a)
      PROVE  Began
  BY <1>1 DEF ClientReads, Begins, TypeOK
<1>2. ASSUME NEW g \in Calls, NEW u \in Users, NEW c \in Countries, QuickReads(g, u, c)
      PROVE  Began
  BY <1>2 DEF QuickReads, Begins, TypeOK
<1>3. ASSUME NEW g \in Calls, Ends(g)
      PROVE  Began
  BY <1>3 DEF Ends, Idle, TypeOK
<1>4. ASSUME call' = call
      PROVE  Began
  BY <1>4
<1> HIDE DEF Began
<1>5. Began
  BY <1>1, <1>2, <1>3, <1>4, Cases DEF Create, QuickFounds, ClientWrites, MemberJoins,
     GrantAccess, RevokeAccess, SetAgencyPlan, CallBreaks, vars
<1> QED
  BY <1>5 DEF Began

-----------------------------------------------------------------------------
(* Access *)

\* Access stays rooted in memberships, and nobody is shut out.
LEMMA AccessStep == TypeOK /\ AccessInv /\ [Next]_vars => AccessInv'
<1> SUFFICES ASSUME TypeOK, AccessInv, [Next]_vars PROVE AccessInv'
  OBVIOUS
<1> USE DEF AccessInv
<1>1. TypeOK' /\ RowsExist'
  BY TypeStep, RowsExistStep
<1>2. \A u \in Users, o \in Orgs : member[u][o] # NoRole => member'[u][o] = member[u][o]
  BY OnlyGrows
<1>3. NeverStranded'
  <2> SUFFICES ASSUME NEW o \in Exists'
               PROVE  \E a \in Chain(o)', u \in Users : member'[u][a] = "MAIN_ORGANIZER"
    BY DEF NeverStranded
  <2>1. o \in Orgs /\ "MAIN_ORGANIZER" # NoRole
    BY RoleNames, AbsentValues DEF Exists
  <2>2. ASSUME NEW p \in Exists
        PROVE  \E a \in Chain(p)', u \in Users : member'[u][a] = "MAIN_ORGANIZER"
    <3>1. PICK a \in Chain(p), u \in Users : member[u][a] = "MAIN_ORGANIZER"
      BY DEF NeverStranded
    <3>2. p \in Orgs /\ a \in Orgs /\ a \in Chain(p)'
      BY ChainGrows DEF Exists, Chain
    <3> QED
      BY <1>2, <2>1, <3>1, <3>2
  <2>3. CASE o \in Exists
    BY <2>2, <2>3
  <2>4. CASE \E u \in Users : member'[u][o] = "MAIN_ORGANIZER"
    <3>1. o \in Chain(o)'
      BY <2>1 DEF Chain
    <3> QED
      BY <2>4, <3>1
  <2>5. CASE agency'[o] # NoOrg /\ agency'[o] \in Exists
    <3>1. Chain(agency[o])' \subseteq Chain(o)'
      BY <2>1, <2>5 DEF Chain, Upward
    <3> QED
      BY <2>2, <2>5, <3>1
  <2> QED
    BY <2>3, <2>4, <2>5, NewOrganization
<1>4. ASSUME NEW u \in Users, NEW o \in Orgs, NEW a \in Chain(o), member[u][a] # NoRole
      PROVE  a \in Chain(o)' /\ member'[u][a] # NoRole /\ a \in Orgs
  BY <1>2, <1>4, ChainGrows DEF Chain
<1>5. AccessFromAbove'
  <2> SUFFICES ASSUME NEW u \in Users, NEW c \in Exists', access'[u][c] # NoRole
               PROVE  \E a \in Chain(c)' : a # c /\ member'[u][a] # NoRole
    BY DEF AccessFromAbove, Above
  <2>1. c \in Orgs
    BY DEF Exists
  <2>2. CASE access[u][c] # NoRole
    <3>1. PICK a \in Chain(c) : a # c /\ member[u][a] # NoRole
      BY <2>1, <2>2 DEF AccessFromAbove, Above, RowsExist
    <3> QED
      BY <1>4, <2>1, <3>1
  <2>3. ASSUME NEW h \in Calls, ClientWrites(h, c), call[h].user = u
        PROVE  \E a \in Chain(c)' : a # c /\ member'[u][a] # NoRole
    <3>1. PICK b \in Orgs :
            b = call[h].org /\ c \notin Exists /\ call[h].at = "linking" /\ agency'[c] = b
      BY <2>1, <2>3, ClientRows DEF TypeOK
    <3>2. b \in Exists
      BY <3>1 DEF RowsExist
    <3>3. PICK a \in Chain(b) : member[u][a] # NoRole
      BY <2>3, <3>1 DEF CallersFromAbove
    <3>4. a # c
      BY <3>1, <3>2, <3>3, ChainExists
    <3>5. a \in Chain(b)' /\ member'[u][a] # NoRole
      BY <1>4, <3>1, <3>3
    <3>6. b # NoOrg
      BY <3>1, AbsentValues
    <3>7. a \in Chain(c)'
      BY <2>1, <3>1, <3>5, <3>6 DEF Chain, Upward
    <3> QED
      BY <3>4, <3>5, <3>7
  <2>4. CASE agency[c] # NoOrg /\ member[u][agency[c]] # NoRole
    <3>1. agency[c] \in Orgs /\ agency[c] # c
      BY <2>1, <2>4 DEF RowsExist, TypeOK
    <3>2. agency[c] \in Chain(c)
      BY <2>1, <2>4, <3>1, ChainClimbs
    <3> QED
      BY <1>4, <2>1, <2>4, <3>1, <3>2
  <2> QED
    BY <2>1, <2>2, <2>3, <2>4, NewGrant
<1>6. CallersFromAbove'
  <2> SUFFICES ASSUME NEW h \in Calls, call'[h].at = "linking"
               PROVE  \E a \in Chain(call[h].org)' : member'[call'[h].user][a] # NoRole
    BY DEF CallersFromAbove
  <2>1. CASE call'[h] = call[h]
    <3>1. PICK a \in Chain(call[h].org) : member[call[h].user][a] # NoRole
      BY <2>1 DEF CallersFromAbove
    <3>2. call[h].user \in Users /\ call[h].org \in Orgs
      BY <2>1, RequestFields
    <3>3. PICK o \in Orgs : o = call[h].org
      BY <3>2
    <3>4. a \in Chain(o)' /\ member'[call[h].user][a] # NoRole
      BY <1>4, <3>1, <3>2, <3>3
    <3> QED
      BY <2>1, <3>3, <3>4 DEF Chain
  <2>2. CASE call'[h] # call[h]
    <3>1. PICK u \in Users, o \in Orgs :
            ClientReads(h, u, o) /\ call'[h].user = u /\ call'[h].org = o
      BY <2>2, NewLinking
    <3>2. Role(u, o) = "MAIN_ORGANIZER" /\ "MAIN_ORGANIZER" # NoRole /\ o \in Exists
      BY <3>1, RoleNames, AbsentValues, ManagedExists DEF ClientReads, Manages
    <3>3. \E a \in Chain(o) : member[u][a] # NoRole
      <4>1. CASE member[u][o] # NoRole
        BY <4>1, ChainClimbs
      <4>2. CASE access[u][o] # NoRole
        BY <3>2, <4>2 DEF AccessFromAbove, Above
      <4> QED
        BY <3>2, <4>1, <4>2 DEF Role
    <3>4. \E a \in Chain(o)' : member'[u][a] # NoRole
      BY <1>4, <3>3
    <3> QED
      BY <3>1, <3>4 DEF Chain
  <2> QED
    BY <2>1, <2>2
<1> QED
  BY <1>1, <1>3, <1>5, <1>6

-----------------------------------------------------------------------------
(* The first client is free *)

\* What other steps do to an agency's clients and to those being opened.
LEMMA ClientsStay ==
  ASSUME TypeOK, [Next]_vars, NEW a \in Orgs,
         \A h \in Calls, u \in Users : ~ClientReads(h, u, a),
         \A h \in Calls, o \in Orgs : ClientWrites(h, o) => call[h].org # a
  PROVE  Clients(a)' \subseteq Clients(a) /\ Linking(a)' \subseteq Linking(a)
<1>1. Linking(a)' \subseteq Linking(a)
  BY NewLinking DEF Linking
<1>2. ASSUME NEW h \in Calls, NEW o \in Orgs, ClientWrites(h, o)
      PROVE  Clients(a)' \subseteq Clients(a)
  <2>1. agency' = [agency EXCEPT ![o] = call[h].org] /\ o \notin Exists /\ call[h].org # a
    BY <1>2, ClientRows
  <2> QED
    BY <2>1 DEF Clients, TypeOK
<1> QED
  BY <1>1, <1>2, Cases DEF Create, Founds, QuickFounds, QuickReads, ClientReads, MemberJoins,
     GrantAccess, RevokeAccess, SetAgencyPlan, CallBreaks, vars, Clients

\* An agency without the plan does not get a second client, unless two calls that
\* add one overlap.
LEMMA AtMostOneClientStep ==
  TypeOK /\ RowsExist /\ AtMostOneClient /\ [Next]_vars => AtMostOneClient'
<1> SUFFICES ASSUME TypeOK, RowsExist, AtMostOneClient, [Next]_vars,
                    NEW a \in Exists', a \notin everPlan', a \notin rushed'
             PROVE  /\ \A c, d \in Clients(a)' : c = d
                    /\ \A g, h \in Linking(a)' : g = h
                    /\ Clients(a)' = {} \/ Linking(a)' = {}
  BY DEF AtMostOneClient
<1>1. a \in Orgs
  BY DEF Exists
<1>2. a \notin everPlan /\ a \notin rushed
  BY Cases DEF Create, Founds, QuickFounds, ClientWrites, QuickReads, ClientReads,
     MemberJoins, GrantAccess, RevokeAccess, SetAgencyPlan, CallBreaks, vars
<1>3. /\ \A c, d \in Clients(a) : c = d
      /\ \A g, h \in Linking(a) : g = h
      /\ Clients(a) = {} \/ Linking(a) = {}
  <2>1. CASE a \in Exists
    BY <1>2, <2>1 DEF AtMostOneClient
  <2>2. CASE a \notin Exists
    BY <1>1, <2>2, AbsentValues DEF RowsExist, Clients, Linking
  <2> QED
    BY <2>1, <2>2
<1>4. ASSUME NEW h \in Calls, NEW u \in Users, ClientReads(h, u, a)
      PROVE  Clients(a) = {} /\ Linking(a) = {}
  <2>1. Clients(a) = {}
    BY <1>2, <1>4 DEF ClientReads, MayAddClient, TypeOK
  <2>2. Linking(a) = {}
    BY <1>4 DEF ClientReads, Linking
  <2> QED
    BY <2>1, <2>2
<1>5. ASSUME NEW h \in Calls, NEW u \in Users, ClientReads(h, u, a)
      PROVE  Clients(a)' = {} /\ Linking(a)' \subseteq {h}
  <2>1. agency' = agency /\ \A g \in Calls : g # h => call'[g] = call[g]
    BY <1>5 DEF ClientReads, Begins, TypeOK
  <2> QED
    BY <1>4, <1>5, <2>1 DEF Clients, Linking
<1>6. ASSUME NEW h \in Calls, NEW o \in Orgs, ClientWrites(h, o), call[h].org = a
      PROVE  Clients(a)' \subseteq {o} /\ Linking(a)' = {}
  <2>1. h \in Linking(a)
    BY <1>6 DEF ClientWrites, Linking
  <2>2. Clients(a) = {} /\ Linking(a) = {h}
    BY <1>3, <2>1
  <2>3. /\ agency' = [agency EXCEPT ![o] = a]
        /\ call' = [call EXCEPT ![h] = Idle]
    BY <1>6 DEF ClientWrites, Ends
  <2>4. Clients(a)' \subseteq {o}
    BY <2>2, <2>3 DEF Clients, TypeOK
  <2>5. Linking(a)' = {}
    BY <2>2, <2>3 DEF Linking, TypeOK, Idle
  <2> QED
    BY <2>4, <2>5
<1> QED
  BY <1>1, <1>3, <1>5, <1>6, ClientsStay

\* A set with one member at most.
LEMMA OneAtMost ==
  ASSUME NEW S, \A x, y \in S : x = y
  PROVE  Cardinality(S) <= 1
<1>1. CASE S = {}
  BY <1>1, FS_EmptySet
<1>2. ASSUME NEW x \in S
      PROVE  Cardinality(S) <= 1
  <2>1. S = {x}
    OBVIOUS
  <2> QED
    BY <2>1, FS_Singleton
<1> QED
  BY <1>1, <1>2

-----------------------------------------------------------------------------
(* One workspace per country *)

\* A personal workspace that a step founds is the one its caller looked for.
LEMMA NewWorkspace ==
  ASSUME TypeOK, [Next]_vars, NEW u \in Users, NEW c \in Countries, NEW o \in Orgs,
         org'[o] = PersonalRow(u, c), org[o] # PersonalRow(u, c)
  PROVE  \E h \in Founding(u) :
           /\ call[h].country = c
           /\ call' = [call EXCEPT ![h] = Idle]
           /\ \A p \in Orgs : p # o => org'[p] = org[p]
           /\ member'[u][o] # NoRole
<1> DEFINE Made == \E h \in Founding(u) :
             /\ call[h].country = c
             /\ call' = [call EXCEPT ![h] = Idle]
             /\ \A p \in Orgs : p # o => org'[p] = org[p]
             /\ member'[u][o] # NoRole
<1>1. ASSUME NEW v \in Users, NEW p \in Orgs, Create(v, p)
      PROVE  Made
  BY <1>1 DEF Create, Founds, TypeOK, PersonalRow
<1>2. ASSUME NEW h \in Calls, NEW p \in Orgs, ClientWrites(h, p)
      PROVE  Made
  BY <1>2 DEF ClientWrites, TypeOK, PersonalRow
<1>3. ASSUME NEW h \in Calls, NEW p \in Orgs, QuickFounds(h, p)
      PROVE  Made
  <2>1. /\ call[h].at = "quick" /\ call[h].user \in Users
        /\ org' = [org EXCEPT ![p] = PersonalRow(call[h].user, call[h].country)]
        /\ member' = [member EXCEPT ![call[h].user][p] = "MAIN_ORGANIZER"]
        /\ call' = [call EXCEPT ![h] = Idle]
    BY <1>3, RequestFields DEF QuickFounds, Founds, PersonalRow, Ends
  <2>2. p = o /\ PersonalRow(call[h].user, call[h].country) = PersonalRow(u, c)
    BY <2>1 DEF TypeOK
  <2>3. call[h].user = u /\ call[h].country = c
    BY <2>2 DEF PersonalRow
  <2>4. member'[u][o] = "MAIN_ORGANIZER" /\ "MAIN_ORGANIZER" # NoRole
    BY <2>1, <2>2, <2>3, RoleNames, AbsentValues DEF TypeOK
  <2> QED
    BY <2>1, <2>2, <2>3, <2>4 DEF Founding, TypeOK
<1>4. ASSUME org' = org
      PROVE  Made
  BY <1>4
<1> HIDE DEF Made
<1>5. Made
  BY <1>1, <1>2, <1>3, <1>4, Cases DEF QuickReads, ClientReads,
     MemberJoins, GrantAccess, RevokeAccess, SetAgencyPlan, CallBreaks, vars
<1> QED
  BY <1>5 DEF Made

\* A quick collection that starts found no workspace, and, unless it is noted as
\* overlapping, no other one of its user at work.
LEMMA NewFounding ==
  ASSUME TypeOK, [Next]_vars, NEW u \in Users, u \notin hurried', NEW h \in Founding(u)',
         call'[h] # call[h]
  PROVE  /\ Founding(u) = {} /\ Founding(u)' \subseteq {h} /\ org' = org
         /\ call'[h].country \in Countries /\ Workspace(u, call'[h].country) = {}
<1> DEFINE Found == /\ Founding(u) = {} /\ Founding(u)' \subseteq {h} /\ org' = org
                    /\ call'[h].country \in Countries /\ Workspace(u, call'[h].country) = {}
<1> h \in Calls /\ call'[h].at = "quick" /\ call'[h].user = u
  BY DEF Founding
<1>1. ASSUME NEW g \in Calls, NEW v \in Users, NEW c \in Countries, QuickReads(g, v, c)
      PROVE  Found
  <2>1. call' = [call EXCEPT ![g] = [at |-> "quick", user |-> v, country |-> c]]
    BY <1>1 DEF QuickReads, Begins
  <2>2. g = h /\ call'[h] = [at |-> "quick", user |-> v, country |-> c]
    BY <2>1 DEF TypeOK
  <2>3. v = u /\ call'[h].country = c
    BY <2>2
  <2>4. Founding(u) = {} /\ Workspace(u, c) = {} /\ org' = org
    BY <1>1, <2>3 DEF QuickReads, Founding
  <2>5. Founding(u)' \subseteq {h}
    BY <2>1, <2>2, <2>4 DEF Founding, TypeOK
  <2> QED
    BY <2>3, <2>4, <2>5
<1>2. ASSUME NEW g \in Calls, NEW v \in Users, NEW a \in Orgs, ClientReads(g, v, a)
      PROVE  Found
  BY <1>2 DEF ClientReads, Begins, TypeOK
<1>3. ASSUME NEW g \in Calls, Ends(g)
      PROVE  Found
  BY <1>3 DEF Ends, Idle, TypeOK
<1>4. ASSUME call' = call
      PROVE  Found
  BY <1>4
<1> HIDE DEF Found
<1>5. Found
  BY <1>1, <1>2, <1>3, <1>4, Cases DEF Create, QuickFounds, ClientWrites, MemberJoins,
     GrantAccess, RevokeAccess, SetAgencyPlan, CallBreaks, vars
<1> QED
  BY <1>5 DEF Found

\* A user founds one workspace per country, unless his calls overlap.
LEMMA AtMostOneWorkspaceStep ==
  TypeOK /\ RowsExist /\ AtMostOneWorkspace /\ SerialOneWorkspace /\ [Next]_vars
    => AtMostOneWorkspace' /\ SerialOneWorkspace'
<1> SUFFICES ASSUME TypeOK, RowsExist, AtMostOneWorkspace, SerialOneWorkspace, [Next]_vars
             PROVE  AtMostOneWorkspace' /\ SerialOneWorkspace'
  OBVIOUS
<1>1. ASSUME NEW u \in Users, NEW c \in Countries, NEW o \in Orgs, org'[o] = PersonalRow(u, c)
      PROVE  member'[u][o] # NoRole
  <2>1. CASE org[o] = PersonalRow(u, c)
    BY <2>1, OnlyGrows DEF AtMostOneWorkspace
  <2>2. CASE org[o] # PersonalRow(u, c)
    BY <1>1, <2>2, NewWorkspace
  <2> QED
    BY <2>1, <2>2
<1>2. ASSUME NEW u \in Users, u \notin hurried'
      PROVE  u \notin hurried
  BY <1>2, Cases DEF Create, Founds, QuickFounds, ClientWrites, QuickReads, ClientReads,
     MemberJoins, GrantAccess, RevokeAccess, SetAgencyPlan, CallBreaks, vars
<1>3. ASSUME NEW u \in Users, u \notin hurried'
      PROVE  \A g, h \in Founding(u)' : g = h
  <2>1. CASE \E h \in Founding(u)' : call'[h] # call[h]
    BY <1>3, <2>1, NewFounding
  <2>2. CASE \A h \in Founding(u)' : call'[h] = call[h]
    BY <1>2, <1>3, <2>2 DEF Founding, AtMostOneWorkspace
  <2> QED
    BY <2>1, <2>2
<1>4. ASSUME NEW u \in Users, u \notin hurried', NEW h \in Founding(u)', NEW o \in Orgs
      PROVE  org'[o] # PersonalRow(u, call'[h].country)
  <2>1. CASE call'[h] # call[h]
    <3>1. PICK c \in Countries : c = call'[h].country /\ Workspace(u, c) = {} /\ org' = org
      BY <1>4, <2>1, NewFounding
    <3>2. SUFFICES ASSUME org[o] = PersonalRow(u, c) PROVE FALSE
      BY <3>1
    <3>3. member[u][o] # NoRole
      BY <3>2 DEF AtMostOneWorkspace
    <3>4. o \in Exists /\ org[o].kind = "personal" /\ org[o].country = c
      BY <3>2, <3>3 DEF RowsExist, PersonalRow
    <3> QED
      BY <3>1, <3>3, <3>4 DEF Workspace
  <2>2. CASE call'[h] = call[h]
    <3>1. h \in Founding(u) /\ h \in Calls /\ call'[h].at = "quick"
      BY <2>2 DEF Founding
    <3>2. PICK c \in Countries : c = call[h].country
      BY <3>1, RequestFields DEF Founding
    <3>3. org[o] # PersonalRow(u, c)
      BY <1>2, <1>4, <3>1, <3>2 DEF AtMostOneWorkspace
    <3>4. SUFFICES ASSUME org'[o] = PersonalRow(u, c) PROVE FALSE
      BY <2>2, <3>2
    <3>5. PICK g \in Founding(u) : call' = [call EXCEPT ![g] = Idle]
      BY <3>3, <3>4, NewWorkspace
    <3>6. g = h
      BY <1>2, <1>4, <3>1, <3>5 DEF AtMostOneWorkspace
    <3> QED
      BY <3>1, <3>5, <3>6 DEF TypeOK, Idle
  <2> QED
    BY <2>1, <2>2
<1>5. ASSUME NEW u \in Users, u \notin hurried', NEW c \in Countries, NEW o \in Orgs, NEW p \in Orgs,
             org'[o] = PersonalRow(u, c), org'[p] = PersonalRow(u, c)
      PROVE  o = p
  <2>1. CASE org[o] = PersonalRow(u, c) /\ org[p] = PersonalRow(u, c)
    BY <1>2, <1>5, <2>1 DEF SerialOneWorkspace, PersonalRow
  <2>2. ASSUME NEW q \in Orgs, NEW r \in Orgs, q # r, org[q] # PersonalRow(u, c),
               org'[q] = PersonalRow(u, c), org'[r] = PersonalRow(u, c)
        PROVE  FALSE
    <3>1. PICK h \in Founding(u) : call[h].country = c /\ org'[r] = org[r]
      BY <2>2, NewWorkspace
    <3> QED
      BY <1>2, <1>5, <2>2, <3>1 DEF AtMostOneWorkspace
  <2> QED
    BY <1>5, <2>1, <2>2
<1>6. AtMostOneWorkspace'
  BY <1>1, <1>3, <1>4 DEF AtMostOneWorkspace
<1>7. SerialOneWorkspace'
  BY <1>5 DEF SerialOneWorkspace, PersonalRow
<1> QED
  BY <1>6, <1>7

-----------------------------------------------------------------------------
(* The theorems *)

\* Nothing exists at first.
LEMMA InitInv == Init => IInv
<1> SUFFICES ASSUME Init PROVE IInv
  OBVIOUS
<1>1. Exists = {}
  BY DEF Init, Exists
<1>2. TypeOK
  BY <1>1, SomeRequests DEF Init, TypeOK, Requests
<1>3. RowsExist
  BY DEF Init, RowsExist, Idle
<1>4. NeverStranded /\ AccessFromAbove /\ CallersFromAbove
  BY <1>1 DEF Init, NeverStranded, AccessFromAbove, CallersFromAbove, Idle
<1>5. AtMostOneClient
  BY <1>1 DEF AtMostOneClient
<1>6. AtMostOneWorkspace /\ SerialOneWorkspace
  BY DEF Init, AtMostOneWorkspace, SerialOneWorkspace, Founding, PersonalRow, Missing, Idle
<1> QED
  BY <1>2, <1>3, <1>4, <1>5, <1>6 DEF IInv, AccessInv

\* The inductive invariant of organizations and agencies.
THEOREM Inductive == Spec => []IInv
<1>1. IInv /\ [Next]_vars => IInv'
  BY TypeStep, AccessStep, AtMostOneClientStep, AtMostOneWorkspaceStep DEF IInv, AccessInv
<1> QED
  BY <1>1, InitInv, PTL DEF Spec

\* The type invariant of organizations and agencies.
THEOREM TypeCorrect == Spec => []TypeOK
<1>1. IInv => TypeOK
  BY DEF IInv
<1> QED
  BY <1>1, Inductive, PTL

\* revokeAccess and inviteMember can never leave an organization without anybody,
\* in it or up its chain of agencies, who may manage it.
THEOREM NobodyStranded == Spec => []NeverStranded
<1>1. IInv => NeverStranded
  BY DEF IInv, AccessInv
<1> QED
  BY <1>1, Inductive, PTL

\* Whatever is granted, revoked and opened at the same time, a grant is held by a
\* member of an agency above the client.
THEOREM GrantsComeFromAbove == Spec => []AccessFromAbove
<1>1. IInv => AccessFromAbove
  BY DEF IInv, AccessInv
<1> QED
  BY <1>1, Inductive, PTL

\* assertCanLinkAnotherClient is enough as long as an agency's createClient calls
\* do not overlap.
THEOREM SecondClientPaid == Spec => []SerialClientsPaid
<1>1. IInv => SerialClientsPaid
  BY OneAtMost DEF IInv, AtMostOneClient, SerialClientsPaid
<1> QED
  BY <1>1, Inductive, PTL

\* getOrCreatePersonalOrg founds one workspace per user and country as long as the
\* user's calls do not overlap.
THEOREM OneWorkspace == Spec => []SerialOneWorkspace
<1>1. IInv => SerialOneWorkspace
  BY DEF IInv
<1> QED
  BY <1>1, Inductive, PTL

=============================================================================

------------------------------ MODULE Accounts ------------------------------
(***************************************************************************)
(* The users table and what hangs on it: registration with an invitation   *)
(* (AuthService), the members and invitations of one organization          *)
(* (OrganizationsService), platform staff (PlatformAdminService), a user's *)
(* e-mail address, country and payout network (UsersService), and the      *)
(* currency of the personal invoices he issues (PersonalInvoicesService).  *)
(*                                                                         *)
(* Nearly every operation reads, decides and writes in a later statement:  *)
(* it is a call of two or more steps, and other calls run in between.      *)
(* Bank payouts are refused for every supported country, none is left on   *)
(* that rail, so a user's payout is his mobile-money network.              *)
(***************************************************************************)
EXTENDS Naturals

CONSTANTS
  Users, Emails, NoEmail,
  Roles, NoRole,          \* OrgRole
  Invitations,            \* organization invitations that may be sent
  StaffInvitations,       \* platform staff invitations that may be sent
  NoToken,                \* registration without a token
  Countries, NoCountry,   \* SUPPORTED_COUNTRIES; an omitted country
  DefaultCountry,
  Networks, NoNetwork,    \* the networks of each country
  Currency,               \* the currency of each country
  Invoices,               \* personal invoices that may be issued
  Calls,                  \* bound: requests being handled at the same time
  MaxRequests             \* bound: requests in all

ASSUME AbsentValues ==
  /\ NoEmail \notin Emails
  /\ NoRole \notin Roles
  /\ NoToken \notin Invitations \cup StaffInvitations
  /\ NoCountry \notin Countries
  /\ DefaultCountry \in Countries
ASSUME CountryTable ==
  /\ DOMAIN Networks = Countries /\ NoNetwork \notin UNION {Networks[c] : c \in Countries}
  /\ DOMAIN Currency = Countries
ASSUME SomeRequests == MaxRequests \in Nat

VARIABLES
  user,         \* user rows
  member,       \* role in the organization (OrganizationMembership)
  invitation,   \* OrganizationInvitation rows
  staffInvite,  \* PlatformStaffInvitation rows
  expired,      \* invitations past their expiresAt
  invoice,      \* personal invoices and the currencies their payers were charged
  call,         \* what each request being handled has read
  left,         \* requests the bound leaves
  overlapped,   \* history: users two of whose own requests ran at the same time
  revoked       \* history: users whose platform access was taken away

rowVars == <<user, member, invitation, staffInvite, expired, invoice>>
vars == <<rowVars, call, left, overlapped, revoked>>

Absent == [email |-> NoEmail, country |-> NoCountry, network |-> NoNetwork, staff |-> FALSE]
AllNetworks == UNION {Networks[c] : c \in Countries}
Currencies == {Currency[c] : c \in Countries}
Unsent == [status |-> "none"]
Unissued == [status |-> "none"]
Idle == [at |-> "idle"]

Rows == [email : Emails, country : Countries, network : AllNetworks \cup {NoNetwork},
         staff : BOOLEAN]
Requests ==
  {Idle}
  \cup [at : {"created", "accepting", "joined", "granting"}, user : Users, email : Emails,
        token : Invitations \cup {NoToken}, staffToken : StaffInvitations \cup {NoToken}]
  \cup [at : {"inviting"}, email : Emails, role : Roles]
  \cup [at : {"adding"}, user : Users, role : Roles]
  \cup [at : {"invitingStaff"}, email : Emails]
  \cup [at : {"addingStaff"}, user : Users]
  \cup [at : {"updating"}, user : Users, email : Emails \cup {NoEmail},
        country : Countries \cup {NoCountry}]
  \cup [at : {"choosing"}, user : Users, network : AllNetworks]
  \cup [at : {"issuing"}, user : Users, currency : Currencies]

Registered == {u \in Users : user[u].email # NoEmail}
WithEmail(e) == {u \in Registered : user[u].email = e}
IsFree(e) == WithEmail(e) = {}

-----------------------------------------------------------------------------
TypeOK ==
  /\ user \in [Users -> Rows \cup {Absent}]
  /\ \A u, v \in Registered : user[u].email = user[v].email => u = v
  /\ member \in [Users -> Roles \cup {NoRole}]
  /\ \A u \in Users : member[u] # NoRole => u \in Registered
  /\ invitation \in [Invitations ->
       [status : {"PENDING", "ACCEPTED"}, email : Emails, role : Roles] \cup {Unsent}]
  /\ staffInvite \in [StaffInvitations ->
       [status : {"PENDING", "ACCEPTED"}, email : Emails] \cup {Unsent}]
  /\ expired \subseteq Invitations \cup StaffInvitations
  /\ invoice \in [Invoices ->
       [issuer : Users, currency : Currencies, payable : BOOLEAN, charged : SUBSET Currencies]
         \cup {Unissued}]
  /\ call \in [Calls -> Requests]
  /\ left \in 0 .. MaxRequests
  /\ overlapped \subseteq Registered
  /\ revoked \subseteq Registered

Init ==
  /\ user = [u \in Users |-> Absent]
  /\ member = [u \in Users |-> NoRole]
  /\ invitation = [i \in Invitations |-> Unsent]
  /\ staffInvite = [s \in StaffInvitations |-> Unsent]
  /\ expired = {}
  /\ invoice = [p \in Invoices |-> Unissued]
  /\ call = [h \in Calls |-> Idle]
  /\ left = MaxRequests
  /\ overlapped = {}
  /\ revoked = {}

Begins(h, request) ==
  /\ call[h] = Idle
  /\ left > 0
  /\ left' = left - 1
  /\ call' = [call EXCEPT ![h] = request]

Moves(h, at) == call' = [call EXCEPT ![h].at = at] /\ UNCHANGED left
Ends(h) == call' = [call EXCEPT ![h] = Idle] /\ UNCHANGED left

\* A request of a signed-in user about himself.
BeginsOwn(h, u, request) ==
  /\ u \in Registered
  /\ Begins(h, request)
  /\ overlapped' =
       IF \E g \in Calls : call[g].at \in {"updating", "choosing", "issuing"} /\ call[g].user = u
         THEN overlapped \cup {u} ELSE overlapped
  /\ UNCHANGED <<rowVars, revoked>>

\* The request throws or the process stops between two statements.
CallBreaks(h) ==
  /\ call[h] # Idle
  /\ Ends(h)
  /\ UNCHANGED <<rowVars, overlapped, revoked>>

-----------------------------------------------------------------------------
(* AuthService: register() *)

\* Mutant: the country of the form is stored, also when there is none.
RegisterAsGiven(h, u, e, c, i, s) ==
  /\ user[u] = Absent
  /\ IsFree(e)
  /\ i # NoToken => invitation[i] # Unsent
  /\ s # NoToken => staffInvite[s] # Unsent
  /\ user' = [user EXCEPT ![u] = [Absent EXCEPT !.email = e, !.country = c]]
  /\ Begins(h, [at |-> "created", user |-> u, email |-> e, token |-> i, staffToken |-> s])
  /\ UNCHANGED <<member, invitation, staffInvite, expired, invoice, overlapped, revoked>>

\* Up to the insert; a second account with the address is refused by the look-up
\* or by the unique index.  A token exists once its invitation was sent.
Register(h, u, e, c, i, s) ==
  /\ user[u] = Absent
  /\ IsFree(e)
  /\ i # NoToken => invitation[i] # Unsent
  /\ s # NoToken => staffInvite[s] # Unsent
  /\ user' = [user EXCEPT ![u] = [Absent EXCEPT
       !.email = e, !.country = IF c = NoCountry THEN DefaultCountry ELSE c]]
  /\ Begins(h, [at |-> "created", user |-> u, email |-> e, token |-> i, staffToken |-> s])
  /\ UNCHANGED <<member, invitation, staffInvite, expired, invoice, overlapped, revoked>>

\* The conditions of tryAcceptInvitation and tryAcceptStaffInvitation.
IsOpenFor(rows, token, email) ==
  /\ token # NoToken
  /\ rows[token] # Unsent
  /\ rows[token].status = "PENDING"
  /\ token \notin expired
  /\ rows[token].email = email

\* tryAcceptInvitation(), its look-up ...
InvitationReads(h) ==
  LET c == call[h] IN
  /\ c.at = "created"
  /\ Moves(h, IF IsOpenFor(invitation, c.token, c.email) THEN "accepting" ELSE "joined")
  /\ UNCHANGED <<rowVars, overlapped, revoked>>

\* Mutant: an existing membership does not fail the transaction.
AcceptsAnyway(h) ==
  LET c == call[h]  row == invitation[c.token] IN
  /\ c.at = "accepting"
  /\ Moves(h, "joined")
  /\ member' = [member EXCEPT ![c.user] = IF @ = NoRole THEN row.role ELSE @]
  /\ invitation' = [invitation EXCEPT ![c.token].status = "ACCEPTED"]
  /\ UNCHANGED <<user, staffInvite, expired, invoice, overlapped, revoked>>

\* ... and its transaction: both writes, or, for somebody who is a member by now,
\* neither, and the error is swallowed.
Accepts(h) ==
  LET c == call[h]  row == invitation[c.token] IN
  /\ c.at = "accepting"
  /\ Moves(h, "joined")
  /\ \/ /\ member[c.user] = NoRole
        /\ member' = [member EXCEPT ![c.user] = row.role]
        /\ invitation' = [invitation EXCEPT ![c.token].status = "ACCEPTED"]
     \/ /\ member[c.user] # NoRole
        /\ UNCHANGED <<member, invitation>>
  /\ UNCHANGED <<user, staffInvite, expired, invoice, overlapped, revoked>>

\* tryAcceptStaffInvitation(), its look-up ...
StaffInvitationReads(h) ==
  LET c == call[h] IN
  /\ c.at = "joined"
  /\ IF IsOpenFor(staffInvite, c.staffToken, c.email) THEN Moves(h, "granting") ELSE Ends(h)
  /\ UNCHANGED <<rowVars, overlapped, revoked>>

\* ... and its transaction.
StaffAccepts(h) ==
  LET c == call[h] IN
  /\ c.at = "granting"
  /\ Ends(h)
  /\ user' = [user EXCEPT ![c.user].staff = TRUE]
  /\ staffInvite' = [staffInvite EXCEPT ![c.staffToken].status = "ACCEPTED"]
  /\ UNCHANGED <<member, invitation, expired, invoice, overlapped, revoked>>

InvitationExpires(i) ==
  /\ i \notin expired
  /\ \/ i \in Invitations /\ invitation[i] # Unsent
     \/ i \in StaffInvitations /\ staffInvite[i] # Unsent
  /\ expired' = expired \cup {i}
  /\ UNCHANGED <<user, member, invitation, staffInvite, invoice, call, left, overlapped, revoked>>

-----------------------------------------------------------------------------
(* OrganizationsService and PlatformAdminService, by an organizer and by the *)
(* platform's owner                                                          *)

\* inviteMember(), its look-ups: an account that is a member is refused.
InviteReads(h, e, r) ==
  /\ \/ /\ IsFree(e)
        /\ Begins(h, [at |-> "inviting", email |-> e, role |-> r])
     \/ \E u \in WithEmail(e) :
          /\ member[u] = NoRole
          /\ Begins(h, [at |-> "adding", user |-> u, role |-> r])
  /\ UNCHANGED <<rowVars, overlapped, revoked>>

\* createInvitation()
InvitationSent(h, i) ==
  LET c == call[h] IN
  /\ c.at = "inviting"
  /\ invitation[i] = Unsent
  /\ Ends(h)
  /\ invitation' = [invitation EXCEPT ![i] =
       [status |-> "PENDING", email |-> c.email, role |-> c.role]]
  /\ UNCHANGED <<user, member, staffInvite, expired, invoice, overlapped, revoked>>

\* Mutant: the membership is upserted.
MemberUpserted(h) ==
  LET c == call[h] IN
  /\ c.at = "adding"
  /\ Ends(h)
  /\ member' = [member EXCEPT ![c.user] = c.role]
  /\ UNCHANGED <<user, invitation, staffInvite, expired, invoice, overlapped, revoked>>

\* The insert of inviteMember(); refused by the unique index for somebody who
\* has become a member meanwhile.
MemberAdded(h) ==
  LET c == call[h] IN
  /\ c.at = "adding"
  /\ Ends(h)
  /\ member' = [member EXCEPT ![c.user] = IF @ = NoRole THEN c.role ELSE @]
  /\ UNCHANGED <<user, invitation, staffInvite, expired, invoice, overlapped, revoked>>

\* inviteStaff(), its look-up: an account with a platform role is refused.
StaffReads(h, e) ==
  /\ \/ /\ IsFree(e)
        /\ Begins(h, [at |-> "invitingStaff", email |-> e])
     \/ \E u \in WithEmail(e) :
          /\ ~user[u].staff
          /\ Begins(h, [at |-> "addingStaff", user |-> u])
  /\ UNCHANGED <<rowVars, overlapped, revoked>>

\* createInvitation() of platform staff
StaffInvitationSent(h, s) ==
  LET c == call[h] IN
  /\ c.at = "invitingStaff"
  /\ staffInvite[s] = Unsent
  /\ Ends(h)
  /\ staffInvite' = [staffInvite EXCEPT ![s] = [status |-> "PENDING", email |-> c.email]]
  /\ UNCHANGED <<user, member, invitation, expired, invoice, overlapped, revoked>>

\* The update of inviteStaff()
StaffAdded(h) ==
  LET c == call[h] IN
  /\ c.at = "addingStaff"
  /\ Ends(h)
  /\ user' = [user EXCEPT ![c.user].staff = TRUE]
  /\ UNCHANGED <<member, invitation, staffInvite, expired, invoice, overlapped, revoked>>

\* revokeStaff(); of somebody without platform access it changes nothing.
RevokeStaff(u) ==
  /\ user[u].staff
  /\ user' = [user EXCEPT ![u].staff = FALSE]
  /\ revoked' = revoked \cup {u}
  /\ UNCHANGED <<member, invitation, staffInvite, expired, invoice, call, left, overlapped>>

-----------------------------------------------------------------------------
(* UsersService *)

\* Mutant: whether a payout is set up is not asked.
UpdateReadsAlways(h, u, e, c) ==
  /\ e # NoEmail => WithEmail(e) \subseteq {u}
  /\ BeginsOwn(h, u, [at |-> "updating", user |-> u, email |-> e, country |-> c])

\* updateProfile(), its look-ups: the address is free, and the country stays once
\* a payout is set up.
UpdateReads(h, u, e, c) ==
  /\ e # NoEmail => WithEmail(e) \subseteq {u}
  /\ c # NoCountry => user[u].network = NoNetwork \/ user[u].country = c
  /\ BeginsOwn(h, u, [at |-> "updating", user |-> u, email |-> e, country |-> c])

\* The update, of the fields that were given; refused as a whole by the unique
\* index when the address was taken meanwhile.
Updates(h) ==
  LET c == call[h] IN
  /\ c.at = "updating"
  /\ Ends(h)
  /\ \/ /\ c.email = NoEmail \/ WithEmail(c.email) \subseteq {c.user}
        /\ user' = [user EXCEPT
             ![c.user].email = IF c.email = NoEmail THEN @ ELSE c.email,
             ![c.user].country = IF c.country = NoCountry THEN @ ELSE c.country]
     \/ /\ c.email # NoEmail /\ ~(WithEmail(c.email) \subseteq {c.user})
        /\ UNCHANGED user
  /\ UNCHANGED <<member, invitation, staffInvite, expired, invoice, overlapped, revoked>>

\* Mutant: any known network is taken.
ChooseReadsAny(h, u, n) ==
  BeginsOwn(h, u, [at |-> "choosing", user |-> u, network |-> n])

\* setMobileMoneyPayout(), its look-up: the network is one of the country's.
ChooseReads(h, u, n) ==
  /\ u \in Registered => n \in Networks[user[u].country]
  /\ BeginsOwn(h, u, [at |-> "choosing", user |-> u, network |-> n])

Chooses(h) ==
  LET c == call[h] IN
  /\ c.at = "choosing"
  /\ Ends(h)
  /\ user' = [user EXCEPT ![c.user].network = c.network]
  /\ UNCHANGED <<member, invitation, staffInvite, expired, invoice, overlapped, revoked>>

-----------------------------------------------------------------------------
(* PersonalInvoicesService *)

\* create(), its look-up ...
IssueReads(h, u) ==
  BeginsOwn(h, u, [at |-> "issuing", user |-> u, currency |-> Currency[user[u].country]])

\* ... and its insert; history remembers whether the issuer could be paid out.
Issues(h, p) ==
  LET c == call[h] IN
  /\ c.at = "issuing"
  /\ invoice[p] = Unissued
  /\ Ends(h)
  /\ invoice' = [invoice EXCEPT ![p] =
       [issuer |-> c.user, currency |-> c.currency,
        payable |-> user[c.user].network # NoNetwork, charged |-> {}]]
  /\ UNCHANGED <<user, member, invitation, staffInvite, expired, overlapped, revoked>>

\* initializeCheckout(): the payer is charged in the currency of the country the
\* issuer is in now.
Checkout(p) ==
  /\ invoice[p] # Unissued
  /\ invoice' = [invoice EXCEPT ![p].charged =
       @ \cup {Currency[user[invoice[p].issuer].country]}]
  /\ UNCHANGED <<user, member, invitation, staffInvite, expired, call, left, overlapped, revoked>>

-----------------------------------------------------------------------------
Tokens == Invitations \cup {NoToken}
StaffTokens == StaffInvitations \cup {NoToken}

CallStep(h) ==
  \/ \E u \in Users, e \in Emails, c \in Countries \cup {NoCountry},
        i \in Tokens, s \in StaffTokens : Register(h, u, e, c, i, s)
  \/ InvitationReads(h) \/ Accepts(h) \/ StaffInvitationReads(h) \/ StaffAccepts(h)
  \/ \E e \in Emails, r \in Roles : InviteReads(h, e, r)
  \/ \E i \in Invitations : InvitationSent(h, i)
  \/ MemberAdded(h)
  \/ \E e \in Emails : StaffReads(h, e)
  \/ \E s \in StaffInvitations : StaffInvitationSent(h, s)
  \/ StaffAdded(h)
  \/ \E u \in Users, e \in Emails \cup {NoEmail}, c \in Countries \cup {NoCountry} :
       UpdateReads(h, u, e, c)
  \/ Updates(h)
  \/ \E u \in Users, n \in AllNetworks : ChooseReads(h, u, n)
  \/ Chooses(h)
  \/ \E u \in Registered : IssueReads(h, u)
  \/ \E p \in Invoices : Issues(h, p)

Next ==
  \/ \E h \in Calls : CallStep(h) \/ CallBreaks(h)
  \/ \E i \in Invitations \cup StaffInvitations : InvitationExpires(i)
  \/ \E u \in Users : RevokeStaff(u)
  \/ \E p \in Invoices : Checkout(p)

Spec == Init /\ [][Next]_vars

-----------------------------------------------------------------------------
(* Properties *)

\* An accepted invitation gave somebody what it promised: its role in the
\* organization, platform access (unless that was revoked).  It is never used up
\* by a registration that an inviteMember call of the same moment overtook.
AcceptedAsInvited ==
  /\ \A i \in Invitations :
       invitation[i] # Unsent /\ invitation[i].status = "ACCEPTED" =>
         \E u \in Users : member[u] = invitation[i].role
  /\ \A s \in StaffInvitations :
       staffInvite[s] # Unsent /\ staffInvite[s].status = "ACCEPTED" =>
         \E u \in Users : user[u].staff \/ u \in revoked

\* A member's role is never changed, by whatever calls and registrations add the
\* same person at the same time.
RoleKept ==
  [][\A u \in Users : member[u] # NoRole => member'[u] = member[u]]_vars

\* "Cannot change country once a payout method is set up": a user's payout
\* network is one of his country's, unless his own requests overlapped.
SerialNetworkFits ==
  \A u \in Registered \ overlapped :
    user[u].network # NoNetwork => user[u].network \in Networks[user[u].country]

\* An invoice issued by somebody with a payout set up is only ever charged in the
\* currency it was issued in, unless his own requests overlapped.
SerialChargedAsIssued ==
  \A p \in Invoices :
    invoice[p] # Unissued /\ invoice[p].payable /\ invoice[p].issuer \notin overlapped =>
      invoice[p].charged \subseteq {invoice[p].currency}

\* Not kept: without a payout the issuer may move, and the same number is charged
\* in another currency.
ChargedAsIssued ==
  \A p \in Invoices :
    invoice[p] # Unissued => invoice[p].charged \subseteq {invoice[p].currency}

\* Not kept: "No account exists yet for this email".  The person may have
\* registered before the invitation was written, or without its token, and an
\* invitation is looked at in register() only.
PendingForNewcomers ==
  \A i \in Invitations :
    invitation[i] # Unsent /\ invitation[i].status = "PENDING" => IsFree(invitation[i].email)

=============================================================================

-------------------------- MODULE AccountsTheorems --------------------------
(***************************************************************************)
(* Users, members and invitations, for any people, addresses, countries    *)
(* and number of requests.                                                 *)
(*                                                                         *)
(* A membership is only ever inserted, never updated, so an accepted       *)
(* invitation's role stays (RoleKept, AcceptedAsInvited).  A user whose    *)
(* own requests do not overlap has one at work at most, and what it looked *)
(* up still holds when it writes (LookUpsHold); hence his network fits his *)
(* country, and once it is set neither his country nor the currency of     *)
(* what he issued moves (PayableInItsCurrency).                            *)
(***************************************************************************)
EXTENDS Accounts, TLAPS

\* The user's requests about himself that are at work.
Own(u) == {h \in Calls : call[h].at \in {"updating", "choosing", "issuing"} /\ call[h].user = u}

\* Calls and invoices name users who have registered, and tokens invitations that
\* were sent.
CallsKnown ==
  /\ \A h \in Calls :
       call[h].at \in {"created", "accepting", "joined", "granting", "adding", "addingStaff",
                       "updating", "choosing", "issuing"} => call[h].user \in Registered
  /\ \A h \in Calls : call[h].at = "accepting" =>
       call[h].token \in Invitations /\ invitation[call[h].token] # Unsent
  /\ \A h \in Calls : call[h].at = "granting" =>
       call[h].staffToken \in StaffInvitations /\ staffInvite[call[h].staffToken] # Unsent
  /\ \A p \in Invoices : invoice[p] # Unissued => invoice[p].issuer \in Registered

\* One own request at a time of a user whose requests did not overlap, and what it
\* looked up still holds.
LookUpsHold ==
  \A u \in Registered \ overlapped :
    /\ \A g, h \in Own(u) : g = h
    /\ \A h \in Own(u) :
         /\ call[h].at = "updating" /\ call[h].country # NoCountry =>
              user[u].network = NoNetwork \/ user[u].country = call[h].country
         /\ call[h].at = "choosing" => call[h].network \in Networks[user[u].country]
         /\ call[h].at = "issuing" => call[h].currency = Currency[user[u].country]

\* The issuer of an invoice that was payable is still paid out in its currency.
PayableInItsCurrency ==
  \A p \in Invoices :
    invoice[p] # Unissued /\ invoice[p].payable /\ invoice[p].issuer \notin overlapped =>
      /\ user[invoice[p].issuer].network # NoNetwork
      /\ invoice[p].currency = Currency[user[invoice[p].issuer].country]

IInv ==
  /\ TypeOK /\ CallsKnown
  /\ AcceptedAsInvited
  /\ LookUpsHold /\ SerialNetworkFits
  /\ PayableInItsCurrency /\ SerialChargedAsIssued

-----------------------------------------------------------------------------
(* Types *)

\* The step is one of these.
LEMMA Cases ==
  ASSUME [Next]_vars
  PROVE  \/ \E h \in Calls, u \in Users, e \in Emails, c \in Countries \cup {NoCountry},
               i \in Tokens, s \in StaffTokens : Register(h, u, e, c, i, s)
         \/ \E h \in Calls : \/ InvitationReads(h) \/ Accepts(h)
                             \/ StaffInvitationReads(h) \/ StaffAccepts(h)
                             \/ MemberAdded(h) \/ StaffAdded(h)
                             \/ Updates(h) \/ Chooses(h) \/ CallBreaks(h)
         \/ \E h \in Calls, e \in Emails, r \in Roles : InviteReads(h, e, r)
         \/ \E h \in Calls, i \in Invitations : InvitationSent(h, i)
         \/ \E h \in Calls, e \in Emails : StaffReads(h, e)
         \/ \E h \in Calls, s \in StaffInvitations : StaffInvitationSent(h, s)
         \/ \E h \in Calls, u \in Users, e \in Emails \cup {NoEmail},
               c \in Countries \cup {NoCountry} : UpdateReads(h, u, e, c)
         \/ \E h \in Calls, u \in Users, n \in AllNetworks : ChooseReads(h, u, n)
         \/ \E h \in Calls, u \in Registered : IssueReads(h, u)
         \/ \E h \in Calls, p \in Invoices : Issues(h, p)
         \/ \E i \in Invitations \cup StaffInvitations : InvitationExpires(i)
         \/ \E u \in Users : RevokeStaff(u)
         \/ \E p \in Invoices : Checkout(p)
         \/ UNCHANGED vars
BY DEF Next, CallStep

\* What each request being handled may be.
LEMMA RequestFields ==
  ASSUME TypeOK, NEW h \in Calls
  PROVE  /\ call[h].at \in {"created", "accepting", "joined", "granting"} =>
              /\ call[h].user \in Users /\ call[h].email \in Emails
              /\ call[h].token \in Invitations \cup {NoToken}
              /\ call[h].staffToken \in StaffInvitations \cup {NoToken}
         /\ call[h].at = "inviting" => call[h].email \in Emails /\ call[h].role \in Roles
         /\ call[h].at = "adding" => call[h].user \in Users /\ call[h].role \in Roles
         /\ call[h].at = "invitingStaff" => call[h].email \in Emails
         /\ call[h].at = "addingStaff" => call[h].user \in Users
         /\ call[h].at = "updating" =>
              /\ call[h].user \in Users /\ call[h].email \in Emails \cup {NoEmail}
              /\ call[h].country \in Countries \cup {NoCountry}
         /\ call[h].at = "choosing" => call[h].user \in Users /\ call[h].network \in AllNetworks
         /\ call[h].at = "issuing" => call[h].user \in Users /\ call[h].currency \in Currencies
BY DEF TypeOK, Requests, Idle

\* A user who has registered has a row with an address and a country.
LEMMA RegisteredRow ==
  ASSUME TypeOK, NEW u \in Users
  PROVE  /\ u \in Registered <=> user[u] # Absent
         /\ u \in Registered => user[u] \in Rows
         /\ u \notin Registered => user[u] = Absent
BY AbsentValues DEF TypeOK, Rows, Absent, Registered

\* The ways in which a row of the users changes: he registers, is given or loses
\* platform access, updates his profile, chooses a network.
Joins(u, e, c) ==
  /\ u \notin Registered /\ IsFree(e)
  /\ user' = [user EXCEPT ![u] = [Absent EXCEPT !.email = e, !.country = c]]
StaffChanges(u, b) == user' = [user EXCEPT ![u].staff = b]
ProfileChanges(h, u, e, c) ==
  /\ call[h].at = "updating" /\ u = call[h].user /\ call' = [call EXCEPT ![h] = Idle]
  /\ e = user[u].email \/ WithEmail(e) \subseteq {u}
  /\ c = IF call[h].country = NoCountry THEN user[u].country ELSE call[h].country
  /\ user' = [user EXCEPT ![u].email = e, ![u].country = c]
NetworkChanges(h, u) ==
  /\ call[h].at = "choosing" /\ u = call[h].user /\ call' = [call EXCEPT ![h] = Idle]
  /\ user' = [user EXCEPT ![u].network = call[h].network]

\* The rows of the users change one at a time, in these ways.
LEMMA UserChanges ==
  ASSUME TypeOK, CallsKnown, [Next]_vars
  PROVE  \/ user' = user
         \/ \E u \in Users, e \in Emails, c \in Countries : Joins(u, e, c)
         \/ \E u \in Registered, b \in BOOLEAN : StaffChanges(u, b)
         \/ \E h \in Calls, u \in Registered, e \in Emails, c \in Countries :
              ProfileChanges(h, u, e, c)
         \/ \E h \in Calls, u \in Registered : NetworkChanges(h, u)
<1> DEFINE Same == user' = user
           New == \E u \in Users, e \in Emails, c \in Countries : Joins(u, e, c)
           Role == \E u \in Registered, b \in BOOLEAN : StaffChanges(u, b)
           Updated == \E h \in Calls, u \in Registered, e \in Emails, c \in Countries :
              ProfileChanges(h, u, e, c)
           Chosen == \E h \in Calls, u \in Registered : NetworkChanges(h, u)
<1>1. ASSUME NEW h \in Calls, NEW u \in Users, NEW e \in Emails,
             NEW c \in Countries \cup {NoCountry}, NEW i \in Tokens, NEW s \in StaffTokens,
             Register(h, u, e, c, i, s)
      PROVE  New
  <2> DEFINE d == IF c = NoCountry THEN DefaultCountry ELSE c
  <2>1. d \in Countries
    BY AbsentValues
  <2>2. u \notin Registered /\ IsFree(e)
    BY <1>1, RegisteredRow DEF Register
  <2>3. user' = [user EXCEPT ![u] = [Absent EXCEPT !.email = e, !.country = d]]
    BY <1>1 DEF Register
  <2> HIDE DEF d
  <2> QED
    BY <2>1, <2>2, <2>3 DEF Joins
<1>2. ASSUME NEW h \in Calls, StaffAccepts(h) \/ StaffAdded(h)
      PROVE  Role
  BY <1>2 DEF StaffAccepts, StaffAdded, CallsKnown, StaffChanges
<1>3. ASSUME NEW u \in Users, RevokeStaff(u)
      PROVE  Role
  <2>1. u \in Registered
    BY <1>3, RegisteredRow DEF RevokeStaff, Absent
  <2> QED
    BY <1>3, <2>1 DEF RevokeStaff, StaffChanges
<1>4. ASSUME NEW h \in Calls, Updates(h)
      PROVE  Updated \/ Same
  <2>1. CASE user' = user
    BY <2>1
  <2>2. CASE user' # user
    <3>1. PICK u \in Registered : /\ u = call[h].user /\ call[h].at = "updating"
                                  /\ call' = [call EXCEPT ![h] = Idle]
      BY <1>4 DEF Updates, CallsKnown, Ends
    <3> DEFINE e == IF call[h].email = NoEmail THEN user[u].email ELSE call[h].email
               c == IF call[h].country = NoCountry THEN user[u].country ELSE call[h].country
    <3>2. user[u] \in Rows
      BY RegisteredRow DEF Registered
    <3>3. e \in Emails /\ c \in Countries
      BY <3>1, <3>2, RequestFields DEF Rows
    <3>4. /\ e = user[u].email \/ WithEmail(e) \subseteq {u}
          /\ user' = [user EXCEPT ![u].email = e, ![u].country = c]
      BY <1>4, <2>2, <3>1 DEF Updates
    <3> QED
      BY <3>1, <3>3, <3>4 DEF ProfileChanges
  <2> QED
    BY <2>1, <2>2
<1>5. ASSUME NEW h \in Calls, Chooses(h)
      PROVE  Chosen
  BY <1>5 DEF Chooses, CallsKnown, Ends, NetworkChanges
<1>6. Same \/ New \/ Role \/ Updated \/ Chosen
  <2> HIDE DEF Same, New, Role, Updated, Chosen
  <2>1. ASSUME user' = user PROVE Same
    BY <2>1 DEF Same
  <2> QED
    BY <1>1, <1>2, <1>3, <1>4, <1>5, <2>1, Cases DEF InvitationReads, Accepts,
       StaffInvitationReads, InviteReads, InvitationSent, MemberAdded, StaffReads,
       StaffInvitationSent, UpdateReads, ChooseReads, IssueReads, BeginsOwn, Issues, CallBreaks,
       InvitationExpires, Checkout, rowVars, vars
<1> QED
  BY <1>6

\* What never happens to a user: he does not disappear, and his row keeps its type.
LEMMA UsersStay ==
  ASSUME TypeOK, CallsKnown, [Next]_vars
  PROVE  /\ user' \in [Users -> Rows \cup {Absent}]
         /\ Registered \subseteq Registered'
         /\ \A u, v \in Registered' : user'[u].email = user'[v].email => u = v
<1> DEFINE Stay == /\ user' \in [Users -> Rows \cup {Absent}]
                   /\ Registered \subseteq Registered'
                   /\ \A u, v \in Registered' : user'[u].email = user'[v].email => u = v
<1>0. /\ user \in [Users -> Rows \cup {Absent}]
      /\ \A u, v \in Registered : user[u].email = user[v].email => u = v
      /\ Registered \subseteq Users
      /\ \A u \in Registered : user[u] \in Rows
  BY RegisteredRow DEF TypeOK, Registered
<1>1. ASSUME NEW u \in Users, NEW e \in Emails, NEW c \in Countries, Joins(u, e, c)
      PROVE  Stay
  <2>1. /\ [Absent EXCEPT !.email = e, !.country = c] \in Rows
        /\ [Absent EXCEPT !.email = e, !.country = c].email = e
    BY DEF Rows, Absent
  <2>2. Registered' = Registered \cup {u} /\ user'[u].email = e
    BY <1>0, <1>1, <2>1, AbsentValues DEF Registered, Joins
  <2>3. \A v \in Registered : user'[v] = user[v] /\ user[v].email # e
    BY <1>0, <1>1 DEF IsFree, WithEmail, Joins
  <2>4. u \notin Registered /\ user' = [user EXCEPT ![u] = [Absent EXCEPT !.email = e, !.country = c]]
    BY <1>1 DEF Joins
  <2> QED
    BY <1>0, <2>1, <2>2, <2>3, <2>4
<1>2. ASSUME NEW u \in Registered, NEW b \in BOOLEAN, StaffChanges(u, b)
      PROVE  Stay
  <2>1. [user[u] EXCEPT !.staff = b] \in Rows /\ user' \in [Users -> Rows \cup {Absent}]
    BY <1>0, <1>2 DEF Rows, StaffChanges
  <2>2. \A v \in Users : user'[v].email = user[v].email
    BY <1>0, <1>2 DEF Rows, StaffChanges
  <2>3. Registered' = Registered
    BY <2>2 DEF Registered
  <2> QED
    BY <1>0, <2>1, <2>2, <2>3
<1>3. ASSUME NEW h \in Calls, NEW u \in Registered, NEW e \in Emails, NEW c \in Countries,
             ProfileChanges(h, u, e, c)
      PROVE  Stay
  <2>1. user' \in [Users -> Rows \cup {Absent}]
    BY <1>0, <1>3 DEF Rows, ProfileChanges
  <2>2. user'[u].email = e /\ \A v \in Users : v # u => user'[v] = user[v]
    BY <1>0, <1>3 DEF Rows, ProfileChanges
  <2>3. Registered' = Registered
    BY <1>0, <2>2, AbsentValues DEF Registered
  <2>4. \A v \in Registered : v # u => user[v].email # e
    BY <1>0, <1>3 DEF WithEmail, ProfileChanges
  <2> QED
    BY <1>0, <2>1, <2>2, <2>3, <2>4
<1>4. ASSUME NEW h \in Calls, NEW u \in Registered, NetworkChanges(h, u)
      PROVE  Stay
  <2>1. user' \in [Users -> Rows \cup {Absent}]
    BY <1>0, <1>4, RequestFields DEF Rows, NetworkChanges
  <2>2. \A v \in Users : user'[v].email = user[v].email
    BY <1>0, <1>4 DEF Rows, NetworkChanges
  <2>3. Registered' = Registered
    BY <2>2 DEF Registered
  <2> QED
    BY <1>0, <2>1, <2>2, <2>3
<1>5. ASSUME user' = user
      PROVE  Stay
  BY <1>0, <1>5 DEF Registered
<1>6. Stay
  <2> HIDE DEF Stay
  <2> QED
    BY <1>1, <1>2, <1>3, <1>4, <1>5, UserChanges
<1> QED
  BY <1>6

\* A request begins as a request.
LEMMA RequestsTyped ==
  ASSUME TypeOK
  PROVE  /\ \A u \in Users, e \in Emails, i \in Tokens, s \in StaffTokens,
               a \in {"created", "accepting", "joined", "granting"} :
              [at |-> a, user |-> u, email |-> e, token |-> i, staffToken |-> s] \in Requests
         /\ \A e \in Emails, r \in Roles : [at |-> "inviting", email |-> e, role |-> r] \in Requests
         /\ \A u \in Users, r \in Roles : [at |-> "adding", user |-> u, role |-> r] \in Requests
         /\ \A e \in Emails : [at |-> "invitingStaff", email |-> e] \in Requests
         /\ \A u \in Users : [at |-> "addingStaff", user |-> u] \in Requests
         /\ \A u \in Users, e \in Emails \cup {NoEmail}, c \in Countries \cup {NoCountry} :
              [at |-> "updating", user |-> u, email |-> e, country |-> c] \in Requests
         /\ \A u \in Users, n \in AllNetworks :
              [at |-> "choosing", user |-> u, network |-> n] \in Requests
         /\ \A u \in Registered :
              [at |-> "issuing", user |-> u, currency |-> Currency[user[u].country]] \in Requests
<1>1. \A u \in Registered : u \in Users /\ Currency[user[u].country] \in Currencies
  BY RegisteredRow DEF Registered, Rows, Currencies
<1> QED
  BY <1>1 DEF Requests, Tokens, StaffTokens

\* Every call is a request afterwards.
LEMMA CallsTyped ==
  ASSUME TypeOK, [Next]_vars
  PROVE  call' \in [Calls -> Requests] /\ left' \in 0 .. MaxRequests
<1> DEFINE Typed == call' \in [Calls -> Requests] /\ left' \in 0 .. MaxRequests
<1>1. ASSUME NEW h \in Calls, NEW request \in Requests, Begins(h, request)
      PROVE  Typed
  BY <1>1, SomeRequests DEF TypeOK, Begins
<1>2. ASSUME NEW h \in Calls, Ends(h)
      PROVE  Typed
  BY <1>2 DEF TypeOK, Ends, Requests
<1>3. ASSUME NEW h \in Calls, NEW a \in {"accepting", "joined", "granting"}, Moves(h, a),
             call[h].at \in {"created", "accepting", "joined"}
      PROVE  Typed
  <2>1. [call[h] EXCEPT !.at = a] \in Requests
    <3>1. call[h] \in [at : {"created", "accepting", "joined", "granting"}, user : Users,
                       email : Emails, token : Invitations \cup {NoToken},
                       staffToken : StaffInvitations \cup {NoToken}]
      BY <1>3 DEF TypeOK, Requests, Idle
    <3> QED
      BY <3>1 DEF Requests
  <2> QED
    BY <1>3, <2>1 DEF TypeOK, Moves
<1>4. ASSUME UNCHANGED <<call, left>>
      PROVE  Typed
  BY <1>4 DEF TypeOK
<1> HIDE DEF Typed
<1>5. ASSUME NEW h \in Calls, NEW u \in Users, NEW e \in Emails,
             NEW c \in Countries \cup {NoCountry}, NEW i \in Tokens, NEW s \in StaffTokens,
             Register(h, u, e, c, i, s)
      PROVE  Typed
  BY <1>1, <1>5, RequestsTyped DEF Register
<1>6. ASSUME NEW h \in Calls, InvitationReads(h) \/ Accepts(h) \/ StaffInvitationReads(h)
      PROVE  Typed
  BY <1>2, <1>3, <1>6 DEF InvitationReads, Accepts, StaffInvitationReads
<1>7. ASSUME NEW h \in Calls,
             \/ \E e \in Emails, r \in Roles : InviteReads(h, e, r)
             \/ \E e \in Emails : StaffReads(h, e)
      PROVE  Typed
  <2>1. \A e \in Emails : WithEmail(e) \subseteq Users
    BY DEF WithEmail, Registered
  <2> QED
    BY <1>1, <1>7, <2>1, RequestsTyped DEF InviteReads, StaffReads
<1>8. ASSUME NEW h \in Calls, NEW u \in Users,
             \/ \E e \in Emails \cup {NoEmail}, c \in Countries \cup {NoCountry} : UpdateReads(h, u, e, c)
             \/ \E n \in AllNetworks : ChooseReads(h, u, n)
             \/ u \in Registered /\ IssueReads(h, u)
      PROVE  Typed
  BY <1>1, <1>8, RequestsTyped DEF UpdateReads, ChooseReads, IssueReads, BeginsOwn
<1>9. Typed
  BY <1>2, <1>4, <1>5, <1>6, <1>7, <1>8, Cases DEF StaffAccepts, InvitationSent, MemberAdded,
     StaffInvitationSent, StaffAdded, Updates, Chooses, Issues, CallBreaks,
     InvitationExpires, RevokeStaff, Checkout, vars, Registered
<1> QED
  BY <1>9 DEF Typed

\* A membership is given to somebody who has registered, and stays.
LEMMA MembersStay ==
  ASSUME TypeOK, CallsKnown, [Next]_vars
  PROVE  /\ member' \in [Users -> Roles \cup {NoRole}]
         /\ \A u \in Users : member'[u] # NoRole => u \in Registered
         /\ \A u \in Users : member[u] # NoRole => member'[u] = member[u]
<1> DEFINE Stay == /\ member' \in [Users -> Roles \cup {NoRole}]
                   /\ \A u \in Users : member'[u] # NoRole => u \in Registered
                   /\ \A u \in Users : member[u] # NoRole => member'[u] = member[u]
<1>1. ASSUME NEW h \in Calls, Accepts(h)
      PROVE  Stay
  <2>1. /\ call[h].token \in Invitations /\ invitation[call[h].token].role \in Roles
        /\ call[h].user \in Registered /\ call[h].user \in Users
    BY <1>1, RequestFields DEF Accepts, CallsKnown, TypeOK
  <2> QED
    BY <1>1, <2>1 DEF Accepts, TypeOK
<1>2. ASSUME NEW h \in Calls, MemberAdded(h)
      PROVE  Stay
  <2>1. call[h].user \in Registered /\ call[h].user \in Users /\ call[h].role \in Roles
    BY <1>2, RequestFields DEF MemberAdded, CallsKnown
  <2> QED
    BY <1>2, <2>1 DEF MemberAdded, TypeOK
<1>3. ASSUME member' = member
      PROVE  Stay
  BY <1>3 DEF TypeOK
<1>4. Stay
  <2> HIDE DEF Stay
  <2> QED
    BY <1>1, <1>2, <1>3, Cases DEF Register, InvitationReads, StaffInvitationReads, StaffAccepts,
       InviteReads, InvitationSent, StaffReads, StaffInvitationSent, StaffAdded, UpdateReads,
       Updates, ChooseReads, Chooses, IssueReads, BeginsOwn, Issues, CallBreaks,
       InvitationExpires, RevokeStaff, Checkout, rowVars, vars
<1> QED
  BY <1>4

\* An invitation that was sent keeps its address and role.
LEMMA InvitationsStay ==
  ASSUME TypeOK, CallsKnown, [Next]_vars
  PROVE  /\ invitation' \in [Invitations ->
              [status : {"PENDING", "ACCEPTED"}, email : Emails, role : Roles] \cup {Unsent}]
         /\ \A i \in Invitations : invitation[i] # Unsent =>
              invitation'[i] # Unsent /\ invitation'[i].role = invitation[i].role
         /\ \A i \in Invitations : invitation'[i] # Unsent /\ invitation'[i].status = "ACCEPTED" =>
              \/ invitation[i] # Unsent /\ invitation[i].status = "ACCEPTED"
              \/ \E h \in Calls : Accepts(h) /\ call[h].token = i
<1> DEFINE Row == [status : {"PENDING", "ACCEPTED"}, email : Emails, role : Roles]
           Stay ==
         /\ invitation' \in [Invitations -> Row \cup {Unsent}]
         /\ \A i \in Invitations : invitation[i] # Unsent =>
              invitation'[i] # Unsent /\ invitation'[i].role = invitation[i].role
         /\ \A i \in Invitations : invitation'[i] # Unsent /\ invitation'[i].status = "ACCEPTED" =>
              \/ invitation[i] # Unsent /\ invitation[i].status = "ACCEPTED"
              \/ \E h \in Calls : Accepts(h) /\ call[h].token = i
<1>0. Unsent \notin Row
  BY DEF Unsent
<1>1. ASSUME NEW h \in Calls, Accepts(h), invitation' # invitation
      PROVE  Stay
  <2> DEFINE i == call[h].token
  <2>1. i \in Invitations /\ invitation[i] \in Row
    BY <1>1 DEF Accepts, CallsKnown, TypeOK
  <2>2. invitation' = [invitation EXCEPT ![i].status = "ACCEPTED"]
    BY <1>1 DEF Accepts
  <2>3. [invitation[i] EXCEPT !.status = "ACCEPTED"] \in Row
    BY <2>1
  <2>4. [invitation[i] EXCEPT !.status = "ACCEPTED"].role = invitation[i].role
    BY <2>1
  <2> HIDE DEF i, Row
  <2>5. invitation' \in [Invitations -> Row \cup {Unsent}]
    BY <2>1, <2>2, <2>3 DEF TypeOK, Row
  <2>6. /\ invitation'[i] # Unsent /\ invitation'[i].role = invitation[i].role
        /\ \A j \in Invitations : j # i => invitation'[j] = invitation[j]
    BY <1>0, <2>1, <2>2, <2>3, <2>4 DEF TypeOK
  <2> QED
    BY <1>1, <2>5, <2>6 DEF i, Row
<1>2. ASSUME NEW h \in Calls, NEW i \in Invitations, InvitationSent(h, i)
      PROVE  Stay
  <2>1. [status |-> "PENDING", email |-> call[h].email, role |-> call[h].role] \in Row
    BY <1>2, RequestFields DEF InvitationSent
  <2>2. /\ invitation[i] = Unsent
        /\ invitation' = [invitation EXCEPT ![i] =
             [status |-> "PENDING", email |-> call[h].email, role |-> call[h].role]]
    BY <1>2 DEF InvitationSent
  <2>3. invitation'[i].status = "PENDING" /\ \A j \in Invitations : j # i => invitation'[j] = invitation[j]
    BY <2>2 DEF TypeOK
  <2>4. invitation' \in [Invitations -> Row \cup {Unsent}]
    BY <2>1, <2>2 DEF TypeOK
  <2> QED
    BY <2>2, <2>3, <2>4
<1>3. ASSUME invitation' = invitation
      PROVE  Stay
  BY <1>3 DEF TypeOK
<1>4. Stay
  <2> HIDE DEF Stay
  <2> QED
    BY <1>1, <1>2, <1>3, Cases DEF Register, InvitationReads, StaffInvitationReads, StaffAccepts,
       InviteReads, MemberAdded, StaffReads, StaffInvitationSent, StaffAdded, UpdateReads,
       Updates, ChooseReads, Chooses, IssueReads, BeginsOwn, Issues, CallBreaks,
       InvitationExpires, RevokeStaff, Checkout, rowVars, vars
<1> QED
  BY <1>4

\* A staff invitation that was sent stays sent.
LEMMA StaffInvitationsStay ==
  ASSUME TypeOK, CallsKnown, [Next]_vars
  PROVE  /\ staffInvite' \in [StaffInvitations ->
              [status : {"PENDING", "ACCEPTED"}, email : Emails] \cup {Unsent}]
         /\ \A s \in StaffInvitations : staffInvite[s] # Unsent => staffInvite'[s] # Unsent
         /\ \A s \in StaffInvitations : staffInvite'[s] # Unsent /\ staffInvite'[s].status = "ACCEPTED" =>
              \/ staffInvite[s] # Unsent /\ staffInvite[s].status = "ACCEPTED"
              \/ \E h \in Calls : StaffAccepts(h)
<1> DEFINE Row == [status : {"PENDING", "ACCEPTED"}, email : Emails]
           Stay ==
         /\ staffInvite' \in [StaffInvitations -> Row \cup {Unsent}]
         /\ \A s \in StaffInvitations : staffInvite[s] # Unsent => staffInvite'[s] # Unsent
         /\ \A s \in StaffInvitations : staffInvite'[s] # Unsent /\ staffInvite'[s].status = "ACCEPTED" =>
              \/ staffInvite[s] # Unsent /\ staffInvite[s].status = "ACCEPTED"
              \/ \E h \in Calls : StaffAccepts(h)
<1>0. Unsent \notin Row
  BY DEF Unsent
<1>1. ASSUME NEW h \in Calls, StaffAccepts(h)
      PROVE  Stay
  <2> DEFINE s == call[h].staffToken
  <2>1. s \in StaffInvitations /\ staffInvite[s] \in Row
    BY <1>1 DEF StaffAccepts, CallsKnown, TypeOK
  <2>2. staffInvite' = [staffInvite EXCEPT ![s].status = "ACCEPTED"]
    BY <1>1 DEF StaffAccepts
  <2>3. [staffInvite[s] EXCEPT !.status = "ACCEPTED"] \in Row
    BY <2>1
  <2> HIDE DEF s, Row
  <2>4. staffInvite' \in [StaffInvitations -> Row \cup {Unsent}]
    BY <2>1, <2>2, <2>3 DEF TypeOK, Row
  <2>5. \A t \in StaffInvitations : staffInvite[t] # Unsent => staffInvite'[t] # Unsent
    BY <1>0, <2>1, <2>2, <2>3 DEF TypeOK
  <2> QED
    BY <1>1, <2>4, <2>5
<1>2. ASSUME NEW h \in Calls, NEW s \in StaffInvitations, StaffInvitationSent(h, s)
      PROVE  Stay
  <2>1. [status |-> "PENDING", email |-> call[h].email] \in Row
    BY <1>2, RequestFields DEF StaffInvitationSent
  <2>2. /\ staffInvite[s] = Unsent
        /\ staffInvite' = [staffInvite EXCEPT ![s] =
             [status |-> "PENDING", email |-> call[h].email]]
    BY <1>2 DEF StaffInvitationSent
  <2>3. /\ staffInvite'[s].status = "PENDING"
        /\ \A t \in StaffInvitations : t # s => staffInvite'[t] = staffInvite[t]
    BY <2>2 DEF TypeOK
  <2>4. staffInvite' \in [StaffInvitations -> Row \cup {Unsent}]
    BY <2>1, <2>2 DEF TypeOK
  <2> QED
    BY <2>2, <2>3, <2>4
<1>3. ASSUME staffInvite' = staffInvite
      PROVE  Stay
  BY <1>3 DEF TypeOK
<1>4. Stay
  <2> HIDE DEF Stay
  <2> QED
    BY <1>1, <1>2, <1>3, Cases DEF Register, InvitationReads, Accepts, StaffInvitationReads,
       InviteReads, InvitationSent, MemberAdded, StaffReads, StaffAdded, UpdateReads,
       Updates, ChooseReads, Chooses, IssueReads, BeginsOwn, Issues, CallBreaks,
       InvitationExpires, RevokeStaff, Checkout, rowVars, vars
<1> QED
  BY <1>4

InvoiceRow == [issuer : Users, currency : Currencies, payable : BOOLEAN, charged : SUBSET Currencies]

\* An invoice is issued as its call read it, and charged in the issuer's currency
\* of the moment; nothing else about it changes.
LEMMA InvoicesStay ==
  ASSUME TypeOK, CallsKnown, [Next]_vars
  PROVE  /\ invoice' \in [Invoices -> InvoiceRow \cup {Unissued}]
         /\ \A p \in Invoices :
              \/ invoice'[p] = invoice[p]
              \/ \E h \in Calls :
                   /\ call[h].at = "issuing" /\ user' = user
                   /\ invoice'[p].issuer = call[h].user
                   /\ invoice'[p].currency = call[h].currency
                   /\ invoice'[p].payable => user[call[h].user].network # NoNetwork
                   /\ invoice'[p].charged = {}
              \/ /\ invoice[p] # Unissued /\ user' = user /\ overlapped' = overlapped
                 /\ invoice'[p] \in InvoiceRow
                 /\ invoice'[p].issuer = invoice[p].issuer
                 /\ invoice'[p].currency = invoice[p].currency
                 /\ invoice'[p].payable = invoice[p].payable
                 /\ invoice'[p].charged =
                      invoice[p].charged \cup {Currency[user[invoice[p].issuer].country]}
<1> DEFINE Issued(p, h) ==
             /\ call[h].at = "issuing" /\ user' = user
             /\ invoice'[p].issuer = call[h].user /\ invoice'[p].currency = call[h].currency
             /\ invoice'[p].payable => user[call[h].user].network # NoNetwork
             /\ invoice'[p].charged = {}
           Charged(p) ==
             /\ invoice[p] # Unissued /\ user' = user /\ overlapped' = overlapped
             /\ invoice'[p] \in InvoiceRow
             /\ invoice'[p].issuer = invoice[p].issuer
             /\ invoice'[p].currency = invoice[p].currency
             /\ invoice'[p].payable = invoice[p].payable
             /\ invoice'[p].charged =
                  invoice[p].charged \cup {Currency[user[invoice[p].issuer].country]}
           Stay ==
             /\ invoice' \in [Invoices -> InvoiceRow \cup {Unissued}]
             /\ \A p \in Invoices :
                  invoice'[p] = invoice[p] \/ (\E h \in Calls : Issued(p, h)) \/ Charged(p)
<1>0. invoice \in [Invoices -> InvoiceRow \cup {Unissued}]
  BY DEF TypeOK, InvoiceRow
<1>1. ASSUME NEW h \in Calls, NEW p \in Invoices, Issues(h, p)
      PROVE  Stay
  <2> DEFINE row == [issuer |-> call[h].user, currency |-> call[h].currency,
                     payable |-> user[call[h].user].network # NoNetwork, charged |-> {}]
  <2>1. row \in InvoiceRow
    BY <1>1, RequestFields DEF Issues, InvoiceRow
  <2>2. call[h].at = "issuing" /\ user' = user /\ invoice' = [invoice EXCEPT ![p] = row]
    BY <1>1 DEF Issues
  <2>6. /\ row.issuer = call[h].user /\ row.currency = call[h].currency /\ row.charged = {}
        /\ row.payable => user[call[h].user].network # NoNetwork
    OBVIOUS
  <2> HIDE DEF row
  <2>3. invoice'[p] = row /\ \A q \in Invoices : q # p => invoice'[q] = invoice[q]
    BY <1>0, <2>2
  <2>4. Issued(p, h)
    BY <2>2, <2>3, <2>6
  <2>5. invoice' \in [Invoices -> InvoiceRow \cup {Unissued}]
    BY <1>0, <2>1, <2>2
  <2> HIDE DEF Issued, Charged
  <2> QED
    BY <2>3, <2>4, <2>5
<1>2. ASSUME NEW p \in Invoices, Checkout(p)
      PROVE  Stay
  <2> DEFINE c == Currency[user[invoice[p].issuer].country]
             row == [invoice[p] EXCEPT !.charged = @ \cup {c}]
  <2>1. invoice[p] \in InvoiceRow /\ invoice[p].issuer \in Registered
    BY <1>0, <1>2 DEF Checkout, CallsKnown
  <2>2. c \in Currencies
    BY <2>1, RegisteredRow DEF Registered, Rows, Currencies
  <2>3. /\ invoice[p] # Unissued /\ user' = user /\ overlapped' = overlapped
        /\ invoice' = [invoice EXCEPT ![p] = row]
    BY <1>2 DEF Checkout
  <2> HIDE DEF c
  <2>4. /\ row \in InvoiceRow /\ row.issuer = invoice[p].issuer
        /\ row.currency = invoice[p].currency /\ row.payable = invoice[p].payable
        /\ row.charged = invoice[p].charged \cup {c}
    BY <2>1, <2>2 DEF InvoiceRow
  <2> HIDE DEF row
  <2>5. invoice'[p] = row /\ \A q \in Invoices : q # p => invoice'[q] = invoice[q]
    BY <1>0, <2>3
  <2>6. Charged(p)
    BY <2>3, <2>4, <2>5 DEF c
  <2>7. invoice' \in [Invoices -> InvoiceRow \cup {Unissued}]
    BY <1>0, <2>3, <2>4
  <2> HIDE DEF Issued, Charged
  <2> QED
    BY <2>5, <2>6, <2>7
<1>3. ASSUME invoice' = invoice
      PROVE  Stay
  BY <1>0, <1>3
<1>4. Stay
  <2> HIDE DEF Stay
  <2> QED
    BY <1>1, <1>2, <1>3, Cases DEF Register, InvitationReads, Accepts, StaffInvitationReads,
       StaffAccepts, InviteReads, InvitationSent, MemberAdded, StaffReads, StaffInvitationSent,
       StaffAdded, UpdateReads, Updates, ChooseReads, Chooses, IssueReads, BeginsOwn,
       CallBreaks, InvitationExpires, RevokeStaff, rowVars, vars
<1> QED
  BY <1>4

\* Nothing is forgotten.
LEMMA HistoryStays ==
  ASSUME TypeOK, CallsKnown, [Next]_vars
  PROVE  /\ overlapped \subseteq overlapped' /\ overlapped' \subseteq Registered
         /\ revoked \subseteq revoked' /\ revoked' \subseteq Registered
         /\ expired' \subseteq Invitations \cup StaffInvitations
<1> DEFINE Stay == /\ overlapped \subseteq overlapped' /\ overlapped' \subseteq Registered
                   /\ revoked \subseteq revoked' /\ revoked' \subseteq Registered
                   /\ expired' \subseteq Invitations \cup StaffInvitations
<1>1. ASSUME NEW h \in Calls, NEW u, NEW request, BeginsOwn(h, u, request)
      PROVE  Stay
  BY <1>1 DEF BeginsOwn, rowVars, TypeOK
<1>2. ASSUME NEW u \in Users, RevokeStaff(u)
      PROVE  Stay
  <2>1. u \in Registered
    BY <1>2, RegisteredRow DEF RevokeStaff, Absent
  <2> QED
    BY <1>2, <2>1 DEF RevokeStaff, TypeOK
<1>3. ASSUME NEW i \in Invitations \cup StaffInvitations, InvitationExpires(i)
      PROVE  Stay
  BY <1>3 DEF InvitationExpires, TypeOK
<1>4. ASSUME UNCHANGED <<overlapped, revoked, expired>>
      PROVE  Stay
  BY <1>4 DEF TypeOK
<1>5. Stay
  <2> HIDE DEF Stay
  <2> QED
    BY <1>1, <1>2, <1>3, <1>4, Cases DEF Register, InvitationReads, Accepts, StaffInvitationReads,
       StaffAccepts, InviteReads, InvitationSent, MemberAdded, StaffReads, StaffInvitationSent,
       StaffAdded, UpdateReads, Updates, ChooseReads, Chooses, IssueReads,
       Issues, CallBreaks, Checkout, rowVars, vars
<1> QED
  BY <1>5

\* Types are kept.
LEMMA TypeStep == TypeOK /\ CallsKnown /\ [Next]_vars => TypeOK'
<1> SUFFICES ASSUME TypeOK, CallsKnown, [Next]_vars PROVE TypeOK'
  OBVIOUS
<1>1. overlapped' \subseteq Registered' /\ revoked' \subseteq Registered'
  BY HistoryStays, UsersStay
<1>2. \A u \in Users : member'[u] # NoRole => u \in Registered'
  BY MembersStay, UsersStay
<1> QED
  BY <1>1, <1>2, CallsTyped, UsersStay, MembersStay, InvitationsStay, StaffInvitationsStay,
     InvoicesStay, HistoryStays DEF TypeOK, InvoiceRow

\* A call that changes ends, names people and invitations that exist, or looks up
\* something about its own user, which is noted when he has another one at work.
LEMMA CallChanges ==
  ASSUME TypeOK, CallsKnown, [Next]_vars, NEW h \in Calls
  PROVE  \/ call'[h] = call[h]
         \/ call'[h].at \in {"idle", "inviting", "invitingStaff"}
         \/ call'[h].at \in {"created", "adding", "addingStaff"} /\ call'[h].user \in Registered'
         \/ /\ call'[h].at \in {"accepting", "joined", "granting"}
            /\ call'[h].user \in Registered
            /\ call'[h].at = "accepting" =>
                 call'[h].token \in Invitations /\ invitation[call'[h].token] # Unsent
            /\ call'[h].at = "granting" =>
                 call'[h].staffToken \in StaffInvitations /\ staffInvite[call'[h].staffToken] # Unsent
         \/ /\ call'[h].at \in {"updating", "choosing", "issuing"}
            /\ call'[h].user \in Registered
            /\ Own(call'[h].user) # {} => call'[h].user \in overlapped'
            /\ \A g \in Calls : g # h => call'[g] = call[g]
            /\ user' = user
            /\ call'[h].at = "updating" /\ call'[h].country # NoCountry =>
                 \/ user[call'[h].user].network = NoNetwork
                 \/ user[call'[h].user].country = call'[h].country
            /\ call'[h].at = "choosing" =>
                 call'[h].network \in Networks[user[call'[h].user].country]
            /\ call'[h].at = "issuing" => call'[h].currency = Currency[user[call'[h].user].country]
<1> DEFINE Rests == call'[h].at \in {"idle", "inviting", "invitingStaff"}
           Names == call'[h].at \in {"created", "adding", "addingStaff"} /\ call'[h].user \in Registered'
           Registers ==
            /\ call'[h].at \in {"accepting", "joined", "granting"}
            /\ call'[h].user \in Registered
            /\ call'[h].at = "accepting" =>
                 call'[h].token \in Invitations /\ invitation[call'[h].token] # Unsent
            /\ call'[h].at = "granting" =>
                 call'[h].staffToken \in StaffInvitations /\ staffInvite[call'[h].staffToken] # Unsent
           LooksUp ==
            /\ call'[h].at \in {"updating", "choosing", "issuing"}
            /\ call'[h].user \in Registered
            /\ Own(call'[h].user) # {} => call'[h].user \in overlapped'
            /\ \A g \in Calls : g # h => call'[g] = call[g]
            /\ user' = user
            /\ call'[h].at = "updating" /\ call'[h].country # NoCountry =>
                 \/ user[call'[h].user].network = NoNetwork
                 \/ user[call'[h].user].country = call'[h].country
            /\ call'[h].at = "choosing" =>
                 call'[h].network \in Networks[user[call'[h].user].country]
            /\ call'[h].at = "issuing" => call'[h].currency = Currency[user[call'[h].user].country]
           Goal == call'[h] = call[h] \/ Rests \/ Names \/ Registers \/ LooksUp
<1>0. call \in [Calls -> Requests]
  BY DEF TypeOK
<1>1. ASSUME NEW g \in Calls, NEW request, Begins(g, request)
      PROVE  /\ call'[g] = request
             /\ \A k \in Calls : k # g => call'[k] = call[k]
  BY <1>0, <1>1 DEF Begins
<1>2. ASSUME NEW g \in Calls, Ends(g)
      PROVE  call'[h] = call[h] \/ Rests
  BY <1>0, <1>2 DEF Ends, Idle
<1>3. ASSUME NEW g \in Calls, NEW u \in Users, NEW e \in Emails,
             NEW c \in Countries \cup {NoCountry}, NEW i \in Tokens, NEW s \in StaffTokens,
             Register(g, u, e, c, i, s)
      PROVE  Goal
  <2>1. u \in Registered'
    BY <1>3, AbsentValues DEF Register, Registered, TypeOK, Absent
  <2>2. Begins(g, [at |-> "created", user |-> u, email |-> e, token |-> i, staffToken |-> s])
    BY <1>3 DEF Register
  <2> QED
    BY <1>1, <2>1, <2>2
<1>4. ASSUME NEW g \in Calls, InvitationReads(g) \/ Accepts(g) \/ StaffInvitationReads(g)
      PROVE  Goal
  <2>1. CASE g = h
    <3>1. /\ call[h].at \in {"created", "accepting", "joined"} /\ call[h].user \in Registered
          /\ call[h] \in [at : {"created", "accepting", "joined", "granting"}, user : Users,
                     email : Emails, token : Invitations \cup {NoToken},
                     staffToken : StaffInvitations \cup {NoToken}]
      BY <1>0, <1>4, <2>1 DEF InvitationReads, Accepts, StaffInvitationReads, CallsKnown, Requests, Idle
    <3>2. ASSUME NEW a \in {"accepting", "joined", "granting"}, Moves(h, a)
          PROVE  /\ call'[h].at = a /\ call'[h].user = call[h].user
                 /\ call'[h].token = call[h].token /\ call'[h].staffToken = call[h].staffToken
      BY <1>0, <3>1, <3>2 DEF Moves
    <3>3. ASSUME InvitationReads(h) PROVE Goal
      <4>1. CASE IsOpenFor(invitation, call[h].token, call[h].email)
        <5>1. call[h].token \in Invitations /\ invitation[call[h].token] # Unsent
          BY <3>1, <4>1 DEF IsOpenFor
        <5>2. Moves(h, "accepting")
          BY <3>3, <4>1 DEF InvitationReads
        <5> QED
          BY <3>1, <3>2, <5>1, <5>2
      <4>2. CASE ~IsOpenFor(invitation, call[h].token, call[h].email)
        <5>1. Moves(h, "joined")
          BY <3>3, <4>2 DEF InvitationReads
        <5> QED
          BY <3>1, <3>2, <5>1
      <4> QED
        BY <4>1, <4>2
    <3>4. ASSUME Accepts(h) PROVE Goal
      <4>1. Moves(h, "joined")
        BY <3>4 DEF Accepts
      <4> QED
        BY <3>1, <3>2, <4>1
    <3>5. ASSUME StaffInvitationReads(h) PROVE Goal
      <4>1. CASE IsOpenFor(staffInvite, call[h].staffToken, call[h].email)
        <5>1. call[h].staffToken \in StaffInvitations /\ staffInvite[call[h].staffToken] # Unsent
          BY <3>1, <4>1 DEF IsOpenFor
        <5>2. Moves(h, "granting")
          BY <3>5, <4>1 DEF StaffInvitationReads
        <5> QED
          BY <3>1, <3>2, <5>1, <5>2
      <4>2. CASE ~IsOpenFor(staffInvite, call[h].staffToken, call[h].email)
        <5>1. Ends(h)
          BY <3>5, <4>2 DEF StaffInvitationReads
        <5> QED
          BY <1>2, <5>1
      <4> QED
        BY <4>1, <4>2
    <3> QED
      BY <1>4, <2>1, <3>3, <3>4, <3>5
  <2>2. CASE g # h
    BY <1>0, <1>4, <2>2 DEF InvitationReads, Accepts, StaffInvitationReads, Moves, Ends
  <2> QED
    BY <2>1, <2>2
<1>5. ASSUME NEW g \in Calls, NEW e \in Emails,
             (\E r \in Roles : InviteReads(g, e, r)) \/ StaffReads(g, e)
      PROVE  Goal
  <2>1. Registered' = Registered
    BY <1>5 DEF InviteReads, StaffReads, rowVars, Registered
  <2>2. \/ Begins(g, [at |-> "invitingStaff", email |-> e])
        \/ \E r \in Roles : Begins(g, [at |-> "inviting", email |-> e, role |-> r])
        \/ \E u \in Registered : Begins(g, [at |-> "addingStaff", user |-> u])
        \/ \E u \in Registered, r \in Roles : Begins(g, [at |-> "adding", user |-> u, role |-> r])
    BY <1>5 DEF InviteReads, StaffReads, WithEmail
  <2>3. ASSUME NEW request, Begins(g, request),
               \/ request.at \in {"inviting", "invitingStaff"}
               \/ request.at \in {"adding", "addingStaff"} /\ request.user \in Registered
        PROVE  Goal
    BY <1>1, <2>1, <2>3
  <2> HIDE DEF Goal
  <2> QED
    BY <2>2, <2>3
<1>6. ASSUME NEW g \in Calls, NEW u \in Registered, NEW request, BeginsOwn(g, u, request),
             request.at \in {"updating", "choosing", "issuing"}, request.user = u
      PROVE  /\ call'[g] = request /\ user' = user
             /\ \A k \in Calls : k # g => call'[k] = call[k]
             /\ Own(u) # {} => u \in overlapped'
  BY <1>1, <1>6 DEF BeginsOwn, rowVars, Own
<1>7. ASSUME NEW g \in Calls, NEW u \in Users, NEW e \in Emails \cup {NoEmail},
             NEW c \in Countries \cup {NoCountry}, UpdateReads(g, u, e, c)
      PROVE  Goal
  <2> DEFINE request == [at |-> "updating", user |-> u, email |-> e, country |-> c]
  <2>1. u \in Registered /\ BeginsOwn(g, u, request)
    BY <1>7 DEF UpdateReads, BeginsOwn
  <2>2. /\ request.at = "updating" /\ request.user = u /\ request.country = c
        /\ c # NoCountry => user[u].network = NoNetwork \/ user[u].country = c
    BY <1>7 DEF UpdateReads
  <2> HIDE DEF request
  <2>3. /\ call'[g] = request /\ user' = user
        /\ \A k \in Calls : k # g => call'[k] = call[k]
        /\ Own(u) # {} => u \in overlapped'
    BY <1>6, <2>1, <2>2
  <2> QED
    BY <2>1, <2>2, <2>3
<1>8. ASSUME NEW g \in Calls, NEW u \in Users, NEW n \in AllNetworks, ChooseReads(g, u, n)
      PROVE  Goal
  <2> DEFINE request == [at |-> "choosing", user |-> u, network |-> n]
  <2>1. u \in Registered /\ BeginsOwn(g, u, request)
    BY <1>8 DEF ChooseReads, BeginsOwn
  <2>2. /\ request.at = "choosing" /\ request.user = u /\ request.network = n
        /\ n \in Networks[user[u].country]
    BY <1>8, <2>1 DEF ChooseReads
  <2> HIDE DEF request
  <2>3. /\ call'[g] = request /\ user' = user
        /\ \A k \in Calls : k # g => call'[k] = call[k]
        /\ Own(u) # {} => u \in overlapped'
    BY <1>6, <2>1, <2>2
  <2> QED
    BY <2>1, <2>2, <2>3
<1>9. ASSUME NEW g \in Calls, NEW u \in Registered, IssueReads(g, u)
      PROVE  Goal
  <2> DEFINE request == [at |-> "issuing", user |-> u, currency |-> Currency[user[u].country]]
  <2>1. BeginsOwn(g, u, request)
    BY <1>9 DEF IssueReads
  <2>2. /\ request.at = "issuing" /\ request.user = u
        /\ request.currency = Currency[user[u].country]
    OBVIOUS
  <2> HIDE DEF request
  <2>3. /\ call'[g] = request /\ user' = user
        /\ \A k \in Calls : k # g => call'[k] = call[k]
        /\ Own(u) # {} => u \in overlapped'
    BY <1>6, <2>1, <2>2
  <2> QED
    BY <2>1, <2>2, <2>3
<1>10. ASSUME call' = call PROVE Goal
  BY <1>10
<1>11. Goal
  <2> HIDE DEF Goal
  <2>1. ASSUME NEW g \in Calls, Ends(g) PROVE Goal
    BY <1>2, <2>1 DEF Goal
  <2> QED
    BY <1>3, <1>4, <1>5, <1>7, <1>8, <1>9, <1>10, <2>1, Cases DEF StaffAccepts, InvitationSent,
       MemberAdded, StaffInvitationSent, StaffAdded, Updates, Chooses, Issues, CallBreaks,
       InvitationExpires, RevokeStaff, Checkout, vars
<1> QED
  BY <1>11

\* What calls and invoices name keeps existing.
LEMMA CallsKnownStep == TypeOK /\ CallsKnown /\ [Next]_vars => CallsKnown'
<1> SUFFICES ASSUME TypeOK, CallsKnown, [Next]_vars PROVE CallsKnown'
  OBVIOUS
<1>1. /\ Registered \subseteq Registered'
      /\ \A i \in Invitations : invitation[i] # Unsent => invitation'[i] # Unsent
      /\ \A s \in StaffInvitations : staffInvite[s] # Unsent => staffInvite'[s] # Unsent
  BY UsersStay, InvitationsStay, StaffInvitationsStay
<1>2. ASSUME NEW h \in Calls
      PROVE  /\ call'[h].at \in {"created", "accepting", "joined", "granting", "adding",
                   "addingStaff", "updating", "choosing", "issuing"} => call'[h].user \in Registered'
             /\ call'[h].at = "accepting" =>
                  call'[h].token \in Invitations /\ invitation'[call'[h].token] # Unsent
             /\ call'[h].at = "granting" =>
                  call'[h].staffToken \in StaffInvitations /\ staffInvite'[call'[h].staffToken] # Unsent
  <2>1. CASE call'[h] = call[h]
    BY <1>1, <2>1 DEF CallsKnown
  <2>2. CASE call'[h] # call[h]
    BY <1>1, <2>2, CallChanges
  <2> QED
    BY <2>1, <2>2
<1>3. ASSUME NEW p \in Invoices, invoice'[p] # Unissued
      PROVE  invoice'[p].issuer \in Registered'
  <2>1. \/ invoice'[p] = invoice[p]
        \/ \E h \in Calls : call[h].at = "issuing" /\ invoice'[p].issuer = call[h].user
        \/ invoice[p] # Unissued /\ invoice'[p].issuer = invoice[p].issuer
    BY InvoicesStay
  <2> QED
    BY <1>1, <1>3, <2>1 DEF CallsKnown
<1> QED
  BY <1>2, <1>3 DEF CallsKnown

-----------------------------------------------------------------------------
(* What accepted invitations promised *)

\* A transaction that accepts gives the role; the role and the access stay, or the
\* access is known to be revoked.
LEMMA AcceptedStep == TypeOK /\ CallsKnown /\ AcceptedAsInvited /\ [Next]_vars => AcceptedAsInvited'
<1> SUFFICES ASSUME TypeOK, CallsKnown, AcceptedAsInvited, [Next]_vars PROVE AcceptedAsInvited'
  OBVIOUS
<1>1. ASSUME NEW i \in Invitations, invitation'[i] # Unsent, invitation'[i].status = "ACCEPTED"
      PROVE  \E u \in Users : member'[u] = invitation'[i].role
  <2>1. CASE invitation[i] # Unsent /\ invitation[i].status = "ACCEPTED"
    <3>1. PICK u \in Users : member[u] = invitation[i].role
      BY <2>1 DEF AcceptedAsInvited
    <3>2. invitation[i].role # NoRole /\ invitation'[i].role = invitation[i].role
      BY <2>1, InvitationsStay, AbsentValues DEF TypeOK
    <3> QED
      BY <3>1, <3>2, MembersStay
  <2>2. CASE invitation[i] = Unsent \/ invitation[i].status # "ACCEPTED"
    <3>1. PICK h \in Calls : Accepts(h) /\ call[h].token = i
      BY <1>1, <2>2, InvitationsStay
    <3>2. call[h].user \in Users /\ invitation[i] # Unsent
      BY <3>1, RequestFields DEF Accepts, CallsKnown
    <3>3. invitation'[i] # invitation[i]
      BY <1>1, <2>2, <3>2
    <3>4. member'[call[h].user] = invitation[i].role
      BY <3>1, <3>2, <3>3 DEF Accepts, TypeOK
    <3> QED
      BY <3>2, <3>4, InvitationsStay
  <2> QED
    BY <2>1, <2>2
<1>2. ASSUME NEW u \in Users, user[u].staff \/ u \in revoked
      PROVE  user'[u].staff \/ u \in revoked'
  <2>0. user[u] \in Rows \cup {Absent}
    BY DEF TypeOK
  <2>1. CASE u \in revoked
    BY <2>1, HistoryStays
  <2>2. CASE \E v \in Users : RevokeStaff(v)
    BY <1>2, <2>2 DEF RevokeStaff, TypeOK
  <2>3. CASE user[u].staff /\ \A v \in Users : ~RevokeStaff(v)
    <3> DEFINE Kept == user'[u].staff
    <3>1. ASSUME user'[u] = user[u] \/ user'[u].staff = user[u].staff PROVE Kept
      BY <2>3, <3>1
    <3>2. ASSUME NEW h \in Calls, StaffAccepts(h) \/ StaffAdded(h) PROVE Kept
      <4>1. user' = [user EXCEPT ![call[h].user].staff = TRUE]
        BY <3>2 DEF StaffAccepts, StaffAdded
      <4>2. user'[u] = IF u = call[h].user THEN [user[u] EXCEPT !.staff = TRUE] ELSE user[u]
        BY <4>1 DEF TypeOK
      <4>3. [user[u] EXCEPT !.staff = TRUE].staff = TRUE
        BY <2>0 DEF Rows, Absent
      <4> QED
        BY <2>3, <4>2, <4>3
    <3>3. ASSUME NEW h \in Calls, NEW v \in Users, NEW e \in Emails,
                 NEW c \in Countries \cup {NoCountry}, NEW i \in Tokens, NEW s \in StaffTokens,
                 Register(h, v, e, c, i, s)
          PROVE  Kept
      <4>1. user[v] = Absent /\ \A w \in Users : w # v => user'[w] = user[w]
        BY <3>3 DEF Register, TypeOK
      <4> QED
        BY <2>3, <4>1 DEF Absent
    <3>4. ASSUME NEW h \in Calls, Updates(h) \/ Chooses(h) PROVE Kept
      BY <2>0, <2>3, <3>4 DEF Updates, Chooses, TypeOK, Rows, Absent
    <3>5. ASSUME user' = user PROVE Kept
      BY <2>3, <3>5
    <3>6. Kept
      <4> HIDE DEF Kept
      <4> QED
        BY <2>3, <3>2, <3>3, <3>4, <3>5, Cases DEF InvitationReads, Accepts,
           StaffInvitationReads, InviteReads, InvitationSent, MemberAdded, StaffReads,
           StaffInvitationSent, UpdateReads, ChooseReads, IssueReads, BeginsOwn, Issues,
           CallBreaks, InvitationExpires, Checkout, rowVars, vars
    <3> QED
      BY <3>6
  <2> QED
    BY <1>2, <2>1, <2>2, <2>3
<1>3. ASSUME NEW s \in StaffInvitations, staffInvite'[s] # Unsent, staffInvite'[s].status = "ACCEPTED"
      PROVE  \E u \in Users : user'[u].staff \/ u \in revoked'
  <2>1. CASE staffInvite[s] # Unsent /\ staffInvite[s].status = "ACCEPTED"
    BY <1>2, <2>1 DEF AcceptedAsInvited
  <2>2. CASE staffInvite[s] = Unsent \/ staffInvite[s].status # "ACCEPTED"
    <3>1. PICK h \in Calls : StaffAccepts(h)
      BY <1>3, <2>2, StaffInvitationsStay
    <3>2. call[h].user \in Users /\ user[call[h].user] \in Rows
      BY <3>1, RequestFields, RegisteredRow DEF StaffAccepts, CallsKnown
    <3> QED
      BY <3>1, <3>2 DEF StaffAccepts, TypeOK, Rows
  <2> QED
    BY <2>1, <2>2
<1> QED
  BY <1>1, <1>3 DEF AcceptedAsInvited

-----------------------------------------------------------------------------
(* A user's country, network and invoices *)

\* The country and the network of a registered user only change in a call of his
\* own, which has ended then.
LEMMA OwnChanges ==
  ASSUME TypeOK, CallsKnown, [Next]_vars, NEW u \in Registered
  PROVE  \/ user'[u].country = user[u].country /\ user'[u].network = user[u].network
         \/ \E h \in Own(u) :
              /\ call[h].at = "updating" /\ call' = [call EXCEPT ![h] = Idle]
              /\ call[h].country # NoCountry
              /\ user'[u].country = call[h].country /\ user'[u].network = user[u].network
         \/ \E h \in Own(u) :
              /\ call[h].at = "choosing" /\ call' = [call EXCEPT ![h] = Idle]
              /\ user'[u].country = user[u].country /\ user'[u].network = call[h].network
<1> DEFINE Same == user'[u].country = user[u].country /\ user'[u].network = user[u].network
           Moved == \E h \in Own(u) :
              /\ call[h].at = "updating" /\ call' = [call EXCEPT ![h] = Idle]
              /\ call[h].country # NoCountry
              /\ user'[u].country = call[h].country /\ user'[u].network = user[u].network
           Chose == \E h \in Own(u) :
              /\ call[h].at = "choosing" /\ call' = [call EXCEPT ![h] = Idle]
              /\ user'[u].country = user[u].country /\ user'[u].network = call[h].network
           Goal == Same \/ Moved \/ Chose
<1>0. user \in [Users -> Rows \cup {Absent}] /\ u \in Users /\ user[u] \in Rows
  BY RegisteredRow DEF TypeOK, Registered
<1>1. ASSUME NEW v \in Users, NEW e \in Emails, NEW c \in Countries, Joins(v, e, c)
      PROVE  Goal
  BY <1>0, <1>1 DEF Joins
<1>2. ASSUME NEW v \in Registered, NEW b \in BOOLEAN, StaffChanges(v, b)
      PROVE  Goal
  BY <1>0, <1>2 DEF Rows, StaffChanges
<1>3. ASSUME NEW h \in Calls, NEW v \in Registered, NEW e \in Emails, NEW c \in Countries,
             ProfileChanges(h, v, e, c)
      PROVE  Goal
  <2>1. CASE v # u
    BY <1>0, <1>3, <2>1 DEF ProfileChanges
  <2>2. CASE v = u
    <3>1. h \in Own(u) /\ call[h].at = "updating" /\ call' = [call EXCEPT ![h] = Idle]
      BY <1>3, <2>2 DEF Own, ProfileChanges
    <3>2. user'[u].country = c /\ user'[u].network = user[u].network
      BY <1>0, <1>3, <2>2 DEF Rows, ProfileChanges
    <3>3. c = IF call[h].country = NoCountry THEN user[u].country ELSE call[h].country
      BY <1>3, <2>2 DEF ProfileChanges
    <3> QED
      BY <3>1, <3>2, <3>3
  <2> QED
    BY <2>1, <2>2
<1>4. ASSUME NEW h \in Calls, NEW v \in Registered, NetworkChanges(h, v)
      PROVE  Goal
  <2>1. CASE v # u
    BY <1>0, <1>4, <2>1 DEF NetworkChanges
  <2>2. CASE v = u
    <3>1. h \in Own(u) /\ call[h].at = "choosing" /\ call' = [call EXCEPT ![h] = Idle]
      BY <1>4, <2>2 DEF Own, NetworkChanges
    <3>2. user'[u].network = call[h].network /\ user'[u].country = user[u].country
      BY <1>0, <1>4, <2>2 DEF Rows, NetworkChanges
    <3> QED
      BY <3>1, <3>2
  <2> QED
    BY <2>1, <2>2
<1>5. ASSUME user' = user PROVE Goal
  BY <1>5
<1>6. Goal
  <2> HIDE DEF Goal
  <2> QED
    BY <1>1, <1>2, <1>3, <1>4, <1>5, UserChanges
<1> QED
  BY <1>6

\* A user who has no overlap after the step is one nobody else's step touches:
\* newly registered, or without one before.
LEMMA StillSerial ==
  ASSUME TypeOK, CallsKnown, [Next]_vars, NEW u \in Registered' \ overlapped'
  PROVE  \/ u \in Registered \ overlapped
         \/ u \notin Registered /\ Own(u)' = {} /\ user'[u].network = NoNetwork
<1>1. CASE u \in Registered
  BY <1>1, HistoryStays
<1>2. CASE u \notin Registered
  <2>1. u \in Users /\ user[u] = Absent /\ user'[u] # user[u]
    BY <1>2, RegisteredRow DEF Registered
  <2>2. user'[u].network = NoNetwork
    <3>1. ASSUME NEW v \in Registered,
                 \/ \E b \in BOOLEAN : StaffChanges(v, b)
                 \/ \E h \in Calls, e \in Emails, c \in Countries : ProfileChanges(h, v, e, c)
                 \/ \E h \in Calls : NetworkChanges(h, v)
          PROVE  FALSE
      <4>1. v # u /\ u \in Users
        BY <1>2, <2>1
      <4> QED
        BY <2>1, <3>1, <4>1 DEF TypeOK, StaffChanges, ProfileChanges, NetworkChanges
    <3>2. PICK v \in Users, e \in Emails, c \in Countries : Joins(v, e, c)
      BY <2>1, <3>1, UserChanges
    <3>3. v = u
      BY <2>1, <3>2 DEF Joins, TypeOK
    <3>4. user'[u] = [Absent EXCEPT !.email = e, !.country = c]
      BY <2>1, <3>2, <3>3 DEF Joins, TypeOK
    <3> QED
      BY <3>4 DEF Absent
  <2>3. ASSUME NEW h \in Calls, call'[h].at \in {"updating", "choosing", "issuing"},
               call'[h].user = u
        PROVE  FALSE
    <3>1. CASE call'[h] = call[h]
      BY <1>2, <2>3, <3>1 DEF CallsKnown
    <3>2. CASE call'[h] # call[h]
      BY <1>2, <2>3, <3>2, CallChanges
    <3> QED
      BY <3>1, <3>2
  <2>4. Own(u)' = {}
    BY <2>3 DEF Own
  <2> QED
    BY <1>2, <2>2, <2>4
<1> QED
  BY <1>1, <1>2

\* Who has one own request at work, keeps what it looked up until it writes.
LEMMA LookUpsStep == TypeOK /\ CallsKnown /\ LookUpsHold /\ [Next]_vars => LookUpsHold'
<1> SUFFICES ASSUME TypeOK, CallsKnown, LookUpsHold, [Next]_vars,
                    NEW u \in Registered' \ overlapped'
             PROVE  /\ \A g, h \in Own(u)' : g = h
                    /\ \A h \in Own(u)' :
                      /\ call'[h].at = "updating" /\ call'[h].country # NoCountry =>
                           user'[u].network = NoNetwork \/ user'[u].country = call'[h].country
                      /\ call'[h].at = "choosing" =>
                           call'[h].network \in Networks[user'[u].country]
                      /\ call'[h].at = "issuing" =>
                           call'[h].currency = Currency[user'[u].country]
  BY DEF LookUpsHold
<1>1. CASE u \notin Registered
  BY <1>1, StillSerial
<1>2. CASE u \in Registered
  <2>1. /\ u \in Registered \ overlapped
        /\ \A g, h \in Own(u) : g = h
        /\ \A h \in Own(u) :
             /\ call[h].at = "updating" /\ call[h].country # NoCountry =>
                  user[u].network = NoNetwork \/ user[u].country = call[h].country
             /\ call[h].at = "choosing" => call[h].network \in Networks[user[u].country]
             /\ call[h].at = "issuing" => call[h].currency = Currency[user[u].country]
    BY <1>2, StillSerial DEF LookUpsHold
  <2>2. CASE \E h \in Own(u)' : call'[h] # call[h]
    <3>1. PICK h \in Own(u)' : call'[h] # call[h]
      BY <2>2
    <3>2. h \in Calls /\ call'[h].user = u /\ call'[h].at \in {"updating", "choosing", "issuing"}
      BY DEF Own
    <3>3. /\ Own(u) # {} => u \in overlapped'
          /\ \A g \in Calls : g # h => call'[g] = call[g]
          /\ user' = user
          /\ call'[h].at = "updating" /\ call'[h].country # NoCountry =>
               user[u].network = NoNetwork \/ user[u].country = call'[h].country
          /\ call'[h].at = "choosing" => call'[h].network \in Networks[user[u].country]
          /\ call'[h].at = "issuing" => call'[h].currency = Currency[user[u].country]
      BY <3>1, <3>2, CallChanges
    <3>4. \A g \in Own(u)' : g = h
      BY <3>2, <3>3 DEF Own
    <3> QED
      BY <3>3, <3>4
  <2>3. CASE \A h \in Own(u)' : call'[h] = call[h]
    <3>1. Own(u)' \subseteq Own(u)
      BY <2>3 DEF Own
    <3>2. CASE user'[u].country = user[u].country /\ user'[u].network = user[u].network
      BY <2>1, <2>3, <3>1, <3>2
    <3>3. CASE \E h \in Own(u) : call' = [call EXCEPT ![h] = Idle]
      <4>1. PICK h \in Own(u) : call' = [call EXCEPT ![h] = Idle]
        BY <3>3
      <4>2. h \notin Own(u)'
        BY <4>1 DEF Own, TypeOK, Idle
      <4>3. Own(u)' = {}
        BY <2>1, <3>1, <4>2
      <4> QED
        BY <4>3
    <3> QED
      BY <1>2, <3>2, <3>3, OwnChanges
  <2> QED
    BY <2>2, <2>3
<1> QED
  BY <1>1, <1>2

\* The network fits the country, and a user with a network stays where he is paid.
LEMMA PlaceStep ==
  ASSUME TypeOK, CallsKnown, LookUpsHold, SerialNetworkFits, [Next]_vars,
         NEW u \in Registered, u \notin overlapped'
  PROVE  /\ user'[u].network # NoNetwork => user'[u].network \in Networks[user'[u].country]
         /\ user[u].network # NoNetwork =>
              user'[u].network # NoNetwork /\ user'[u].country = user[u].country
<1>0. /\ u \notin overlapped /\ u \in Users /\ user[u] \in Rows
      /\ NoNetwork \notin AllNetworks
  BY HistoryStays, RegisteredRow, CountryTable DEF Registered, AllNetworks
<1>1. user[u].network # NoNetwork => user[u].network \in Networks[user[u].country]
  BY <1>0 DEF SerialNetworkFits
<1>2. CASE user'[u].country = user[u].country /\ user'[u].network = user[u].network
  BY <1>1, <1>2
<1>3. CASE \E h \in Own(u) : /\ call[h].at = "updating" /\ call[h].country # NoCountry
                             /\ user'[u].country = call[h].country
                             /\ user'[u].network = user[u].network
  BY <1>0, <1>1, <1>3 DEF LookUpsHold
<1>4. CASE \E h \in Own(u) : /\ call[h].at = "choosing"
                             /\ user'[u].country = user[u].country
                             /\ user'[u].network = call[h].network
  <2>1. PICK h \in Own(u) : /\ call[h].at = "choosing"
                            /\ user'[u].country = user[u].country
                            /\ user'[u].network = call[h].network
    BY <1>4
  <2>2. call[h].network \in AllNetworks /\ call[h].network \in Networks[user[u].country]
    BY <1>0, <2>1, RequestFields DEF LookUpsHold, Own
  <2> QED
    BY <1>0, <2>1, <2>2
<1> QED
  BY <1>2, <1>3, <1>4, OwnChanges

\* The network of every user without overlap fits his country.
LEMMA NetworkStep ==
  TypeOK /\ CallsKnown /\ LookUpsHold /\ SerialNetworkFits /\ [Next]_vars => SerialNetworkFits'
<1> SUFFICES ASSUME TypeOK, CallsKnown, LookUpsHold, SerialNetworkFits, [Next]_vars,
                    NEW u \in Registered' \ overlapped', user'[u].network # NoNetwork
             PROVE  user'[u].network \in Networks[user'[u].country]
  BY DEF SerialNetworkFits
<1> QED
  BY StillSerial, PlaceStep

\* An invoice that is payable is issued in the currency its issuer is paid out in,
\* which stays, so that is the only one it is charged in.
LEMMA InvoiceStep ==
  /\ TypeOK /\ CallsKnown /\ LookUpsHold /\ SerialNetworkFits
  /\ PayableInItsCurrency /\ SerialChargedAsIssued /\ [Next]_vars
  => PayableInItsCurrency' /\ SerialChargedAsIssued'
<1> SUFFICES ASSUME TypeOK, CallsKnown, LookUpsHold, SerialNetworkFits,
                    PayableInItsCurrency, SerialChargedAsIssued, [Next]_vars,
                    NEW p \in Invoices, invoice'[p] # Unissued, invoice'[p].payable,
                    invoice'[p].issuer \notin overlapped'
             PROVE  /\ user'[invoice'[p].issuer].network # NoNetwork
                    /\ invoice'[p].currency = Currency[user'[invoice'[p].issuer].country]
                    /\ invoice'[p].charged \subseteq {invoice'[p].currency}
  BY DEF PayableInItsCurrency, SerialChargedAsIssued
<1>1. overlapped \subseteq overlapped'
  BY HistoryStays
<1>2. CASE invoice'[p] = invoice[p]
  <2>1. PICK u : u = invoice[p].issuer
    OBVIOUS
  <2>2. /\ u \in Registered /\ u \notin overlapped' /\ user[u].network # NoNetwork
        /\ invoice[p].currency = Currency[user[u].country]
        /\ invoice[p].charged \subseteq {invoice[p].currency}
    BY <1>1, <1>2, <2>1 DEF CallsKnown, PayableInItsCurrency, SerialChargedAsIssued
  <2>3. user'[u].network # NoNetwork /\ user'[u].country = user[u].country
    BY <2>2, PlaceStep
  <2> QED
    BY <1>2, <2>1, <2>2, <2>3
<1>3. ASSUME NEW h \in Calls, call[h].at = "issuing", user' = user,
             invoice'[p].issuer = call[h].user, invoice'[p].currency = call[h].currency,
             user[call[h].user].network # NoNetwork, invoice'[p].charged = {}
      PROVE  /\ user'[invoice'[p].issuer].network # NoNetwork
             /\ invoice'[p].currency = Currency[user'[invoice'[p].issuer].country]
             /\ invoice'[p].charged \subseteq {invoice'[p].currency}
  <2>1. PICK u : u = call[h].user
    OBVIOUS
  <2>2. u \in Registered \ overlapped /\ h \in Own(u)
    BY <1>1, <1>3, <2>1 DEF CallsKnown, Own
  <2>3. call[h].currency = Currency[user[u].country]
    BY <1>3, <2>2 DEF LookUpsHold
  <2> QED
    BY <1>3, <2>1, <2>3
<1>4. ASSUME invoice[p] # Unissued, user' = user,
             invoice'[p].issuer = invoice[p].issuer, invoice'[p].currency = invoice[p].currency,
             invoice'[p].payable = invoice[p].payable,
             invoice'[p].charged =
               invoice[p].charged \cup {Currency[user[invoice[p].issuer].country]}
      PROVE  /\ user'[invoice'[p].issuer].network # NoNetwork
             /\ invoice'[p].currency = Currency[user'[invoice'[p].issuer].country]
             /\ invoice'[p].charged \subseteq {invoice'[p].currency}
  BY <1>1, <1>4 DEF PayableInItsCurrency, SerialChargedAsIssued
<1> QED
  BY <1>2, <1>3, <1>4, InvoicesStay

-----------------------------------------------------------------------------
(* The specification *)

\* The first users find empty tables.
LEMMA InitInv == Init => IInv
<1> SUFFICES ASSUME Init PROVE IInv
  OBVIOUS
<1>1. Registered = {}
  BY DEF Init, Registered, Absent
<1>2. \A h \in Calls : call[h].at = "idle"
  BY DEF Init, Idle
<1>3. TypeOK
  BY <1>1, SomeRequests DEF Init, TypeOK, Requests
<1> QED
  BY <1>1, <1>2, <1>3 DEF Init, IInv, CallsKnown, AcceptedAsInvited, LookUpsHold,
     SerialNetworkFits, PayableInItsCurrency, SerialChargedAsIssued

\* The invariant is inductive.
THEOREM Inductive == Spec => []IInv
<1>1. IInv /\ [Next]_vars => IInv'
  BY TypeStep, CallsKnownStep, AcceptedStep, LookUpsStep, NetworkStep, InvoiceStep DEF IInv
<1> QED
  BY <1>1, InitInv, PTL DEF Spec

\* Users, members, invitations, invoices and requests keep their types, and no two
\* accounts ever share an address (the unique index of users.email).
THEOREM TypeCorrect == Spec => []TypeOK
BY Inductive, PTL DEF IInv

\* Whatever registrations and inviteMember calls run at the same time, what an
\* accepted invitation promised was given to somebody.
THEOREM AcceptedGivesRole == Spec => []AcceptedAsInvited
BY Inductive, PTL DEF IInv

\* Nobody's role in the organization is changed by being added once more.
THEOREM RolesAreKept == Spec => RoleKept
<1>1. IInv /\ [Next]_vars => [\A u \in Users : member[u] # NoRole => member'[u] = member[u]]_vars
  BY MembersStay DEF IInv
<1> QED
  BY <1>1, Inductive, PTL DEF Spec, RoleKept

\* "Cannot change country once a payout method is set up" holds of a user whose own
\* requests did not overlap: his network stays one of his country's.
THEOREM NetworkFitsCountry == Spec => []SerialNetworkFits
BY Inductive, PTL DEF IInv

\* A payable invoice is charged in the currency it was issued in, unless its issuer's
\* requests overlapped.
THEOREM ChargedInItsCurrency == Spec => []SerialChargedAsIssued
BY Inductive, PTL DEF IInv

=============================================================================

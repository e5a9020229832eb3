SPECIFICATION Spec
CONSTANTS
  u1 = u1
  u2 = u2
  e1 = e1
  e2 = e2
  h1 = h1
  h2 = h2
  Users <- MCUsers
  Emails <- MCEmails
  NoEmail = NoEmail
  Roles = {"MAIN_ORGANIZER", "AUDITOR"}
  NoRole = NoRole
  Invitations = {"i1"}
  StaffInvitations = {"s1"}
  NoToken = NoToken
  Countries = {"KE", "UG"}
  NoCountry = NoCountry
  DefaultCountry = "KE"
  Networks <- MCNetworks
  NoNetwork = NoNetwork
  Currency <- MCCurrency
  Invoices = {"p1"}
  Calls <- MCCalls
  MaxRequests = 4
SYMMETRY Symmetry
INVARIANTS
  TypeOK
  AcceptedAsInvited
  SerialNetworkFits
  SerialChargedAsIssued
PROPERTIES
  RoleKept
CHECK_DEADLOCK FALSE

SPECIFICATION Spec
CONSTANTS
  u1 = u1
  u2 = u2
  o1 = o1
  o2 = o2
  o3 = o3
  h1 = h1
  h2 = h2
  KE = KE
  UG = UG
  NoOrg = NoOrg
  NoRole = NoRole
  Users <- MCUsers
  Orgs <- MCOrgs
  Roles = {"MAIN_ORGANIZER", "AUDITOR"}
  Countries <- MCCountries
  Paying <- MCPaying
  Calls <- MCCalls
  MaxRequests = 7
SYMMETRY Symmetry
INVARIANTS
  TypeOK
  NeverStranded
  AccessFromAbove
  SerialClientsPaid
  SerialOneWorkspace
CHECK_DEADLOCK FALSE

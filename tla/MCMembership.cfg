CONSTANTS
  u1 = u1
  u2 = u2
  u3 = u3
  o1 = o1
  o2 = o2
  i1 = i1
  i2 = i2
  Users = {u1, u2, u3}
  Orgs = {o1, o2}
  Handlers = {h1, h2}
  Requests = {r1}
  Invitations = {i1, i2}
  Projects = {p1, p2}
  FirstRoles <- MCFirstRoles
  FirstInvitations <- MCFirstInvitations
  MaxPending = 1
  RowSecurity = FALSE
  GivenRoles = {"member"}
  MaxCalls = 3
  MaxFaults = 1
SPECIFICATION MembershipSpec
INVARIANTS
  OwnerAndProject
  CacheFollowsRoles
  InvitationUsedOnce
CHECK_DEADLOCK FALSE
SYMMETRY MCSymmetry

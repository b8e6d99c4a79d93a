SPECIFICATION Spec
CONSTANTS
  Agents = {a1}
  Seniors = {}
  Supervisors = {s1}
  Analysts = {}
  Users <- MCUsers
  RoleOf <- MCRoleOf
  Tier2 = {}
  Cases = {c1}
  Sessions = {}
  Investors = {}
  Codes = {"fixed"}
  Priorities = {"medium"}
  Bodies <- StatusBodies
  Endpoints = {"create", "update", "reassign", "escalate"}
  Slots = {r1, r2}
  SeedExpiries = {}
  Crashes = FALSE
  MaxClock = 0
  MaxHistory = 3
  MaxAudit = 3
  MaxNotes = 1
  Null = Null
SYMMETRY SlotSymmetry
INVARIANTS
  TypeOK
  HistoryAgrees
  ResolvedHasCode
  MilestonesStamped
  EscalationsLogged
  OldStatusesWereReal
  AgentsOnlyPickUp
PROPERTIES
  ClosedIsLeftUnseen
\* With no client calling, and at the bounds, the service rests
CHECK_DEADLOCK FALSE

SPECIFICATION Spec
CONSTANTS
  Agents = {a1}
  Seniors = {}
  Supervisors = {}
  Analysts = {}
  Users <- MCUsers
  RoleOf <- MCRoleOf
  Tier2 = {}
  Cases = {c1}
  Sessions = {v1, v2}
  Investors = {i1}
  Codes = {"fixed"}
  Priorities = {"medium"}
  Bodies <- WorkBodies
  Endpoints = {"create", "update", "link"}
  Slots = {r1, r2}
  SeedExpiries = {0}
  Crashes = FALSE
  MaxClock = 1
  MaxHistory = 1
  MaxAudit = 2
  MaxNotes = 1
  Null = Null
SYMMETRY SlotSymmetry
INVARIANTS
  VerificationTrail
\* With no client calling, and at the bounds, the service rests
CHECK_DEADLOCK FALSE

SPECIFICATION Spec
CONSTANTS
  Agents = {a1}
  Seniors = {}
  Supervisors = {s1}
  Analysts = {}
  Users <- MCUsers
  RoleOf <- MCRoleOf
  Tier2 = {}
  Cases = {c1}
  Sessions = {}
  Investors = {}
  Codes = {"fixed"}
  Priorities = {"medium"}
  Bodies <- StatusBodies
  Endpoints = {"create", "update", "escalate"}
  Slots = {r1}
  SeedExpiries = {}
  Crashes = FALSE
  MaxClock = 0
  MaxHistory = 3
  MaxAudit = 9
  MaxNotes = 1
  Null = Null
PROPERTIES
  ClosedIsTerminal
\* With no client calling, and at the bounds, the service rests
CHECK_DEADLOCK FALSE

SPECIFICATION Spec
CONSTANTS
  Agents = {a1}
  Seniors = {}
  Supervisors = {s1}
  Analysts = {}
  Users <- MCUsers
  RoleOf <- MCRoleOf
  Tier2 = {}
  Cases = {c1}
  Sessions = {}
  Investors = {}
  Codes = {"fixed"}
  Priorities = {"medium"}
  Bodies <- StatusBodies
  Endpoints = {"create", "update"}
  Slots = {r1}
  SeedExpiries = {}
  Crashes = FALSE
  MaxClock = 3
  MaxHistory = 5
  MaxAudit = 6
  MaxNotes = 1
  Null = Null
INVARIANTS
  FirstResponseRecorded
  PendingReconciles
PROPERTIES
  ContractKept
  
\* With no client calling, and at the bounds, the service rests
CHECK_DEADLOCK FALSE

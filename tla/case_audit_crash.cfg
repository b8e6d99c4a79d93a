SPECIFICATION Spec
CONSTANTS
  Agents = {a1}
  Seniors = {}
  Supervisors = {s1}
  Analysts = {q1}
  Users <- MCUsers
  RoleOf <- MCRoleOf
  Tier2 = {}
  Cases = {c1}
  Sessions = {}
  Investors = {}
  Codes = {"fixed"}
  Priorities = {"medium"}
  Bodies <- WorkBodies
  Endpoints = {"create", "escalate", "add_note", "reassign", "update"}
  Slots = {r1, r2}
  SeedExpiries = {}
  Crashes = TRUE
  MaxClock = 0
  MaxHistory = 2
  MaxAudit = 3
  MaxNotes = 1
  Null = Null
SYMMETRY SlotSymmetry
INVARIANTS
  AuditNeverAhead
\* With no client calling, and at the bounds, the service rests
CHECK_DEADLOCK FALSE

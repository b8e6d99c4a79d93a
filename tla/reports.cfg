SPECIFICATION ReportSpec
CONSTANTS
  Agents = {a1}
  Supervisor = s1
  Users <- MCUsers
  RoleOf <- MCRoleOf
  Tier2 <- MCTier2
  Cases = {1, 2}
  Seeds = {1}
  Pauses = {0}
  Sessions = {}
  Investors = {i1}
  Codes = {"fixed"}
  Priorities = {"medium"}
  Bodies <- MCBodies
  Endpoints = {"create", "update", "escalate"}
  Slots = {r1}
  SeedExpiries = {}
  Crashes = FALSE
  MaxClock = 0
  MaxHistory = 2
  MaxAudit = 2
  MaxNotes = 2
  Filters = {Null, "open"}
  PageSize = 1
  MaxWrites = 2
  Null = Null
INVARIANTS
  ReportTypeOK
  TablesAddUp
  
  
  StatusExplained
  MissedByLeaversOnly
\* With no client calling, and at the bounds, the service rests
CHECK_DEADLOCK FALSE

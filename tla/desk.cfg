SPECIFICATION Spec
CONSTANTS
  Agents = {a1}
  Leaders = {t1}
  Analysts = {q1}
  Users <- MCUsers
  RoleOf <- MCRoleOf
  Approvals = {p1}
  Tasks = {o1}
  Slots = {r1, r2}
  Wanted = {"in_progress", "completed", "on_break"}
  Failures = TRUE
  MaxAnswers = 2
  Null = Null
SYMMETRY SlotSymmetry
INVARIANTS
  TypeOK
  DecisionsBounded
  FirstPresenceOnly
  OkIsAudited

  
\* With no client calling, the service rests
CHECK_DEADLOCK FALSE

SPECIFICATION Spec
CONSTANTS
  Sessions = {v1}
  Steps = {full_name, national_id}
  Slots = {r1, r2}
  Manual = TRUE
  Clients = {"agent", "qa_analyst"}
  MaxEnded = 3
  MaxDeaths = 1
  Other = other
SYMMETRY Symmetry
INVARIANTS
  TypeOK
  PassedIsEarned
  StuckOnlyByCrash
PROPERTIES
  SessionsAsAssumed
\* With no client calling, the service rests
CHECK_DEADLOCK FALSE

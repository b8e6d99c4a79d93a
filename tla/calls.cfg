SPECIFICATION Spec
CONSTANTS
  Agents = {a1}
  Supervisors = {s1}
  Staff <- MCStaff
  Pool = {a1}
  Polling = {a1}
  Calls = {c1, c2}
  Polls = {p1, p2}
  Workers = {w1, w2}
  MaxLost = 1
  None = None
INVARIANTS
  TypeOK
  CallsAccounted
PROPERTIES
  FateFinal
  
\* Calls, and polls that may fail, are bounded; the polls themselves go on
CHECK_DEADLOCK TRUE

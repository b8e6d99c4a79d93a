SPECIFICATION Spec
CONSTANTS
  Users = {u1}
  Tokens = {t1, t2, t3, t4}
  Slots = {r1, r2}
  Workers = {w1, w2}
  MaxFaults = 0
  MaxEdits = 0
  None = None
SYMMETRY Symmetry
INVARIANTS
  Revocable
\* Tokens, faults and edits are bounded
CHECK_DEADLOCK FALSE

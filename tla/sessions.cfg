SPECIFICATION Spec
CONSTANTS
  Users = {u1}
  Tokens = {t1, t2, t3}
  Slots = {r1, r2}
  Workers = {w1, w2}
  MaxFaults = 1
  MaxEdits = 1
  None = None
SYMMETRY Symmetry
INVARIANTS
  TypeOK
  SpentIsGone
  ListedOrMissed
\* Tokens, faults and edits are bounded
CHECK_DEADLOCK FALSE

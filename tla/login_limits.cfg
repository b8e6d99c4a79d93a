SPECIFICATION Spec
CONSTANTS
  Addresses = {a1}
  Names = {n1}
  Slots = {r1, r2}
  Workers = {w1}
  MaxAttempts = 2
  Window = 2
  Lockout = 3
  MaxFaults = 2
INVARIANTS
  TypeOK
  TriesBounded
  LimitLocks
PROPERTIES
  LockoutEnds
\* Logins and time go on for ever
CHECK_DEADLOCK TRUE

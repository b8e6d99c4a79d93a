----------------------------- MODULE LoginLimits -----------------------------
(***************************************************************************)
(* The limiter of POST /auth/login: core/rate_limit.py as api/auth.py      *)
(* calls it.  Failed logins are counted by address and by user name over a *)
(* sliding window; a key that reaches the limit is locked out.             *)
(*                                                                         *)
(* Redis holds counts and lockouts for all workers; each of its pipelines  *)
(* is one step, and requests interleave between them.  When a command      *)
(* fails the function starts over on the dicts of its worker, under their  *)
(* lock.  A request goes through                                           *)
(*   ip -> name -> verify -> success                                       *)
(*                        -> failIp [-> lockIp] -> failName [-> lockName]  *)
(* Times are kept as ages, and as what is left of a lockout: nothing       *)
(* depends on the hour, and the clock never ends.                          *)
(***************************************************************************)
EXTENDS FiniteSets, Naturals, Sequences

CONSTANTS
  Addresses,    \* client addresses, as the request tells them
  Names,        \* user names, whether or not there is such a user
  Slots,        \* the requests that can be in flight at once
  Workers,      \* the server processes
  MaxAttempts,  \* MAX_ATTEMPTS
  Window,       \* WINDOW_SECONDS, in ticks
  Lockout,      \* LOCKOUT_SECONDS, in ticks
  MaxFaults     \* how many commands of Redis may fail

ASSUME LimitsAssumption ==
  /\ MaxAttempts \in Nat \ {0} /\ Window \in Nat \ {0} /\ MaxFaults \in Nat
  /\ Lockout \in Nat /\ Lockout >= Window
ASSUME KeysAssumption == Addresses \cap Names = {}
ASSUME SlotsAssumption == IsFiniteSet(Slots)

Redis == "redis"
ASSUME StoresAssumption == Redis \notin Workers
Stores == {Redis} \cup Workers
Keys == Addresses \cup Names
Ages == 0 .. Window - 1

VARIABLES
  attempts,  \* in each store, by key: the ages of its failures, the newest first
  lockout,   \* in each store, by key: how long it is still locked
  over,      \* in each worker: the keys of _lockouts whose time is over
  req,       \* the request in each slot
  faults,    \* how many commands failed
  wrong      \* history: by key, the ages of the wrong passwords since its last success

vars == <<attempts, lockout, over, req, faults, wrong>>

Idle == [pc |-> "idle"]

InFlight == [pc : {"name", "verify", "success", "failIp", "lockIp", "failName", "lockName"},
             worker : Workers, ip : Addresses, name : Names]

\* Ages of failures, the newest first
Failures == {f \in Seq(Ages) : \A i, j \in DOMAIN f : i < j => f[i] <= f[j]}

TypeOK ==
  /\ attempts \in [Stores -> [Keys -> Failures]]
  /\ lockout \in [Stores -> [Keys -> 0 .. Lockout]]
  /\ over \in [Workers -> SUBSET Keys]
  /\ req \in [Slots -> InFlight \cup {Idle}]
  /\ faults \in 0 .. MaxFaults
  /\ wrong \in [Keys -> Failures]

Init ==
  /\ attempts = [s \in Stores |-> [k \in Keys |-> <<>>]]
  /\ lockout = [s \in Stores |-> [k \in Keys |-> 0]]
  /\ over = [w \in Workers |-> {}]
  /\ req = [r \in Slots |-> Idle]
  /\ faults = 0
  /\ wrong = [k \in Keys |-> <<>>]

(* ------------------------------ limiter ------------------------------- *)

Goto(r, pc) == req' = [req EXCEPT ![r] = [@ EXCEPT !.pc = pc]]
Leave(r) == req' = [req EXCEPT ![r] = Idle]

\* is_locked_out
Locked(s, k) == lockout[s][k] > 0

\* zadd of now, what left the window removed
OneMore(ages) == <<0>> \o ages

\* Mutant: the sixth failure locks
Exceeded(ages) == Len(ages) > MaxAttempts

\* count >= MAX_ATTEMPTS
Reached(ages) == Len(ages) >= MaxAttempts

\* Mutant: milliseconds
InMilliseconds == Lockout * 1000

\* Mutant: a lockout shorter than the window
TooShort == Window - 1

\* setex, LOCKOUT_SECONDS
LockTime == Lockout

(* ------------------------- login, Redis in use ------------------------ *)

\* POST /auth/login: the address first
CheckIp(r, w, a, n) ==
  /\ req[r] = Idle
  /\ ~Locked(Redis, a)
  /\ req' = [req EXCEPT ![r] = [pc |-> "name", worker |-> w, ip |-> a, name |-> n]]
  /\ UNCHANGED <<attempts, lockout, over, faults, wrong>>

CheckName(r) ==
  /\ req[r].pc = "name"
  /\ IF Locked(Redis, req[r].name) THEN Leave(r) ELSE Goto(r, "verify")
  /\ UNCHANGED <<attempts, lockout, over, faults, wrong>>

\* No such user, no password, or another one
VerifyWrong(r) ==
  LET q == req[r] IN
  /\ q.pc = "verify"
  /\ wrong' = [k \in Keys |-> IF k \in {q.ip, q.name} THEN OneMore(wrong[k]) ELSE wrong[k]]
  /\ Goto(r, "failIp")
  /\ UNCHANGED <<attempts, lockout, over, faults>>

\* The right password; of a disabled account nothing is recorded
VerifyRight(r) ==
  /\ req[r].pc = "verify"
  /\ Goto(r, "success") \/ Leave(r)
  /\ UNCHANGED <<attempts, lockout, over, faults, wrong>>

\* record_failure_async, the pipeline of one key
Fail(r, k, atLimit, below) ==
  LET counted == OneMore(attempts[Redis][k]) IN
  /\ attempts' = [attempts EXCEPT ![Redis][k] = counted]
  /\ req' = [req EXCEPT ![r] = IF Reached(counted) THEN atLimit ELSE below]
  /\ UNCHANGED <<lockout, over, faults, wrong>>

\* setex
Lock(r, k, next) ==
  /\ lockout' = [lockout EXCEPT ![Redis][k] = LockTime]
  /\ req' = [req EXCEPT ![r] = next]
  /\ UNCHANGED <<attempts, over, faults, wrong>>

At(r, pc) == [req[r] EXCEPT !.pc = pc]

FailIp(r) == req[r].pc = "failIp" /\ Fail(r, req[r].ip, At(r, "lockIp"), At(r, "failName"))
LockIp(r) == req[r].pc = "lockIp" /\ Lock(r, req[r].ip, At(r, "failName"))
FailName(r) == req[r].pc = "failName" /\ Fail(r, req[r].name, At(r, "lockName"), Idle)
LockName(r) == req[r].pc = "lockName" /\ Lock(r, req[r].name, Idle)

\* Both keys of the request start anew, in one store
Cleared(s, q) ==
  /\ attempts' = [attempts EXCEPT ![s] =
                    [k \in Keys |-> IF k \in {q.ip, q.name} THEN <<>> ELSE @[k]]]
  /\ lockout' = [lockout EXCEPT ![s] =
                   [k \in Keys |-> IF k \in {q.ip, q.name} THEN 0 ELSE @[k]]]

Forgiven(q) == [k \in Keys |-> IF k \in {q.ip, q.name} THEN <<>> ELSE wrong[k]]

\* record_success_async: one pipeline; also an address others were locked out from
Succeed(r) ==
  /\ req[r].pc = "success"
  /\ Cleared(Redis, req[r])
  /\ wrong' = Forgiven(req[r])
  /\ Leave(r)
  /\ UNCHANGED <<over, faults>>

(* --------------------- a command of Redis failed ---------------------- *)

\* is_locked_out: a lockout that is over leaves with the failures of its key
Unlock(w, k) ==
  /\ attempts' = IF k \in over[w] THEN [attempts EXCEPT ![w][k] = <<>>] ELSE attempts
  /\ over' = [over EXCEPT ![w] = @ \ {k}]

CheckIpInMemory(r, w, a, n) ==
  /\ req[r] = Idle
  /\ ~Locked(w, a)
  /\ Unlock(w, a)
  /\ req' = [req EXCEPT ![r] = [pc |-> "name", worker |-> w, ip |-> a, name |-> n]]
  /\ UNCHANGED <<lockout, wrong>>

CheckNameInMemory(r) ==
  LET q == req[r] IN
  /\ q.pc = "name"
  /\ Unlock(q.worker, q.name)
  /\ IF Locked(q.worker, q.name) THEN Leave(r) ELSE Goto(r, "verify")
  /\ UNCHANGED <<lockout, wrong>>

\* record_failure: from the first key on, whatever Redis counted already; an address that
\* reaches the limit ends it, the name is not counted
FailInMemory(r) ==
  LET q == req[r]
      w == q.worker
      ofIp == OneMore(attempts[w][q.ip])
      ofName == OneMore(attempts[w][q.name])
  IN
  /\ q.pc \in {"failIp", "lockIp", "failName", "lockName"}
  /\ IF Reached(ofIp)
     THEN /\ attempts' = [attempts EXCEPT ![w][q.ip] = ofIp]
          /\ lockout' = [lockout EXCEPT ![w][q.ip] = LockTime]
          /\ over' = [over EXCEPT ![w] = @ \ {q.ip}]
     ELSE /\ attempts' = [attempts EXCEPT ![w][q.ip] = ofIp, ![w][q.name] = ofName]
          /\ lockout' = [lockout EXCEPT ![w][q.name] = IF Reached(ofName) THEN LockTime ELSE @]
          /\ over' = [over EXCEPT ![w] = IF Reached(ofName) THEN @ \ {q.name} ELSE @]
  /\ Leave(r)
  /\ UNCHANGED wrong

SucceedInMemory(r) ==
  /\ req[r].pc = "success"
  /\ Cleared(req[r].worker, req[r])
  /\ over' = [over EXCEPT ![req[r].worker] = @ \ {req[r].ip, req[r].name}]
  /\ Leave(r)
  /\ UNCHANGED wrong

Fault(r) ==
  /\ faults < MaxFaults
  /\ faults' = faults + 1
  /\ \/ \E w \in Workers, a \in Addresses, n \in Names : CheckIpInMemory(r, w, a, n)
     \/ CheckNameInMemory(r) \/ FailInMemory(r) \/ SucceedInMemory(r)

(* --------------------------- specification ---------------------------- *)

\* _clean: the newest stay, a tick older
Older(ages) == [i \in {j \in DOMAIN ages : ages[j] + 1 < Window} |-> ages[i] + 1]

\* Mutant: SET without EX
NoExpiry(s, k) == lockout[s][k]

Remaining(s, k) == IF Locked(s, k) THEN lockout[s][k] - 1 ELSE 0

\* What leaves the window is not counted again.  A lockout whose time is over is gone from
\* Redis; the memory keeps it until its key is asked for.
Tick ==
  /\ attempts' = [s \in Stores |-> [k \in Keys |-> Older(attempts[s][k])]]
  /\ lockout' = [s \in Stores |-> [k \in Keys |-> Remaining(s, k)]]
  /\ over' = [w \in Workers |-> over[w] \cup {k \in Keys : Locked(w, k) /\ lockout'[w][k] = 0}]
  /\ wrong' = [k \in Keys |-> Older(wrong[k])]
  /\ UNCHANGED <<req, faults>>

Next ==
  \/ Tick
  \/ \E r \in Slots :
       \/ \E w \in Workers, a \in Addresses, n \in Names : CheckIp(r, w, a, n)
       \/ CheckName(r) \/ VerifyWrong(r) \/ VerifyRight(r)
       \/ FailIp(r) \/ LockIp(r) \/ FailName(r) \/ LockName(r)
       \/ Succeed(r)
       \/ Fault(r)

\* Time passes; nobody is obliged to log in
Spec == Init /\ [][Next]_vars /\ WF_vars(Tick)

(* ----------------------------- properties ----------------------------- *)

\* In no window do more wrong passwords get through for an address or a name than the limit
\* and what else was in flight, however checks, counts and lockouts interleave; each failure
\* of Redis lets at most one more pass
TriesBounded ==
  \A k \in Keys : Len(wrong[k]) <= MaxAttempts + Cardinality(Slots) - 1 + faults

\* In Redis a key at the limit is locked, or the request that brought it there is about to lock
\* it, unless a command failed: no success, lockout or expiry in between leaves it open
LimitLocks ==
  \A k \in Keys : Reached(attempts[Redis][k]) =>
    \/ Locked(Redis, k)
    \/ \E r \in Slots : \/ req[r].pc = "lockIp" /\ req[r].ip = k
                        \/ req[r].pc = "lockName" /\ req[r].name = k
    \/ faults > 0

\* A lockout ends: what was in flight may renew it, but while it lasts nobody new gets far
\* enough to do so
LockoutEnds == \A k \in Keys : Locked(Redis, k) ~> ~Locked(Redis, k)

=============================================================================

-------------------------- MODULE LoginLimitsProofs --------------------------
(***************************************************************************)
(* The proofs about the login limiter: for any limit, window and lockout   *)
(* (at least as long as the window), any number of addresses, names,       *)
(* workers and requests in flight, and any number of failing commands.     *)
(***************************************************************************)
EXTENDS LoginLimits, FiniteSetTheorems, TLAPS

(* ------------------------- ages of failures --------------------------- *)

\* One failure more comes first and leaves the others in their order (zadd, append)
LEMMA OneMoreIs ==
  ASSUME NEW s \in Failures
  PROVE  /\ OneMore(s) \in Failures
         /\ Len(OneMore(s)) = Len(s) + 1
         /\ OneMore(s)[1] = 0
         /\ \A i \in 2 .. Len(s) + 1 : OneMore(s)[i] = s[i - 1]
<1> DEFINE t == OneMore(s)
<1>1. /\ s \in Seq(Ages) /\ 0 \in Ages /\ Len(s) \in Nat /\ DOMAIN s = 1 .. Len(s)
      /\ \A i \in 1 .. Len(s) : s[i] \in Nat
  BY LimitsAssumption DEF Failures, Ages
<1>2. t \in Seq(Ages) /\ Len(t) = Len(s) + 1 /\ t[1] = 0 /\ \A i \in 2 .. Len(s) + 1 : t[i] = s[i - 1]
  BY <1>1 DEF OneMore
<1>3. ASSUME NEW i \in DOMAIN t, NEW j \in DOMAIN t, i < j
      PROVE  t[i] <= t[j]
  <2>1. i \in 1 .. Len(s) + 1 /\ j \in 2 .. Len(s) + 1
    BY <1>1, <1>2, <1>3
  <2>2. t[j] = s[j - 1] /\ j - 1 \in DOMAIN s /\ s[j - 1] \in Nat
    BY <1>1, <1>2, <2>1
  <2>3. CASE i = 1
    BY <1>2, <2>2, <2>3
  <2>4. CASE i # 1
    <3>1. t[i] = s[i - 1] /\ i - 1 \in DOMAIN s /\ i - 1 < j - 1
      BY <1>1, <1>2, <1>3, <2>1, <2>4
    <3>2. QED BY <2>2, <3>1 DEF Failures
  <2>5. QED BY <2>3, <2>4
<1>4. QED BY <1>2, <1>3 DEF Failures

\* As time passes the oldest failures leave, and the others keep their places (_clean)
LEMMA OlderIs ==
  ASSUME NEW s \in Failures
  PROVE  /\ Older(s) \in Failures
         /\ Len(Older(s)) <= Len(s)
         /\ \A i \in 1 .. Len(s) : i <= Len(Older(s)) <=> s[i] + 1 < Window
         /\ \A i \in 1 .. Len(Older(s)) : Older(s)[i] = s[i] + 1
<1> DEFINE n == Len(s)
           kept == {j \in DOMAIN s : s[j] + 1 < Window}
           m == Cardinality(kept)
<1>1. s \in Seq(Ages) /\ n \in Nat /\ DOMAIN s = 1 .. n /\ Window \in Nat /\ \A i \in 1 .. n : s[i] \in Nat /\ s[i] < Window
  BY LimitsAssumption DEF Failures, Ages
<1>2. \A i, j \in 1 .. n : i < j => s[i] <= s[j]
  BY <1>1 DEF Failures
<1>3. IsFiniteSet(1 .. n) /\ Cardinality(1 .. n) = n
  BY <1>1, FS_Interval
<1>4. IsFiniteSet(kept) /\ m \in Nat /\ m <= n
  BY <1>1, <1>3, FS_Subset, FS_CardinalityType
<1>5. \A i \in 1 .. n : i <= m <=> i \in kept
  <2> SUFFICES ASSUME NEW i \in 1 .. n PROVE i <= m <=> i \in kept
    OBVIOUS
  <2>1. ASSUME i \in kept PROVE i <= m
    <3>1. 1 .. i \subseteq kept
      BY <1>1, <1>2, <2>1
    <3>2. IsFiniteSet(1 .. i) /\ Cardinality(1 .. i) = i
      BY FS_Interval
    <3>3. QED BY <1>4, <3>1, <3>2, FS_Subset
  <2>2. ASSUME i \notin kept PROVE ~(i <= m)
    <3>1. kept \subseteq 1 .. (i - 1)
      BY <1>1, <1>2, <2>2
    <3>2. IsFiniteSet(1 .. (i - 1)) /\ Cardinality(1 .. (i - 1)) = i - 1
      BY FS_Interval
    <3>3. m <= i - 1
      BY <3>1, <3>2, FS_Subset
    <3>4. QED BY <1>4, <3>3
  <2>3. QED BY <2>1, <2>2
<1> HIDE DEF m
<1>6. kept = 1 .. m
  <2>1. \A i : i \in kept <=> i \in 1 .. m
    BY <1>1, <1>4, <1>5
  <2>2. QED BY <2>1, Zenon
<1> DEFINE t == [i \in 1 .. m |-> s[i] + 1]
<1>7. Older(s) = t
  BY <1>6 DEF Older
<1>8. \A i \in 1 .. m : s[i] + 1 \in Ages
  BY <1>1, <1>4, <1>5 DEF Ages
<1>9. t \in Seq(Ages) /\ Len(t) = m /\ DOMAIN t = 1 .. m
  BY <1>4, <1>8
<1>10. \A i, j \in DOMAIN t : i < j => t[i] <= t[j]
  BY <1>1, <1>2, <1>4, <1>9
<1>11. t \in Failures
  BY <1>9, <1>10 DEF Failures
<1>12. QED BY <1>1, <1>4, <1>5, <1>7, <1>9, <1>11

\* No failures are failures
LEMMA NoFailures == <<>> \in Failures
BY DEF Failures

(* ------------------------ one key, in numbers ------------------------- *)

\* Redis has an attempt, counted no earlier, for each wrong password but the newest d
Matched(counted, tried, d) ==
  \A j \in 1 .. Len(tried) : j > d => j - d <= Len(counted) /\ counted[j - d] <= tried[j]

\* Of the attempts counted since the lockout was set, whose end is left ticks away, no more
\* than d reached the limit; with no lockout, of all attempts
Fresh(counted, left, d) ==
  \A i \in 1 .. Len(counted) : counted[i] < Lockout - left => i < MaxAttempts + d

\* How a key stands with t requests on their way to a password, u that have yet to count their
\* failure, l that are about to lock it, and n failed commands: of these f lost a failure and g
\* a lockout
Bounded(counted, tried, left, t, u, l, n) ==
  /\ \E f, g \in 0 .. n : f + g <= n /\ Matched(counted, tried, u + f) /\ Fresh(counted, left, l + g)
  /\ Len(tried) + t <= MaxAttempts - 1 + Cardinality(Slots) + n

\* What the numbers of a key are
Standing(counted, tried, left, t, u, l, n) ==
  /\ counted \in Failures /\ tried \in Failures /\ left \in 0 .. Lockout
  /\ t \in Nat /\ u \in Nat /\ l \in Nat /\ n \in Nat
  /\ t + u + l <= Cardinality(Slots)

\* The limits are numbers, and so is how long ago anything failed
LEMMA NumbersType ==
  /\ MaxAttempts \in Nat \ {0} /\ Window \in Nat \ {0} /\ Lockout \in Nat /\ Lockout >= Window
  /\ Cardinality(Slots) \in Nat
  /\ \A s \in Failures : Len(s) \in Nat /\ \A i \in 1 .. Len(s) : s[i] \in Nat /\ s[i] < Window
BY LimitsAssumption, SlotsAssumption, FS_CardinalityType DEF Failures, Ages

\* Whoever finds the key open may go on: there is room for one more try
LEMMA RoomForOne ==
  ASSUME NEW counted, NEW tried, NEW t, NEW u, NEW l, NEW n,
         Standing(counted, tried, 0, t, u, l, n), t + u + l + 1 <= Cardinality(Slots),
         Bounded(counted, tried, 0, t, u, l, n)
  PROVE  Bounded(counted, tried, 0, t + 1, u, l, n)
<1> USE NumbersType DEF Standing
<1>1. PICK f \in 0 .. n, g \in 0 .. n :
        f + g <= n /\ Matched(counted, tried, u + f) /\ Fresh(counted, 0, l + g)
  BY DEF Bounded
<1> DEFINE last == Len(tried)
<1>2. last \in Nat /\ last + t + 1 <= MaxAttempts - 1 + Cardinality(Slots) + n
  <2>1. CASE last <= u + f
    BY <1>1, <2>1
  <2>2. CASE last > u + f
    <3>1. last - (u + f) \in 1 .. Len(counted)
      BY <1>1, <2>2 DEF Matched
    <3>2. counted[last - (u + f)] < Lockout - 0
      BY <3>1
    <3>3. last - (u + f) < MaxAttempts + l + g
      BY <1>1, <3>1, <3>2 DEF Fresh
    <3>4. QED BY <1>1, <2>2, <3>3
  <2>3. QED BY <2>1, <2>2
<1>3. Len(tried) + (t + 1) <= MaxAttempts - 1 + Cardinality(Slots) + n
  BY <1>2
<1>4. QED BY <1>1, <1>3 DEF Bounded

\* A wrong password makes a try a failure yet to be counted
LEMMA TryFails ==
  ASSUME NEW counted, NEW tried, NEW left, NEW t, NEW u, NEW l, NEW n,
         Standing(counted, tried, left, t, u, l, n), t >= 1,
         Bounded(counted, tried, left, t, u, l, n)
  PROVE  Bounded(counted, OneMore(tried), left, t - 1, u + 1, l, n)
<1> USE NumbersType DEF Standing
<1>1. PICK f \in 0 .. n, g \in 0 .. n :
        f + g <= n /\ Matched(counted, tried, u + f) /\ Fresh(counted, left, l + g)
  BY DEF Bounded
<1>2. Len(OneMore(tried)) = Len(tried) + 1 /\ \A i \in 2 .. Len(tried) + 1 : OneMore(tried)[i] = tried[i - 1]
  BY OneMoreIs
<1>3. Matched(counted, OneMore(tried), u + 1 + f)
  <2> SUFFICES ASSUME NEW j \in 1 .. Len(tried) + 1, j > u + 1 + f
               PROVE  /\ j - (u + 1 + f) <= Len(counted)
                      /\ counted[j - (u + 1 + f)] <= OneMore(tried)[j]
    BY <1>2 DEF Matched
  <2>1. j - 1 \in 1 .. Len(tried) /\ j - 1 > u + f /\ OneMore(tried)[j] = tried[j - 1]
    BY <1>1, <1>2
  <2>2. (j - 1) - (u + f) <= Len(counted) /\ counted[(j - 1) - (u + f)] <= tried[j - 1]
    BY <1>1, <2>1 DEF Matched
  <2>3. (j - 1) - (u + f) = j - (u + 1 + f)
    BY <1>1
  <2>4. QED BY <2>1, <2>2, <2>3
<1>4. Len(OneMore(tried)) + (t - 1) <= MaxAttempts - 1 + Cardinality(Slots) + n
  BY <1>2 DEF Bounded
<1>5. QED BY <1>1, <1>3, <1>4 DEF Bounded

\* The failure is counted: below the limit, or by a request that will lock the key
LEMMA FailureCounted ==
  ASSUME NEW counted, NEW tried, NEW left, NEW t, NEW u, NEW l, NEW n, NEW m,
         Standing(counted, tried, left, t, u, l, n), u >= 1,
         Bounded(counted, tried, left, t, u, l, n),
         m = IF Reached(OneMore(counted)) THEN l + 1 ELSE l
  PROVE  Bounded(OneMore(counted), tried, left, t, u - 1, m, n)
<1> USE NumbersType DEF Standing
<1>1. PICK f \in 0 .. n, g \in 0 .. n :
        f + g <= n /\ Matched(counted, tried, u + f) /\ Fresh(counted, left, l + g)
  BY DEF Bounded
<1> DEFINE more == OneMore(counted)
<1>2. /\ Len(more) = Len(counted) + 1 /\ more[1] = 0
      /\ \A i \in 2 .. Len(counted) + 1 : more[i] = counted[i - 1]
  BY OneMoreIs
<1> HIDE DEF more
<1>3. Matched(more, tried, u - 1 + f)
  <2> SUFFICES ASSUME NEW j \in 1 .. Len(tried), j > u - 1 + f
               PROVE  j - (u - 1 + f) <= Len(more) /\ more[j - (u - 1 + f)] <= tried[j]
    BY DEF Matched
  <2>1. CASE j = u + f
    <3>1. j - (u - 1 + f) = 1
      BY <1>1, <2>1
    <3>2. QED BY <1>2, <3>1
  <2>2. CASE j > u + f
    <3>1. j - (u + f) <= Len(counted) /\ counted[j - (u + f)] <= tried[j]
      BY <1>1, <2>2 DEF Matched
    <3>2. j - (u - 1 + f) = j - (u + f) + 1 /\ j - (u + f) + 1 \in 2 .. Len(counted) + 1
      BY <1>1, <2>2, <3>1
    <3>3. more[j - (u + f) + 1] = counted[j - (u + f)]
      BY <1>1, <1>2, <3>2
    <3>4. QED BY <1>2, <3>1, <3>2, <3>3
  <2>3. QED BY <1>1, <2>1, <2>2
<1>4. Fresh(more, left, m + g)
  <2> SUFFICES ASSUME NEW i \in 1 .. Len(more), more[i] < Lockout - left
               PROVE  i < MaxAttempts + (m + g)
    BY DEF Fresh
  <2>1. CASE ~Reached(more)
    BY <1>1, <1>2, <2>1 DEF Reached, more
  <2>2. CASE Reached(more) /\ i = 1
    BY <1>1, <2>2 DEF more
  <2>3. CASE Reached(more) /\ i # 1
    <3>1. i - 1 \in 1 .. Len(counted) /\ counted[i - 1] < Lockout - left
      BY <1>2, <2>3
    <3>2. i - 1 < MaxAttempts + (l + g)
      BY <1>1, <3>1 DEF Fresh
    <3>3. QED BY <1>1, <2>3, <3>1, <3>2 DEF more
  <2>4. QED BY <2>1, <2>2, <2>3
<1>5. QED BY <1>1, <1>3, <1>4 DEF Bounded, more

\* The lockout is set: it starts with no attempt counted since
LEMMA LockSet ==
  ASSUME NEW counted, NEW tried, NEW left, NEW t, NEW u, NEW l, NEW n,
         Standing(counted, tried, left, t, u, l, n), l >= 1,
         Bounded(counted, tried, left, t, u, l, n)
  PROVE  Bounded(counted, tried, LockTime, t, u, l - 1, n)
<1> USE NumbersType DEF Standing
<1>1. PICK f \in 0 .. n, g \in 0 .. n :
        f + g <= n /\ Matched(counted, tried, u + f) /\ Fresh(counted, left, l + g)
  BY DEF Bounded
<1>2. Fresh(counted, LockTime, l - 1 + g)
  BY DEF Fresh, LockTime
<1>3. QED BY <1>1, <1>2 DEF Bounded

\* A success starts anew
LEMMA StartsAnew ==
  ASSUME NEW t, NEW u, NEW l, NEW n, Standing(<<>>, <<>>, 0, t, u, l, n)
  PROVE  Bounded(<<>>, <<>>, 0, t, u, l, n)
<1> USE NumbersType DEF Standing
<1>1. Matched(<<>>, <<>>, u + 0) /\ Fresh(<<>>, 0, l + 0)
  BY DEF Matched, Fresh
<1>2. 0 \in 0 .. n /\ 0 + 0 <= n /\ Len(<<>>) + t <= MaxAttempts - 1 + Cardinality(Slots) + n
  OBVIOUS
<1>3. QED BY <1>1, <1>2 DEF Bounded

\* A request that gives up its try changes nothing
LEMMA TryGivenUp ==
  ASSUME NEW counted, NEW tried, NEW left, NEW t, NEW u, NEW l, NEW n,
         Standing(counted, tried, left, t, u, l, n), t >= 1,
         Bounded(counted, tried, left, t, u, l, n)
  PROVE  Bounded(counted, tried, left, t - 1, u, l, n)
<1>1. Len(tried) + (t - 1) <= MaxAttempts - 1 + Cardinality(Slots) + n
  BY NumbersType DEF Standing, Bounded
<1>2. QED BY <1>1 DEF Bounded

\* A command fails: a try that should not have been let in, a failure that is not counted, a
\* lockout that is not set, or nothing of the key at all
LEMMA CommandFails ==
  ASSUME NEW counted, NEW tried, NEW left, NEW t, NEW u, NEW l, NEW n,
         NEW t2 \in Nat, NEW u2 \in Nat, NEW l2 \in Nat,
         Standing(counted, tried, left, t, u, l, n), 
         Bounded(counted, tried, left, t, u, l, n),
         \/ t2 <= t + 1 /\ u2 = u /\ l2 = l
         \/ t2 = t /\ u2 = u - 1 /\ l2 = l
         \/ t2 = t /\ u2 = u /\ l2 = l - 1
  PROVE  Bounded(counted, tried, left, t2, u2, l2, n + 1)
<1> USE NumbersType DEF Standing
<1>1. PICK f \in 0 .. n, g \in 0 .. n :
        f + g <= n /\ Matched(counted, tried, u + f) /\ Fresh(counted, left, l + g)
  BY DEF Bounded
<1>2. Len(tried) + t2 <= MaxAttempts - 1 + Cardinality(Slots) + (n + 1)
  BY DEF Bounded
<1>3. CASE u2 = u /\ l2 = l
  <2>1. f \in 0 .. n + 1 /\ g \in 0 .. n + 1 /\ f + g <= n + 1
    BY <1>1
  <2>2. Matched(counted, tried, u2 + f) /\ Fresh(counted, left, l2 + g)
    BY <1>1, <1>3
  <2>3. QED BY <1>2, <2>1, <2>2 DEF Bounded
<1>4. CASE u2 = u - 1 /\ l2 = l
  <2>1. u2 + (f + 1) = u + f /\ f + 1 \in 0 .. n + 1 /\ g \in 0 .. n + 1 /\ (f + 1) + g <= n + 1
    BY <1>1, <1>4
  <2>2. Matched(counted, tried, u2 + (f + 1)) /\ Fresh(counted, left, l2 + g)
    BY <1>1, <1>4, <2>1
  <2>3. QED BY <1>2, <2>1, <2>2 DEF Bounded
<1>5. CASE u2 = u /\ l2 = l - 1
  <2>1. l2 + (g + 1) = l + g /\ f \in 0 .. n + 1 /\ g + 1 \in 0 .. n + 1 /\ f + (g + 1) <= n + 1
    BY <1>1, <1>5
  <2>2. Matched(counted, tried, u2 + f) /\ Fresh(counted, left, l2 + (g + 1))
    BY <1>1, <1>5, <2>1
  <2>3. QED BY <1>2, <2>1, <2>2 DEF Bounded
<1>6. QED BY <1>3, <1>4, <1>5

\* Time passes: a wrong password does not outlive the attempt it is matched with, and the
\* lockout outlives all that was counted before it
LEMMA TimePasses ==
  ASSUME NEW counted, NEW tried, NEW left, NEW rest, NEW t, NEW u, NEW l, NEW n,
         Standing(counted, tried, left, t, u, l, n),
         rest = IF left > 0 THEN left - 1 ELSE 0,
         Bounded(counted, tried, left, t, u, l, n)
  PROVE  Bounded(Older(counted), Older(tried), rest, t, u, l, n)
<1> USE NumbersType DEF Standing
<1>1. PICK f \in 0 .. n, g \in 0 .. n :
        f + g <= n /\ Matched(counted, tried, u + f) /\ Fresh(counted, left, l + g)
  BY DEF Bounded
<1> DEFINE c == Older(counted)
           w == Older(tried)
           d == u + f
<1>2. /\ c \in Failures /\ Len(c) <= Len(counted)
      /\ \A i \in 1 .. Len(counted) : i <= Len(c) <=> counted[i] + 1 < Window
      /\ \A i \in 1 .. Len(c) : c[i] = counted[i] + 1
  BY OlderIs
<1>3. /\ w \in Failures /\ Len(w) <= Len(tried)
      /\ \A i \in 1 .. Len(tried) : i <= Len(w) <=> tried[i] + 1 < Window
      /\ \A i \in 1 .. Len(w) : w[i] = tried[i] + 1
  BY OlderIs
<1> HIDE DEF c, w
<1>4. Matched(c, w, d)
  <2> SUFFICES ASSUME NEW j \in 1 .. Len(w), j > d
               PROVE  j - d <= Len(c) /\ c[j - d] <= w[j]
    BY DEF Matched
  <2>1. j \in 1 .. Len(tried) /\ tried[j] + 1 < Window /\ w[j] = tried[j] + 1
    BY <1>3
  <2> DEFINE i == j - d
  <2>2. i \in 1 .. Len(counted) /\ counted[i] <= tried[j]
    BY <1>1, <2>1 DEF Matched
  <2> HIDE DEF i
  <2>3. counted[i] \in Nat /\ tried[j] \in Nat
    BY <2>1, <2>2
  <2>4. i <= Len(c) /\ i \in 1 .. Len(c)
    <3>1. counted[i] + 1 < Window
      <4>1. \A x, y, z \in Nat : x <= y /\ y + 1 < z => x + 1 < z
        OBVIOUS
      <4>2. QED BY <2>1, <2>2, <2>3, <4>1
    <3>2. i <= Len(c)
      BY <1>2, <2>2, <3>1
    <3>3. Len(c) \in Nat /\ Len(counted) \in Nat
      BY <1>2
    <3>4. QED BY <2>2, <3>2, <3>3
  <2>5. c[i] = counted[i] + 1
    BY <1>2, <2>4
  <2>6. i <= Len(c) /\ c[i] <= w[j]
    <3>1. c[i] <= tried[j] + 1
      BY <2>2, <2>3, <2>5
    <3>2. QED BY <2>1, <2>4, <3>1
  <2>7. QED BY <2>6 DEF i
<1>5. Fresh(c, rest, l + g)
  <2> SUFFICES ASSUME NEW i \in 1 .. Len(c), c[i] < Lockout - rest
               PROVE  i < MaxAttempts + (l + g)
    BY DEF Fresh
  <2>1. i \in 1 .. Len(counted) /\ c[i] = counted[i] + 1 /\ counted[i] + 1 < Window
    BY <1>2
  <2>2. counted[i] < Lockout - left
    BY <2>1
  <2>3. QED BY <1>1, <2>1, <2>2 DEF Fresh
<1>6. Len(w) + t <= MaxAttempts - 1 + Cardinality(Slots) + n
  BY <1>3 DEF Bounded
<1>7. QED BY <1>1, <1>4, <1>5, <1>6 DEF Bounded, c, w

(* ------------------------------- types -------------------------------- *)

\* What is written for one key of one store
LEMMA Written ==
  ASSUME NEW S, NEW f \in [Stores -> [Keys -> S]], NEW s \in Stores, NEW k \in Keys, NEW v \in S
  PROVE  [f EXCEPT ![s][k] = v] \in [Stores -> [Keys -> S]]
OBVIOUS

\* The ages of failures are ages, newest first, in Redis and in every worker's memory; a
\* lockout never lasts longer than LOCKOUT_SECONDS
LEMMA TypeStep == TypeOK /\ [Next]_vars => TypeOK'
<1> SUFFICES ASSUME TypeOK, [Next]_vars PROVE TypeOK'
  OBVIOUS
<1>1. /\ Redis \in Stores /\ Workers \subseteq Stores
      /\ Addresses \subseteq Keys /\ Names \subseteq Keys
      /\ 0 \in 0 .. Lockout /\ LockTime \in 0 .. Lockout
  BY LimitsAssumption DEF Stores, Keys, LockTime
<1>2. \A s \in Failures : OneMore(s) \in Failures /\ Older(s) \in Failures
  BY OneMoreIs, OlderIs
<1>3. <<>> \in Failures
  BY NoFailures
<1>4. \A q \in InFlight : q.worker \in Workers /\ q.ip \in Addresses /\ q.name \in Names
  BY DEF InFlight
<1>5. \A r \in Slots : req[r].pc # "idle" => req[r] \in InFlight
  BY DEF TypeOK, InFlight, Idle
<1>6. CASE Tick
  <2>1. attempts' \in [Stores -> [Keys -> Failures]] /\ wrong' \in [Keys -> Failures]
    BY <1>2, <1>6 DEF Tick, TypeOK
  <2>2. \A s \in Stores, k \in Keys : Remaining(s, k) \in 0 .. Lockout
    BY LimitsAssumption DEF TypeOK, Remaining, Locked
  <2>3. lockout' \in [Stores -> [Keys -> 0 .. Lockout]]
    BY <1>6, <2>2 DEF Tick
  <2>4. over' \in [Workers -> SUBSET Keys]
    BY <1>6 DEF Tick, TypeOK
  <2>5. QED BY <1>6, <2>1, <2>3, <2>4 DEF Tick, TypeOK
<1>7. ASSUME NEW r \in Slots, NEW w \in Workers, NEW a \in Addresses, NEW n \in Names, CheckIp(r, w, a, n)
      PROVE  TypeOK'
  <2>1. [pc |-> "name", worker |-> w, ip |-> a, name |-> n] \in InFlight
    BY DEF InFlight
  <2>2. QED BY <1>7, <2>1 DEF CheckIp, TypeOK
<1>8. ASSUME NEW r \in Slots, CheckName(r) \/ VerifyRight(r) PROVE TypeOK'
  <2>1. req[r] \in InFlight
    BY <1>5, <1>8 DEF CheckName, VerifyRight
  <2>2. \A pc \in {"verify", "success"} : [req[r] EXCEPT !.pc = pc] \in InFlight
    BY <2>1 DEF InFlight
  <2>3. req' \in [Slots -> InFlight \cup {Idle}]
    BY <1>8, <2>2 DEF CheckName, VerifyRight, Goto, Leave, TypeOK
  <2>4. QED BY <1>8, <2>3 DEF CheckName, VerifyRight, TypeOK
<1>9. ASSUME NEW r \in Slots, VerifyWrong(r) PROVE TypeOK'
  <2>1. req[r] \in InFlight
    BY <1>5, <1>9 DEF VerifyWrong
  <2>2. [req[r] EXCEPT !.pc = "failIp"] \in InFlight
    BY <2>1 DEF InFlight
  <2>3. req' \in [Slots -> InFlight \cup {Idle}]
    BY <1>9, <2>2 DEF VerifyWrong, Goto, TypeOK
  <2>4. wrong' \in [Keys -> Failures]
    BY <1>2, <1>9 DEF VerifyWrong, TypeOK
  <2>5. QED BY <1>9, <2>3, <2>4 DEF VerifyWrong, TypeOK
<1>10. ASSUME NEW r \in Slots, FailIp(r) \/ FailName(r) PROVE TypeOK'
  <2>1. req[r] \in InFlight
    BY <1>5, <1>10 DEF FailIp, FailName
  <2>2. At(r, "lockIp") \in InFlight /\ At(r, "failName") \in InFlight /\ At(r, "lockName") \in InFlight
    BY <2>1 DEF InFlight, At
  <2>3. PICK k \in Keys, x \in InFlight, y \in InFlight \cup {Idle} : Fail(r, k, x, y)
    BY <1>1, <1>4, <1>10, <2>1, <2>2 DEF FailIp, FailName
  <2>4. OneMore(attempts[Redis][k]) \in Failures
    BY <1>1, <1>2 DEF TypeOK
  <2>5. attempts' \in [Stores -> [Keys -> Failures]]
    BY <2>3, <2>4, <1>1 DEF Fail, TypeOK
  <2>6. req' \in [Slots -> InFlight \cup {Idle}]
    BY <2>3 DEF Fail, TypeOK
  <2>7. QED BY <2>3, <2>5, <2>6 DEF Fail, TypeOK
<1>11. ASSUME NEW r \in Slots, LockIp(r) \/ LockName(r) PROVE TypeOK'
  <2>1. req[r] \in InFlight
    BY <1>5, <1>11 DEF LockIp, LockName
  <2>2. At(r, "failName") \in InFlight
    BY <2>1 DEF InFlight, At
  <2>3. PICK k \in Keys, x \in InFlight \cup {Idle} : Lock(r, k, x)
    BY <1>1, <1>4, <1>11, <2>1, <2>2 DEF LockIp, LockName
  <2>4. lockout' \in [Stores -> [Keys -> 0 .. Lockout]]
    BY <1>1, <2>3 DEF Lock, TypeOK
  <2>5. req' \in [Slots -> InFlight \cup {Idle}]
    BY <2>3 DEF Lock, TypeOK
  <2>6. QED BY <2>3, <2>4, <2>5 DEF Lock, TypeOK
<1>12. ASSUME NEW s \in Stores, NEW q, Cleared(s, q)
       PROVE  attempts' \in [Stores -> [Keys -> Failures]] /\ lockout' \in [Stores -> [Keys -> 0 .. Lockout]]
  <2>1. [k \in Keys |-> IF k \in {q.ip, q.name} THEN <<>> ELSE attempts[s][k]] \in [Keys -> Failures]
    BY <1>3 DEF TypeOK
  <2>2. [k \in Keys |-> IF k \in {q.ip, q.name} THEN 0 ELSE lockout[s][k]] \in [Keys -> 0 .. Lockout]
    BY <1>1 DEF TypeOK
  <2>3. QED BY <1>12, <2>1, <2>2 DEF Cleared, TypeOK
<1>13. ASSUME NEW r \in Slots, Succeed(r) PROVE TypeOK'
  <2>1. attempts' \in [Stores -> [Keys -> Failures]] /\ lockout' \in [Stores -> [Keys -> 0 .. Lockout]]
    BY <1>1, <1>12, <1>13 DEF Succeed
  <2>2. wrong' \in [Keys -> Failures]
    BY <1>3, <1>13 DEF Succeed, Forgiven, TypeOK
  <2>3. QED BY <1>13, <2>1, <2>2 DEF Succeed, Leave, TypeOK
<1>14. ASSUME NEW r \in Slots, Fault(r) PROVE TypeOK'
  <2>1. faults' \in 0 .. MaxFaults
    BY <1>14, LimitsAssumption DEF Fault, TypeOK
  <2>2. ASSUME NEW w \in Workers, NEW k \in Keys, Unlock(w, k)
        PROVE  attempts' \in [Stores -> [Keys -> Failures]] /\ over' \in [Workers -> SUBSET Keys]
    BY <1>1, <1>3, <2>2 DEF Unlock, TypeOK
  <2>3. ASSUME NEW w \in Workers, NEW a \in Addresses, NEW n \in Names, CheckIpInMemory(r, w, a, n)
        PROVE  TypeOK'
    <3>1. [pc |-> "name", worker |-> w, ip |-> a, name |-> n] \in InFlight
      BY DEF InFlight
    <3>2. req' \in [Slots -> InFlight \cup {Idle}]
      BY <2>3, <3>1 DEF CheckIpInMemory, TypeOK
    <3>3. QED BY <1>1, <2>1, <2>2, <2>3, <3>2 DEF CheckIpInMemory, TypeOK
  <2>4. CASE CheckNameInMemory(r)
    <3>1. req[r] \in InFlight
      BY <1>5, <2>4 DEF CheckNameInMemory
    <3>2. [req[r] EXCEPT !.pc = "verify"] \in InFlight
      BY <3>1 DEF InFlight
    <3>3. req' \in [Slots -> InFlight \cup {Idle}]
      BY <2>4, <3>2 DEF CheckNameInMemory, Goto, Leave, TypeOK
    <3>4. Unlock(req[r].worker, req[r].name) /\ req[r].worker \in Workers /\ req[r].name \in Keys
      BY <1>1, <1>4, <2>4, <3>1 DEF CheckNameInMemory
    <3>5. QED BY <2>1, <2>2, <2>4, <3>3, <3>4 DEF CheckNameInMemory, TypeOK
  <2>5. CASE FailInMemory(r)
    <3> DEFINE q == req[r]
               w == q.worker
               ofIp == OneMore(attempts[w][q.ip])
               ofName == OneMore(attempts[w][q.name])
    <3>1. q \in InFlight
      BY <1>5, <2>5 DEF FailInMemory
    <3>2. w \in Workers /\ w \in Stores /\ q.ip \in Keys /\ q.name \in Keys
      BY <1>1, <1>4, <3>1
    <3>3. ofIp \in Failures /\ ofName \in Failures
      BY <1>2, <3>2 DEF TypeOK
    <3>4. attempts' \in [Stores -> [Keys -> Failures]]
      <4>1. \/ attempts' = [attempts EXCEPT ![w][q.ip] = ofIp]
            \/ attempts' = [attempts EXCEPT ![w][q.ip] = ofIp, ![w][q.name] = ofName]
        BY <2>5 DEF FailInMemory
      <4>2. QED BY <3>2, <3>3, <4>1 DEF TypeOK
    <3>5. lockout' \in [Stores -> [Keys -> 0 .. Lockout]]
      <4> DEFINE left == IF Reached(ofName) THEN LockTime ELSE lockout[w][q.name]
      <4>1. \/ lockout' = [lockout EXCEPT ![w][q.ip] = LockTime]
            \/ lockout' = [lockout EXCEPT ![w][q.name] = left]
        BY <2>5 DEF FailInMemory
      <4>2. left \in 0 .. Lockout
        BY <1>1, <3>2 DEF TypeOK
      <4> HIDE DEF left
      <4>3. \A k \in Keys, v \in 0 .. Lockout :
              [lockout EXCEPT ![w][k] = v] \in [Stores -> [Keys -> 0 .. Lockout]]
        BY <3>2, Written DEF TypeOK
      <4>4. QED BY <1>1, <3>2, <4>1, <4>2, <4>3
    <3>6. over' \in [Workers -> SUBSET Keys]
      <4>1. \/ over' = [over EXCEPT ![w] = @ \ {q.ip}]
            \/ over' = [over EXCEPT ![w] = @ \ {q.name}]
            \/ over' = [over EXCEPT ![w] = @]
        BY <2>5 DEF FailInMemory
      <4>2. QED BY <3>2, <4>1 DEF TypeOK
    <3>7. QED BY <2>1, <2>5, <3>4, <3>5, <3>6 DEF FailInMemory, Leave, TypeOK
  <2>6. CASE SucceedInMemory(r)
    <3>1. req[r] \in InFlight
      BY <1>5, <2>6 DEF SucceedInMemory
    <3>2. req[r].worker \in Workers /\ req[r].worker \in Stores
      BY <1>1, <1>4, <3>1
    <3>3. attempts' \in [Stores -> [Keys -> Failures]] /\ lockout' \in [Stores -> [Keys -> 0 .. Lockout]]
      BY <1>12, <2>6, <3>2 DEF SucceedInMemory
    <3>4. over' \in [Workers -> SUBSET Keys]
      BY <2>6, <3>2 DEF SucceedInMemory, TypeOK
    <3>5. QED BY <2>1, <2>6, <3>3, <3>4 DEF SucceedInMemory, Leave, TypeOK
  <2>7. QED BY <1>14, <2>3, <2>4, <2>5, <2>6 DEF Fault
<1>15. CASE UNCHANGED vars
  BY <1>15 DEF vars, TypeOK
<1>16. QED BY <1>6, <1>7, <1>8, <1>9, <1>10, <1>11, <1>13, <1>14, <1>15 DEF Next

\* TypeOK always holds: failures stay in order, lockouts within their length, and every request
\* carries what its step needs
THEOREM TypeCorrect == Spec => []TypeOK
<1>1. Init => TypeOK
  BY LimitsAssumption, NoFailures DEF Init, TypeOK, InFlight, Idle, Stores
<1>2. QED BY <1>1, TypeStep, PTL DEF Spec

(* --------------------------- the invariant ---------------------------- *)

\* How far a request got with a key
Stage(q, k) ==
  IF \/ q.pc \in {"name", "verify"} /\ q.ip = k
     \/ q.pc = "verify" /\ q.name = k
  THEN "trying"
  ELSE IF \/ q.pc = "failIp" /\ q.ip = k
          \/ q.pc \in {"failIp", "lockIp", "failName"} /\ q.name = k
  THEN "uncounted"
  ELSE IF \/ q.pc = "lockIp" /\ q.ip = k
          \/ q.pc = "lockName" /\ q.name = k
  THEN "locking"
  ELSE "none"

\* The requests at that stage of a key, and how many they are
Those(rq, s, k) == {r \in Slots : Stage(rq[r], k) = s}
HowMany(rq, s, k) == Cardinality(Those(rq, s, k))

\* A key of the limiter, the one in Redis
KeyInv(k) ==
  Bounded(attempts[Redis][k], wrong[k], lockout[Redis][k],
          HowMany(req, "trying", k), HowMany(req, "uncounted", k), HowMany(req, "locking", k), faults)

\* What is inductive
LimitsInv == TypeOK /\ \A k \in Keys : KeyInv(k)

\* Two finite sets without a common element
LEMMA DisjointSum ==
  ASSUME NEW S, NEW T, IsFiniteSet(S), IsFiniteSet(T), S \cap T = {}
  PROVE  /\ Cardinality(S) \in Nat /\ Cardinality(T) \in Nat
         /\ Cardinality(S \cup T) = Cardinality(S) + Cardinality(T)
<1>1. Cardinality(S) \in Nat /\ Cardinality(T) \in Nat
  BY FS_CardinalityType
<1>2. Cardinality(S \cup T) = Cardinality(S) + Cardinality(T) - Cardinality({})
  BY FS_Union
<1>3. Cardinality({}) = 0
  BY FS_EmptySet
<1>4. QED BY <1>1, <1>2, <1>3

\* A request is at one stage at a time
LEMMA Shares ==
  ASSUME NEW rq, NEW k
  PROVE  /\ HowMany(rq, "trying", k) + HowMany(rq, "uncounted", k) + HowMany(rq, "locking", k)
              <= Cardinality(Slots)
         /\ \A r \in Slots : Stage(rq[r], k) = "none" =>
              HowMany(rq, "trying", k) + HowMany(rq, "uncounted", k) + HowMany(rq, "locking", k) + 1
                <= Cardinality(Slots)
<1> DEFINE t == Those(rq, "trying", k)
           u == Those(rq, "uncounted", k)
           l == Those(rq, "locking", k)
           all == t \cup u \cup l
<1>1. t \subseteq Slots /\ u \subseteq Slots /\ l \subseteq Slots
  BY DEF Those
<1>2. t \cap u = {} /\ (t \cup u) \cap l = {}
  BY DEF Those
<1>3. IsFiniteSet(t) /\ IsFiniteSet(u) /\ IsFiniteSet(l) /\ IsFiniteSet(t \cup u) /\ IsFiniteSet(all)
  BY <1>1, SlotsAssumption, FS_Subset
<1>4. Cardinality(t \cup u) = Cardinality(t) + Cardinality(u)
  BY <1>2, <1>3, DisjointSum
<1>5. Cardinality(all) = Cardinality(t) + Cardinality(u) + Cardinality(l)
  BY <1>2, <1>3, <1>4, DisjointSum
<1>6. Cardinality(all) <= Cardinality(Slots)
  BY <1>1, SlotsAssumption, FS_Subset
<1>7. ASSUME NEW r \in Slots, Stage(rq[r], k) = "none"
      PROVE  Cardinality(all) + 1 <= Cardinality(Slots)
  <2>1. r \notin all /\ all \cup {r} \subseteq Slots
    BY <1>1, <1>7 DEF Those
  <2>2. Cardinality(all \cup {r}) = Cardinality(all) + 1
    BY <1>3, <2>1, FS_AddElement
  <2>3. QED BY <2>1, <2>2, SlotsAssumption, FS_Subset
<1>8. QED BY <1>5, <1>6, <1>7 DEF HowMany

\* Where a request is with the address and the name it brings
LEMMA StageIs ==
  ASSUME NEW q, NEW k \in Keys
  PROVE  /\ Stage(Idle, k) = "none"
         /\ q \in InFlight =>
              /\ q.ip \in Keys /\ q.name \in Keys /\ q.ip # q.name
              /\ q.pc = "name" => Stage(q, k) = IF k = q.ip THEN "trying" ELSE "none"
              /\ q.pc = "verify" => Stage(q, k) = IF k \in {q.ip, q.name} THEN "trying" ELSE "none"
              /\ q.pc = "success" => Stage(q, k) = "none"
              /\ q.pc = "failIp" => Stage(q, k) = IF k \in {q.ip, q.name} THEN "uncounted" ELSE "none"
              /\ q.pc = "lockIp" => Stage(q, k) = IF k = q.ip THEN "locking"
                                                  ELSE IF k = q.name THEN "uncounted" ELSE "none"
              /\ q.pc = "failName" => Stage(q, k) = IF k = q.name THEN "uncounted" ELSE "none"
              /\ q.pc = "lockName" => Stage(q, k) = IF k = q.name THEN "locking" ELSE "none"
<1>1. Stage(Idle, k) = "none"
  BY DEF Stage, Idle
<1>2. ASSUME q \in InFlight PROVE q.ip \in Keys /\ q.name \in Keys /\ q.ip # q.name
  BY <1>2, KeysAssumption DEF InFlight, Keys
<1>3. QED BY <1>1, <1>2 DEF Stage

\* The numbers of a key are numbers
LEMMA KeyStands ==
  ASSUME TypeOK, NEW k \in Keys
  PROVE  Standing(attempts[Redis][k], wrong[k], lockout[Redis][k],
                  HowMany(req, "trying", k), HowMany(req, "uncounted", k), HowMany(req, "locking", k),
                  faults)
<1>1. \A s : HowMany(req, s, k) \in Nat
  <2>1. \A s : Those(req, s, k) \subseteq Slots
    BY DEF Those
  <2>2. QED BY <2>1, SlotsAssumption, FS_Subset, FS_CardinalityType DEF HowMany
<1>2. Redis \in Stores
  BY DEF Stores
<1>3. QED BY <1>1, <1>2, Shares DEF TypeOK, Standing

\* The request in slot r becomes q and no other moves
OnlyMoves(r, q) == req'[r] = q /\ \A o \in Slots \ {r} : req'[o] = req[o]

\* Then every key keeps its numbers but for the stage of this request
LEMMA NumbersMove ==
  ASSUME NEW r \in Slots, NEW q, OnlyMoves(r, q), NEW s, NEW k
  PROVE  /\ HowMany(req, s, k) \in Nat /\ HowMany(req', s, k) \in Nat
         /\ Stage(q, k) = Stage(req[r], k) => HowMany(req', s, k) = HowMany(req, s, k)
         /\ Stage(q, k) = s /\ Stage(req[r], k) # s => HowMany(req', s, k) = HowMany(req, s, k) + 1
         /\ Stage(q, k) # s /\ Stage(req[r], k) = s => HowMany(req', s, k) = HowMany(req, s, k) - 1
         /\ Stage(q, k) # s /\ Stage(req[r], k) # s => HowMany(req', s, k) = HowMany(req, s, k)
<1> DEFINE rest == {o \in Slots \ {r} : Stage(req[o], k) = s}
<1>1. IsFiniteSet(rest) /\ r \notin rest
  <2>1. rest \subseteq Slots
    OBVIOUS
  <2>2. QED BY <2>1, SlotsAssumption, FS_Subset
<1>2. Cardinality(rest) \in Nat /\ Cardinality(rest \cup {r}) = Cardinality(rest) + 1
  BY <1>1, FS_CardinalityType, FS_AddElement
<1>3. Those(req, s, k) = IF Stage(req[r], k) = s THEN rest \cup {r} ELSE rest
  BY DEF Those
<1>4. Those(req', s, k) = IF Stage(q, k) = s THEN rest \cup {r} ELSE rest
  BY DEF Those, OnlyMoves
<1>5. QED BY <1>2, <1>3, <1>4 DEF HowMany

\* A login from an open address: room for one more try from there
LEMMA CheckIpKeeps ==
  ASSUME LimitsInv, NEW r \in Slots, NEW w \in Workers, NEW a \in Addresses, NEW n \in Names, NEW k \in Keys,
         CheckIp(r, w, a, n)
  PROVE  KeyInv(k)'
<1> DEFINE q == [pc |-> "name", worker |-> w, ip |-> a, name |-> n]
<1>1. TypeOK /\ KeyInv(k)
  BY DEF LimitsInv
<1>2. /\ OnlyMoves(r, q)
      /\ attempts' = attempts /\ lockout' = lockout /\ wrong' = wrong /\ faults' = faults
  BY <1>1 DEF CheckIp, OnlyMoves, TypeOK
<1>3. q \in InFlight /\ q.ip = a /\ q.pc = "name"
  BY DEF InFlight
<1>4. Stage(req[r], k) = "none" /\ Stage(q, k) = IF k = a THEN "trying" ELSE "none"
  BY <1>3, StageIs DEF CheckIp
<1> HIDE DEF q
<1>5. CASE k = a
  <2>1. /\ HowMany(req', "trying", k) = HowMany(req, "trying", k) + 1
        /\ HowMany(req', "uncounted", k) = HowMany(req, "uncounted", k)
        /\ HowMany(req', "locking", k) = HowMany(req, "locking", k)
    BY <1>1, <1>2, <1>4, <1>5, NumbersMove
  <2>2. lockout[Redis][k] = 0
    <3>1. lockout[Redis][k] \in 0 .. Lockout
      BY <1>1, KeyStands DEF Standing
    <3>2. QED BY <1>5, <3>1, NumbersType DEF CheckIp, Locked
  <2>3. HowMany(req, "trying", k) + HowMany(req, "uncounted", k) + HowMany(req, "locking", k) + 1
          <= Cardinality(Slots)
    BY <1>4, Shares
  <2>4. QED BY <1>1, <1>2, <2>1, <2>2, <2>3, KeyStands, RoomForOne DEF KeyInv
<1>6. CASE k # a
  <2>1. \A s : HowMany(req', s, k) = HowMany(req, s, k)
    BY <1>1, <1>2, <1>4, <1>6, NumbersMove
  <2>2. QED BY <1>1, <1>2, <2>1 DEF KeyInv
<1>7. QED BY <1>5, <1>6

\* The name is locked and the try is given up, or open and there is room for one more
LEMMA CheckNameKeeps ==
  ASSUME LimitsInv, NEW r \in Slots, NEW k \in Keys, CheckName(r)
  PROVE  KeyInv(k)'
<1> DEFINE q == req[r]
           next == IF Locked(Redis, q.name) THEN Idle ELSE [q EXCEPT !.pc = "verify"]
<1>1. TypeOK /\ KeyInv(k) /\ q.pc = "name"
  BY DEF LimitsInv, CheckName
<1>2. /\ OnlyMoves(r, next)
      /\ attempts' = attempts /\ lockout' = lockout /\ wrong' = wrong /\ faults' = faults
  BY <1>1 DEF CheckName, Goto, Leave, OnlyMoves, TypeOK
<1>3. q \in InFlight
  BY <1>1 DEF TypeOK, InFlight, Idle
<1>4. Stage(q, k) = IF k = q.ip THEN "trying" ELSE "none"
  BY <1>1, <1>3, StageIs
<1>5. CASE Locked(Redis, q.name)
  <2>1. Stage(next, k) = "none"
    BY <1>5, StageIs
  <2> HIDE DEF next
  <2>2. CASE k = q.ip
    <3>1. /\ HowMany(req, "trying", k) \in Nat /\ HowMany(req', "trying", k) \in Nat
          /\ HowMany(req', "trying", k) = HowMany(req, "trying", k) - 1
          /\ HowMany(req', "uncounted", k) = HowMany(req, "uncounted", k)
          /\ HowMany(req', "locking", k) = HowMany(req, "locking", k)
      BY <1>1, <1>2, <1>4, <2>1, <2>2, NumbersMove
    <3>2. HowMany(req, "trying", k) >= 1
      BY <3>1
    <3>3. QED BY <1>1, <1>2, <3>1, <3>2, KeyStands, TryGivenUp DEF KeyInv
  <2>3. CASE k # q.ip
    <3>1. \A s : HowMany(req', s, k) = HowMany(req, s, k)
      BY <1>1, <1>2, <1>4, <2>1, <2>3, NumbersMove
    <3>2. QED BY <1>1, <1>2, <3>1 DEF KeyInv
  <2>4. QED BY <2>2, <2>3
<1>6. CASE ~Locked(Redis, q.name)
  <2>1. next = [q EXCEPT !.pc = "verify"]
    BY <1>6
  <2>2. next \in InFlight /\ next.pc = "verify" /\ next.ip = q.ip /\ next.name = q.name
    BY <1>3, <2>1 DEF InFlight
  <2> HIDE DEF next
  <2>3. Stage(next, k) = IF k \in {q.ip, q.name} THEN "trying" ELSE "none"
    BY <2>2, StageIs
  <2>4. CASE k = q.name
    <3>1. Stage(q, k) = "none" /\ Stage(next, k) = "trying"
      BY <1>3, <1>4, <2>3, <2>4, StageIs
    <3>2. /\ HowMany(req', "trying", k) = HowMany(req, "trying", k) + 1
          /\ HowMany(req', "uncounted", k) = HowMany(req, "uncounted", k)
          /\ HowMany(req', "locking", k) = HowMany(req, "locking", k)
      BY <1>1, <1>2, <3>1, NumbersMove
    <3>3. lockout[Redis][k] = 0
      <4>1. lockout[Redis][k] \in 0 .. Lockout
        BY <1>1, KeyStands DEF Standing
      <4>2. QED BY <1>6, <2>4, <4>1, NumbersType DEF Locked
    <3>4. HowMany(req, "trying", k) + HowMany(req, "uncounted", k) + HowMany(req, "locking", k) + 1
            <= Cardinality(Slots)
      BY <3>1, Shares
    <3>5. QED BY <1>1, <1>2, <3>2, <3>3, <3>4, KeyStands, RoomForOne DEF KeyInv
  <2>5. CASE k # q.name
    <3>1. \A s : HowMany(req', s, k) = HowMany(req, s, k)
      BY <1>1, <1>2, <1>4, <2>3, <2>5, NumbersMove
    <3>2. QED BY <1>1, <1>2, <3>1 DEF KeyInv
  <2>6. QED BY <2>4, <2>5
<1>7. QED BY <1>5, <1>6

\* A wrong password, for both keys of the request
LEMMA VerifyWrongKeeps ==
  ASSUME LimitsInv, NEW r \in Slots, NEW k \in Keys, VerifyWrong(r)
  PROVE  KeyInv(k)'
<1> DEFINE q == req[r]
           next == [q EXCEPT !.pc = "failIp"]
<1>1. TypeOK /\ KeyInv(k) /\ q.pc = "verify"
  BY DEF LimitsInv, VerifyWrong
<1>2. /\ OnlyMoves(r, next)
      /\ attempts' = attempts /\ lockout' = lockout /\ faults' = faults
      /\ wrong'[k] = IF k \in {q.ip, q.name} THEN OneMore(wrong[k]) ELSE wrong[k]
  BY <1>1 DEF VerifyWrong, Goto, OnlyMoves, TypeOK
<1>3. q \in InFlight
  BY <1>1 DEF TypeOK, InFlight, Idle
<1>4. next \in InFlight /\ next.pc = "failIp" /\ next.ip = q.ip /\ next.name = q.name
  BY <1>3 DEF InFlight
<1> HIDE DEF next
<1>5. /\ Stage(q, k) = IF k \in {q.ip, q.name} THEN "trying" ELSE "none"
      /\ Stage(next, k) = IF k \in {q.ip, q.name} THEN "uncounted" ELSE "none"
  BY <1>1, <1>3, <1>4, StageIs
<1>6. CASE k \in {q.ip, q.name}
  <2>1. /\ HowMany(req, "trying", k) \in Nat /\ HowMany(req', "trying", k) \in Nat
        /\ HowMany(req', "trying", k) = HowMany(req, "trying", k) - 1
        /\ HowMany(req', "uncounted", k) = HowMany(req, "uncounted", k) + 1
        /\ HowMany(req', "locking", k) = HowMany(req, "locking", k)
    BY <1>1, <1>2, <1>5, <1>6, NumbersMove
  <2>2. HowMany(req, "trying", k) >= 1
    BY <2>1
  <2>3. QED BY <1>1, <1>2, <1>6, <2>1, <2>2, KeyStands, TryFails DEF KeyInv
<1>7. CASE k \notin {q.ip, q.name}
  <2>1. \A s : HowMany(req', s, k) = HowMany(req, s, k)
    BY <1>1, <1>2, <1>5, <1>7, NumbersMove
  <2>2. QED BY <1>1, <1>2, <1>7, <2>1 DEF KeyInv
<1>8. QED BY <1>6, <1>7

\* The right password ends the try
LEMMA VerifyRightKeeps ==
  ASSUME LimitsInv, NEW r \in Slots, NEW k \in Keys, VerifyRight(r)
  PROVE  KeyInv(k)'
<1> DEFINE q == req[r]
<1>1. TypeOK /\ KeyInv(k) /\ q.pc = "verify"
  BY DEF LimitsInv, VerifyRight
<1>2. q \in InFlight
  BY <1>1 DEF TypeOK, InFlight, Idle
<1>3. PICK next \in {Idle, [q EXCEPT !.pc = "success"]} : OnlyMoves(r, next)
  BY <1>1 DEF OnlyMoves, TypeOK, VerifyRight, Goto, Leave
<1>4. attempts' = attempts /\ lockout' = lockout /\ wrong' = wrong /\ faults' = faults
  BY DEF VerifyRight
<1>5. Stage(next, k) = "none"
  <2>1. [q EXCEPT !.pc = "success"] \in InFlight /\ [q EXCEPT !.pc = "success"].pc = "success"
    BY <1>2 DEF InFlight
  <2>2. QED BY <1>3, <2>1, StageIs
<1>6. Stage(q, k) = IF k \in {q.ip, q.name} THEN "trying" ELSE "none"
  BY <1>1, <1>2, StageIs
<1>7. CASE k \in {q.ip, q.name}
  <2>1. /\ HowMany(req, "trying", k) \in Nat /\ HowMany(req', "trying", k) \in Nat
        /\ HowMany(req', "trying", k) = HowMany(req, "trying", k) - 1
        /\ HowMany(req', "uncounted", k) = HowMany(req, "uncounted", k)
        /\ HowMany(req', "locking", k) = HowMany(req, "locking", k)
    BY <1>1, <1>3, <1>5, <1>6, <1>7, NumbersMove
  <2>2. HowMany(req, "trying", k) >= 1
    BY <2>1
  <2>3. QED BY <1>1, <1>4, <2>1, <2>2, KeyStands, TryGivenUp DEF KeyInv
<1>8. CASE k \notin {q.ip, q.name}
  <2>1. \A s : HowMany(req', s, k) = HowMany(req, s, k)
    BY <1>1, <1>3, <1>5, <1>6, <1>8, NumbersMove
  <2>2. QED BY <1>1, <1>4, <2>1 DEF KeyInv
<1>9. QED BY <1>7, <1>8

\* Redis counts a failure for key h, which the request was at failIp or failName for
LEMMA FailKeeps ==
  ASSUME LimitsInv, NEW r \in Slots, NEW k \in Keys, FailIp(r) \/ FailName(r)
  PROVE  KeyInv(k)'
<1> DEFINE q == req[r]
           h == IF q.pc = "failIp" THEN q.ip ELSE q.name
           full == Reached(OneMore(attempts[Redis][h]))
           next == IF q.pc = "failIp"
                   THEN IF full THEN [q EXCEPT !.pc = "lockIp"] ELSE [q EXCEPT !.pc = "failName"]
                   ELSE IF full THEN [q EXCEPT !.pc = "lockName"] ELSE Idle
<1>1. TypeOK /\ KeyInv(k) /\ q.pc \in {"failIp", "failName"}
  BY DEF LimitsInv, FailIp, FailName
<1>2. q \in InFlight
  BY <1>1 DEF TypeOK, InFlight, Idle
<1>3. q.ip \in Keys /\ q.name \in Keys /\ q.ip # q.name /\ h \in Keys /\ Redis \in Stores
  BY <1>2, StageIs DEF Stores
<1>4. /\ lockout' = lockout /\ wrong' = wrong /\ faults' = faults
      /\ attempts' = [attempts EXCEPT ![Redis][h] = OneMore(attempts[Redis][h])]
      /\ req' = [req EXCEPT ![r] = next]
  BY <1>1 DEF FailIp, FailName, Fail, At
<1>5. attempts'[Redis][k] = IF k = h THEN OneMore(attempts[Redis][k]) ELSE attempts[Redis][k]
  BY <1>1, <1>3, <1>4 DEF TypeOK
<1>6. OnlyMoves(r, next)
  BY <1>1, <1>4 DEF OnlyMoves, TypeOK
<1>7. Stage(q, k) = IF k = h \/ k = q.name THEN "uncounted" ELSE "none"
  BY <1>1, <1>2, StageIs
<1>8. Stage(next, k) = IF k = h THEN IF full THEN "locking" ELSE "none" ELSE Stage(q, k)
  <2>1. CASE q.pc = "failIp" /\ full
    <3>1. next = [q EXCEPT !.pc = "lockIp"]
      BY <2>1
    <3>2. next \in InFlight /\ next.pc = "lockIp" /\ next.ip = q.ip /\ next.name = q.name
      BY <1>2, <3>1 DEF InFlight
    <3> HIDE DEF next
    <3>3. Stage(next, k) = IF k = q.ip THEN "locking" ELSE IF k = q.name THEN "uncounted" ELSE "none"
      BY <3>2, StageIs
    <3>4. QED BY <1>3, <1>7, <2>1, <3>3
  <2>2. CASE q.pc = "failIp" /\ ~full
    <3>1. next = [q EXCEPT !.pc = "failName"]
      BY <2>2
    <3>2. next \in InFlight /\ next.pc = "failName" /\ next.ip = q.ip /\ next.name = q.name
      BY <1>2, <3>1 DEF InFlight
    <3> HIDE DEF next
    <3>3. Stage(next, k) = IF k = q.name THEN "uncounted" ELSE "none"
      BY <3>2, StageIs
    <3>4. QED BY <1>3, <1>7, <2>2, <3>3
  <2>3. CASE q.pc # "failIp" /\ full
    <3>1. next = [q EXCEPT !.pc = "lockName"]
      BY <2>3
    <3>2. next \in InFlight /\ next.pc = "lockName" /\ next.ip = q.ip /\ next.name = q.name
      BY <1>2, <3>1 DEF InFlight
    <3> HIDE DEF next
    <3>3. Stage(next, k) = IF k = q.name THEN "locking" ELSE "none"
      BY <3>2, StageIs
    <3>4. QED BY <1>3, <1>7, <2>3, <3>3
  <2>4. CASE q.pc # "failIp" /\ ~full
    <3>1. next = Idle
      BY <2>4
    <3>2. QED BY <1>3, <1>7, <2>4, <3>1, StageIs
  <2>5. QED BY <2>1, <2>2, <2>3, <2>4
<1> HIDE DEF next, q, h
<1>9. CASE k = h
  <2>1. /\ HowMany(req, "uncounted", k) \in Nat /\ HowMany(req', "uncounted", k) \in Nat
        /\ HowMany(req', "uncounted", k) = HowMany(req, "uncounted", k) - 1
        /\ HowMany(req', "trying", k) = HowMany(req, "trying", k)
        /\ HowMany(req', "locking", k) = IF full THEN HowMany(req, "locking", k) + 1
                                         ELSE HowMany(req, "locking", k)
    BY <1>6, <1>7, <1>8, <1>9, NumbersMove DEF q
  <2>2. HowMany(req, "uncounted", k) >= 1
    BY <2>1
  <2>3. QED BY <1>1, <1>4, <1>5, <1>9, <2>1, <2>2, KeyStands, FailureCounted DEF KeyInv
<1>10. CASE k # h
  <2>1. \A s : HowMany(req', s, k) = HowMany(req, s, k)
    BY <1>6, <1>8, <1>10, NumbersMove DEF q
  <2>2. QED BY <1>1, <1>4, <1>5, <1>10, <2>1 DEF KeyInv
<1>11. QED BY <1>9, <1>10

\* Redis locks a key, which the request was at lockIp or lockName for
LEMMA LockKeeps ==
  ASSUME LimitsInv, NEW r \in Slots, NEW k \in Keys, LockIp(r) \/ LockName(r)
  PROVE  KeyInv(k)'
<1> DEFINE q == req[r]
           h == IF q.pc = "lockIp" THEN q.ip ELSE q.name
           next == IF q.pc = "lockIp" THEN [q EXCEPT !.pc = "failName"] ELSE Idle
<1>1. TypeOK /\ KeyInv(k) /\ q.pc \in {"lockIp", "lockName"}
  BY DEF LimitsInv, LockIp, LockName
<1>2. q \in InFlight
  BY <1>1 DEF TypeOK, InFlight, Idle
<1>3. q.ip \in Keys /\ q.name \in Keys /\ q.ip # q.name /\ h \in Keys /\ Redis \in Stores
  BY <1>2, StageIs DEF Stores
<1>4. /\ attempts' = attempts /\ wrong' = wrong /\ faults' = faults
      /\ lockout' = [lockout EXCEPT ![Redis][h] = LockTime]
      /\ req' = [req EXCEPT ![r] = next]
  BY <1>1 DEF LockIp, LockName, Lock, At
<1>5. lockout'[Redis][k] = IF k = h THEN LockTime ELSE lockout[Redis][k]
  BY <1>1, <1>3, <1>4 DEF TypeOK
<1>6. OnlyMoves(r, next)
  BY <1>1, <1>4 DEF OnlyMoves, TypeOK
<1>7. Stage(q, k) = IF k = h THEN "locking" ELSE IF k = q.name THEN "uncounted" ELSE "none"
  BY <1>1, <1>2, StageIs
<1>8. Stage(next, k) = IF k = h THEN "none" ELSE Stage(q, k)
  <2>1. CASE q.pc = "lockIp"
    <3>1. next \in InFlight /\ next.pc = "failName" /\ next.ip = q.ip /\ next.name = q.name
      BY <1>2, <2>1 DEF InFlight
    <3>2. QED BY <1>3, <1>7, <2>1, <3>1, StageIs
  <2>2. CASE q.pc # "lockIp"
    <3>1. next = Idle
      BY <2>2
    <3>2. QED BY <1>7, <2>2, <3>1, StageIs
  <2>3. QED BY <2>1, <2>2
<1> HIDE DEF next, q, h
<1>9. CASE k = h
  <2>1. /\ HowMany(req, "locking", k) \in Nat /\ HowMany(req', "locking", k) \in Nat
        /\ HowMany(req', "locking", k) = HowMany(req, "locking", k) - 1
        /\ HowMany(req', "trying", k) = HowMany(req, "trying", k)
        /\ HowMany(req', "uncounted", k) = HowMany(req, "uncounted", k)
    BY <1>6, <1>7, <1>8, <1>9, NumbersMove DEF q
  <2>2. HowMany(req, "locking", k) >= 1
    BY <2>1
  <2>3. QED BY <1>1, <1>4, <1>5, <1>9, <2>1, <2>2, KeyStands, LockSet DEF KeyInv
<1>10. CASE k # h
  <2>1. \A s : HowMany(req', s, k) = HowMany(req, s, k)
    BY <1>6, <1>8, <1>10, NumbersMove DEF q
  <2>2. QED BY <1>1, <1>4, <1>5, <1>10, <2>1 DEF KeyInv
<1>11. QED BY <1>9, <1>10

\* A success in Redis
LEMMA SucceedKeeps ==
  ASSUME LimitsInv, NEW r \in Slots, NEW k \in Keys, Succeed(r)
  PROVE  KeyInv(k)'
<1> DEFINE q == req[r]
<1>1. TypeOK /\ KeyInv(k) /\ q.pc = "success"
  BY DEF LimitsInv, Succeed
<1>2. q \in InFlight
  BY <1>1 DEF TypeOK, InFlight, Idle
<1>3. Redis \in Stores
  BY DEF Stores
<1>4. /\ attempts'[Redis][k] = IF k \in {q.ip, q.name} THEN <<>> ELSE attempts[Redis][k]
      /\ lockout'[Redis][k] = IF k \in {q.ip, q.name} THEN 0 ELSE lockout[Redis][k]
      /\ wrong'[k] = IF k \in {q.ip, q.name} THEN <<>> ELSE wrong[k]
      /\ faults' = faults
  BY <1>1, <1>3 DEF Succeed, Cleared, Forgiven, TypeOK
<1>5. OnlyMoves(r, Idle)
  BY <1>1 DEF Succeed, Leave, OnlyMoves, TypeOK
<1>6. Stage(q, k) = "none" /\ Stage(Idle, k) = "none"
  BY <1>1, <1>2, StageIs
<1>7. \A s : HowMany(req', s, k) = HowMany(req, s, k)
  BY <1>5, <1>6, NumbersMove
<1>8. CASE k \in {q.ip, q.name}
  <2>1. Standing(<<>>, <<>>, 0, HowMany(req, "trying", k), HowMany(req, "uncounted", k),
                 HowMany(req, "locking", k), faults)
    BY <1>1, KeyStands, NoFailures, NumbersType DEF Standing
  <2>2. QED BY <1>4, <1>7, <1>8, <2>1, StartsAnew DEF KeyInv
<1>9. CASE k \notin {q.ip, q.name}
  BY <1>1, <1>4, <1>7, <1>9 DEF KeyInv
<1>10. QED BY <1>8, <1>9

\* A command fails, and what the worker's memory does instead leaves Redis alone
LEMMA FaultKeeps ==
  ASSUME LimitsInv, NEW r \in Slots, NEW k \in Keys, Fault(r)
  PROVE  KeyInv(k)'
<1> DEFINE q == req[r]
           t == HowMany(req, "trying", k)
           u == HowMany(req, "uncounted", k)
           l == HowMany(req, "locking", k)
<1>1. TypeOK /\ KeyInv(k) /\ faults' = faults + 1 /\ wrong' = wrong
  BY DEF LimitsInv, Fault, CheckIpInMemory, CheckNameInMemory, FailInMemory, SucceedInMemory
<1>2. q # Idle => q \in InFlight
  BY <1>1 DEF TypeOK
<1>3. q.pc # "idle" => q.worker \in Workers /\ q.worker # Redis
  BY <1>2, StoresAssumption DEF InFlight, Idle
<1>4. Redis \in Stores /\ Redis \notin Workers /\ Workers \subseteq Stores
  BY StoresAssumption DEF Stores
<1>5. attempts'[Redis] = attempts[Redis] /\ lockout'[Redis] = lockout[Redis]
  <2>1. ASSUME NEW w \in Workers, NEW h, Unlock(w, h) PROVE attempts'[Redis] = attempts[Redis]
    BY <1>1, <1>4, <2>1 DEF Unlock, TypeOK
  <2>2. ASSUME NEW w \in Workers, NEW a \in Addresses, NEW n \in Names, CheckIpInMemory(r, w, a, n)
        PROVE  attempts'[Redis] = attempts[Redis] /\ lockout'[Redis] = lockout[Redis]
    BY <2>1, <2>2 DEF CheckIpInMemory
  <2>3. CASE CheckNameInMemory(r)
    BY <1>3, <2>1, <2>3 DEF CheckNameInMemory
  <2>4. CASE FailInMemory(r)
    BY <1>1, <1>3, <1>4, <2>4 DEF FailInMemory, TypeOK
  <2>5. CASE SucceedInMemory(r)
    BY <1>1, <1>3, <1>4, <2>5 DEF SucceedInMemory, Cleared, TypeOK
  <2>6. QED BY <2>2, <2>3, <2>4, <2>5 DEF Fault
<1>6. ASSUME HowMany(req', "trying", k) \in Nat, HowMany(req', "uncounted", k) \in Nat,
             HowMany(req', "locking", k) \in Nat,
             \/ /\ HowMany(req', "trying", k) <= t + 1
                /\ HowMany(req', "uncounted", k) = u /\ HowMany(req', "locking", k) = l
             \/ /\ HowMany(req', "trying", k) = t
                /\ HowMany(req', "uncounted", k) = u - 1 /\ HowMany(req', "locking", k) = l
             \/ /\ HowMany(req', "trying", k) = t
                /\ HowMany(req', "uncounted", k) = u /\ HowMany(req', "locking", k) = l - 1
      PROVE  KeyInv(k)'
  BY <1>1, <1>5, <1>6, KeyStands, CommandFails DEF KeyInv
<1>7. ASSUME NEW next, OnlyMoves(r, next),
             \/ Stage(next, k) \in {"trying", "none"} /\ Stage(q, k) \in {"trying", "none"}
             \/ Stage(next, k) = "none" /\ Stage(q, k) \in {"uncounted", "locking"}
      PROVE  KeyInv(k)'
  <2>1. t \in Nat /\ HowMany(req', "trying", k) \in Nat /\ HowMany(req', "uncounted", k) \in Nat
        /\ HowMany(req', "locking", k) \in Nat
    BY <1>7, NumbersMove
  <2>2. CASE Stage(next, k) \in {"trying", "none"} /\ Stage(q, k) \in {"trying", "none"}
    <3>1. /\ HowMany(req', "uncounted", k) = u /\ HowMany(req', "locking", k) = l
      BY <1>7, <2>2, NumbersMove
    <3>2. HowMany(req', "trying", k) <= t + 1
      BY <1>7, <2>1, <2>2, NumbersMove
    <3>3. QED BY <1>6, <2>1, <3>1, <3>2
  <2>3. CASE Stage(next, k) = "none" /\ Stage(q, k) = "uncounted"
    <3>1. /\ HowMany(req', "trying", k) = t /\ HowMany(req', "uncounted", k) = u - 1
          /\ HowMany(req', "locking", k) = l
      BY <1>7, <2>3, NumbersMove
    <3>2. QED BY <1>6, <2>1, <3>1
  <2>4. CASE Stage(next, k) = "none" /\ Stage(q, k) = "locking"
    <3>1. /\ HowMany(req', "trying", k) = t /\ HowMany(req', "uncounted", k) = u
          /\ HowMany(req', "locking", k) = l - 1
      BY <1>7, <2>4, NumbersMove
    <3>2. QED BY <1>6, <2>1, <3>1
  <2>5. QED BY <1>7, <2>2, <2>3, <2>4
<1>8. ASSUME NEW w \in Workers, NEW a \in Addresses, NEW n \in Names, CheckIpInMemory(r, w, a, n)
      PROVE  KeyInv(k)'
  <2> DEFINE next == [pc |-> "name", worker |-> w, ip |-> a, name |-> n]
  <2>1. next \in InFlight /\ next.pc = "name"
    BY DEF InFlight
  <2>2. Stage(next, k) \in {"trying", "none"} /\ Stage(q, k) = "none"
    BY <1>8, <2>1, StageIs DEF CheckIpInMemory
  <2>3. OnlyMoves(r, next)
    BY <1>1, <1>8 DEF CheckIpInMemory, OnlyMoves, TypeOK
  <2>4. QED BY <1>7, <2>2, <2>3
<1>9. CASE CheckNameInMemory(r)
  <2>1. PICK next \in {Idle, [q EXCEPT !.pc = "verify"]} : OnlyMoves(r, next)
    BY <1>1, <1>9 DEF CheckNameInMemory, Goto, Leave, OnlyMoves, TypeOK
  <2>2. q \in InFlight /\ q.pc = "name"
    BY <1>2, <1>9 DEF CheckNameInMemory, Idle
  <2>3. [q EXCEPT !.pc = "verify"] \in InFlight /\ [q EXCEPT !.pc = "verify"].pc = "verify"
    BY <2>2 DEF InFlight
  <2>4. Stage(next, k) \in {"trying", "none"} /\ Stage(q, k) \in {"trying", "none"}
    <3>1. Stage(q, k) \in {"trying", "none"}
      BY <2>2, StageIs
    <3>2. CASE next = Idle
      BY <3>1, <3>2, StageIs
    <3>3. CASE next = [q EXCEPT !.pc = "verify"]
      <4>1. next \in InFlight /\ next.pc = "verify"
        BY <2>3, <3>3
      <4>2. QED BY <3>1, <4>1, StageIs
    <3>4. QED BY <2>1, <3>2, <3>3
  <2>5. QED BY <1>7, <2>1, <2>4
<1>10. CASE FailInMemory(r)
  <2>1. OnlyMoves(r, Idle)
    BY <1>1, <1>10 DEF FailInMemory, Leave, OnlyMoves, TypeOK
  <2>2. q \in InFlight /\ q.pc \in {"failIp", "lockIp", "failName", "lockName"}
    BY <1>2, <1>10 DEF FailInMemory, Idle
  <2>3. Stage(Idle, k) = "none" /\ Stage(q, k) \in {"none", "uncounted", "locking"}
    BY <2>2, StageIs
  <2>4. QED BY <1>7, <2>1, <2>3
<1>11. CASE SucceedInMemory(r)
  <2>1. OnlyMoves(r, Idle)
    BY <1>1, <1>11 DEF SucceedInMemory, Leave, OnlyMoves, TypeOK
  <2>2. q \in InFlight /\ q.pc = "success"
    BY <1>2, <1>11 DEF SucceedInMemory, Idle
  <2>3. Stage(Idle, k) = "none" /\ Stage(q, k) = "none"
    BY <2>2, StageIs
  <2>4. QED BY <1>7, <2>1, <2>3
<1>12. QED BY <1>8, <1>9, <1>10, <1>11 DEF Fault

\* A tick of the clock
LEMMA TickKeeps ==
  ASSUME LimitsInv, NEW k \in Keys, Tick
  PROVE  KeyInv(k)'
<1>1. TypeOK /\ KeyInv(k)
  BY DEF LimitsInv
<1>2. /\ attempts'[Redis][k] = Older(attempts[Redis][k]) /\ wrong'[k] = Older(wrong[k])
      /\ lockout'[Redis][k] = IF lockout[Redis][k] > 0 THEN lockout[Redis][k] - 1 ELSE 0
      /\ req' = req /\ faults' = faults
  BY DEF Tick, Stores, Remaining, Locked
<1>3. QED BY <1>1, <1>2, KeyStands, TimePasses DEF KeyInv

\* The invariant is inductive
LEMMA LimitsStep == LimitsInv /\ [Next]_vars => LimitsInv'
<1> SUFFICES ASSUME LimitsInv, [Next]_vars PROVE LimitsInv'
  OBVIOUS
<1>1. TypeOK'
  BY TypeStep DEF LimitsInv
<1>2. ASSUME NEW k \in Keys PROVE KeyInv(k)'
  <2>1. CASE UNCHANGED vars
    BY <2>1 DEF LimitsInv, KeyInv, vars
  <2>2. CASE Next
    BY <2>2, CheckIpKeeps, CheckNameKeeps, VerifyWrongKeeps, VerifyRightKeeps, FailKeeps, LockKeeps,
       SucceedKeeps, FaultKeeps, TickKeeps DEF Next
  <2>3. QED BY <2>1, <2>2
<1>3. QED BY <1>1, <1>2 DEF LimitsInv

\* The invariant holds in every state
LEMMA AlwaysLimited == Spec => []LimitsInv
<1>1. Init => LimitsInv
  <2> SUFFICES ASSUME Init, NEW k \in Keys PROVE KeyInv(k)
    BY LimitsAssumption, NoFailures DEF LimitsInv, Init, TypeOK, InFlight, Idle, Stores
  <2>1. \A s \in {"trying", "uncounted", "locking"} : HowMany(req, s, k) = 0
    <3>1. \A r \in Slots : Stage(req[r], k) = "none"
      BY StageIs DEF Init
    <3>2. \A s \in {"trying", "uncounted", "locking"} : Those(req, s, k) = {}
      BY <3>1 DEF Those
    <3>3. QED BY <3>2, FS_EmptySet DEF HowMany
  <2>2. attempts[Redis][k] = <<>> /\ wrong[k] = <<>> /\ lockout[Redis][k] = 0 /\ faults = 0
    BY DEF Init, Stores
  <2>3. Standing(<<>>, <<>>, 0, 0, 0, 0, 0)
    BY NumbersType, NoFailures DEF Standing
  <2>4. QED BY <2>1, <2>2, <2>3, StartsAnew DEF KeyInv
<1>2. QED BY <1>1, LimitsStep, PTL DEF Spec

(* ----------------------------- the theorems --------------------------- *)

\* In no window do more wrong passwords get through for an address or a name than the limit and
\* what else was in flight, and one more for each command of Redis that failed
THEOREM TriesAreBounded == Spec => []TriesBounded
<1>1. LimitsInv => TriesBounded
  <2> SUFFICES ASSUME LimitsInv, NEW k \in Keys
               PROVE  Len(wrong[k]) <= MaxAttempts + Cardinality(Slots) - 1 + faults
    BY DEF TriesBounded
  <2>1. TypeOK /\ KeyInv(k)
    BY DEF LimitsInv
  <2>2. HowMany(req, "trying", k) \in Nat /\ faults \in Nat /\ Len(wrong[k]) \in Nat
    BY <2>1, KeyStands, NumbersType DEF Standing
  <2>3. Len(wrong[k]) + HowMany(req, "trying", k) <= MaxAttempts - 1 + Cardinality(Slots) + faults
    BY <2>1 DEF KeyInv, Bounded
  <2>4. QED BY <2>2, <2>3, NumbersType
<1>2. QED BY <1>1, AlwaysLimited, PTL

\* As long as no command failed, a key that Redis counts MAX_ATTEMPTS failures for is locked or
\* about to be: nothing that happens between the count and the lockout leaves it open
THEOREM LimitAlwaysLocks == Spec => []LimitLocks
<1>1. LimitsInv => LimitLocks
  <2> SUFFICES ASSUME LimitsInv, NEW k \in Keys, Reached(attempts[Redis][k]),
                      ~Locked(Redis, k), ~(faults > 0)
               PROVE  \E r \in Slots : \/ req[r].pc = "lockIp" /\ req[r].ip = k
                                       \/ req[r].pc = "lockName" /\ req[r].name = k
    BY DEF LimitLocks
  <2> DEFINE counted == attempts[Redis][k]
  <2>1. TypeOK /\ KeyInv(k)
    BY DEF LimitsInv
  <2>2. faults = 0 /\ lockout[Redis][k] = 0 /\ counted \in Failures /\ HowMany(req, "locking", k) \in Nat
    BY <2>1, KeyStands, NumbersType DEF Standing, Locked
  <2>3. Fresh(counted, 0, HowMany(req, "locking", k) + 0)
    BY <2>1, <2>2 DEF KeyInv, Bounded
  <2>4. Len(counted) \in 1 .. Len(counted) /\ Len(counted) >= MaxAttempts
    BY <2>2, NumbersType DEF Reached
  <2>5. counted[Len(counted)] < Lockout - 0
    BY <2>2, <2>4, NumbersType
  <2>6. Len(counted) < MaxAttempts + (HowMany(req, "locking", k) + 0)
    BY <2>3, <2>4, <2>5 DEF Fresh
  <2>7. HowMany(req, "locking", k) # 0
    <3>1. Len(counted) \in Nat /\ MaxAttempts \in Nat
      BY <2>2, NumbersType
    <3>2. SUFFICES ASSUME HowMany(req, "locking", k) = 0 PROVE FALSE
      OBVIOUS
    <3>3. Len(counted) < MaxAttempts + (0 + 0)
      BY <2>6, <3>2
    <3> HIDE DEF counted
    <3>4. QED BY <2>4, <3>1, <3>3
  <2>8. Those(req, "locking", k) # {}
    BY <2>7, FS_EmptySet DEF HowMany
  <2>9. QED BY <2>8 DEF Those, Stage
<1>2. QED BY <1>1, AlwaysLimited, PTL

=============================================================================

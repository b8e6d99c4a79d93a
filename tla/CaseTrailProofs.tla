-------------------------- MODULE CaseTrailProofs ---------------------------
(***************************************************************************)
(* Proofs about what case_history tells of a case, for any staff, any      *)
(* number of cases and of requests in flight, any clock and any bounds:    *)
(* its statuses were real, agents only pick up what was escalated, a       *)
(* closed case is left in one of two ways, the verification gate leaves a  *)
(* trail; and, as long as requests do not overlap and nobody escalates by  *)
(* POST /escalations, the workflow keeps its documented contract.  Without *)
(* the first a PATCH decides on a row that is no longer true; without the  *)
(* second the status is set without a look at the transition table.        *)
(***************************************************************************)
EXTENDS CaseServiceProofs

(* --------------------- statuses a history reached --------------------- *)

\* The status s has been that of the case
Reached(h, s) ==
  s = "open" \/ \E j \in 1 .. Len(h) : h[j].field = "status" /\ h[j].new = s

\* OldStatusesWereReal, of one history
OldReal(h) ==
  \A i \in 1 .. Len(h) : h[i].field = "status" =>
    \/ h[i].old = "open"
    \/ \E j \in 1 .. (i - 1) : h[j].field = "status" /\ h[j].new = h[i].old

\* AgentsOnlyPickUp, of one history
PickUpsOnly(h) ==
  \A i \in 1 .. Len(h) : h[i].field = "owner" /\ RoleOf[h[i].by] = "agent" =>
    /\ h[i].new = h[i].by
    /\ \E j \in 1 .. (i - 1) : h[j].new = "escalated"

EscalatedOnce(h) == \E j \in 1 .. Len(h) : h[j].new = "escalated"

\* An entry is the last of a history that keeps the others
LEMMA Appended ==
  ASSUME NEW h \in Seq(Entry), NEW e
  PROVE  /\ Len(Append(h, e)) = Len(h) + 1 /\ Len(h) \in Nat
         /\ Append(h, e)[Len(h) + 1] = e
         /\ \A i \in 1 .. Len(h) : Append(h, e)[i] = h[i]
OBVIOUS

\* What a history tells it goes on telling, and an entry about the status adds its new value
LEMMA AppendReached ==
  ASSUME NEW h \in Seq(Entry), NEW e
  PROVE  /\ \A s : Reached(h, s) => Reached(Append(h, e), s)
         /\ EscalatedOnce(h) => EscalatedOnce(Append(h, e))
         /\ e.field = "status" => Reached(Append(h, e), e.new)
<1> DEFINE h2 == Append(h, e)
<1>1. /\ Len(h2) = Len(h) + 1 /\ Len(h) \in Nat /\ h2[Len(h) + 1] = e
      /\ \A i \in 1 .. Len(h) : h2[i] = h[i]
  BY Appended
<1> HIDE DEF h2
<1>2. (\A i \in 1 .. Len(h) : i \in 1 .. Len(h2)) /\ Len(h) + 1 \in 1 .. Len(h2)
  BY <1>1
<1>3. ASSUME NEW s, Reached(h, s)
      PROVE  Reached(h2, s)
  BY <1>1, <1>2, <1>3 DEF Reached
<1>4. EscalatedOnce(h) => EscalatedOnce(h2)
  BY <1>1, <1>2 DEF EscalatedOnce
<1>5. e.field = "status" => Reached(h2, e.new)
  BY <1>1, <1>2 DEF Reached
<1> QED
  BY <1>3, <1>4, <1>5 DEF h2

\* An entry with an old status the case had keeps the old statuses real
LEMMA AppendReal ==
  ASSUME NEW h \in Seq(Entry), NEW e, OldReal(h), e.field = "status" => Reached(h, e.old)
  PROVE  OldReal(Append(h, e))
<1> DEFINE h2 == Append(h, e)
<1>1. /\ Len(h2) = Len(h) + 1 /\ Len(h) \in Nat /\ h2[Len(h) + 1] = e
      /\ \A i \in 1 .. Len(h) : h2[i] = h[i]
  BY Appended
<1> HIDE DEF h2
<1>2. ASSUME NEW i \in 1 .. Len(h2), h2[i].field = "status"
      PROVE  h2[i].old = "open" \/ \E j \in 1 .. (i - 1) : h2[j].field = "status" /\ h2[j].new = h2[i].old
  <2>1. CASE i = Len(h) + 1
    BY <1>1, <1>2, <2>1 DEF Reached
  <2>2. CASE i \in 1 .. Len(h)
    <3>1. \A j \in 1 .. (i - 1) : j \in 1 .. Len(h)
      BY <1>1, <2>2
    <3> QED
      BY <1>1, <1>2, <2>2, <3>1 DEF OldReal
  <2> QED
    BY <1>1, <2>1, <2>2
<1> QED
  BY <1>2 DEF OldReal, h2

\* An entry of an agent about the owner is fine if it is a pick-up
LEMMA AppendPickUp ==
  ASSUME NEW h \in Seq(Entry), NEW e, PickUpsOnly(h),
         e.field = "owner" /\ RoleOf[e.by] = "agent" => e.new = e.by /\ EscalatedOnce(h)
  PROVE  PickUpsOnly(Append(h, e))
<1> DEFINE h2 == Append(h, e)
<1>1. /\ Len(h2) = Len(h) + 1 /\ Len(h) \in Nat /\ h2[Len(h) + 1] = e
      /\ \A i \in 1 .. Len(h) : h2[i] = h[i]
  BY Appended
<1> HIDE DEF h2
<1>2. ASSUME NEW i \in 1 .. Len(h2), h2[i].field = "owner", RoleOf[h2[i].by] = "agent"
      PROVE  h2[i].new = h2[i].by /\ \E j \in 1 .. (i - 1) : h2[j].new = "escalated"
  <2>1. CASE i = Len(h) + 1
    BY <1>1, <1>2, <2>1 DEF EscalatedOnce
  <2>2. CASE i \in 1 .. Len(h)
    <3>1. \A j \in 1 .. (i - 1) : j \in 1 .. Len(h)
      BY <1>1, <2>2
    <3> QED
      BY <1>1, <1>2, <2>2, <3>1 DEF PickUpsOnly
  <2> QED
    BY <1>1, <2>1, <2>2
<1> QED
  BY <1>2 DEF PickUpsOnly, h2

\* The three of them for Log, which adds an entry or none
LEMMA LogTrail ==
  ASSUME NEW h \in Seq(Entry), NEW field, NEW old, NEW new, NEW by, NEW at,
         NEW changed \in BOOLEAN, OldReal(h), PickUpsOnly(h),
         changed /\ field = "status" => Reached(h, old),
         changed /\ field = "owner" /\ RoleOf[by] = "agent" => new = by /\ EscalatedOnce(h)
  PROVE  LET h2 == Log(h, changed, field, old, new, by, at)
         IN  /\ OldReal(h2) /\ PickUpsOnly(h2)
             /\ \A s : Reached(h, s) => Reached(h2, s)
             /\ EscalatedOnce(h) => EscalatedOnce(h2)
             /\ changed /\ field = "status" => Reached(h2, new)
<1> DEFINE e == [field |-> field, old |-> old, new |-> new, by |-> by, at |-> at]
           h2 == Append(h, e)
<1>1. CASE ~changed
  BY <1>1 DEF Log
<1>2. CASE changed
  <2>1. Log(h, changed, field, old, new, by, at) = h2
    BY <1>2 DEF Log
  <2>2. e.field = field /\ e.old = old /\ e.new = new /\ e.by = by
    OBVIOUS
  <2> HIDE DEF e
  <2>3. OldReal(h2)
    BY <1>2, <2>2, AppendReal
  <2>4. PickUpsOnly(h2)
    BY <1>2, <2>2, AppendPickUp
  <2>5. /\ \A s : Reached(h, s) => Reached(h2, s)
        /\ EscalatedOnce(h) => EscalatedOnce(h2)
        /\ field = "status" => Reached(h2, new)
    BY <2>2, AppendReached
  <2> HIDE DEF h2
  <2> QED
    BY <2>1, <2>3, <2>4, <2>5
<1> QED
  BY <1>1, <1>2

\* The history rows of update_case: real old statuses, pick-ups only, and the new status of
\* the row among those reached
LEMMA UpdateTrail ==
  ASSUME NEW h \in Seq(Entry), NEW o \in CaseRow, NEW b \in Body, NEW u \in Users, NEW t \in Nat,
         OldReal(h), PickUpsOnly(h), Reached(h, o.status)
  PROVE  LET h2 == UpdatedHistory(h, o, b, u, t)
         IN  /\ OldReal(h2) /\ PickUpsOnly(h2)
             /\ \A s : Reached(h, s) => Reached(h2, s)
             /\ b.status # Null => Reached(h2, b.status)
<1> DEFINE h1 == Log(h, b.status # Null, "status", o.status, b.status, u, t)
           h2 == Log(h1, b.priority # Null, "priority", o.priority, b.priority, u, t)
           h3 == Log(h2, b.code # Null, "code", o.code, b.code, u, t)
           h4 == Log(h3, PicksUp(o, b, u), "owner", o.owner, u, u, t)
<1>0. PicksUp(o, b, u) \in BOOLEAN
  BY DEF PicksUp
<1>1. h1 \in Seq(Entry) /\ h2 \in Seq(Entry) /\ h3 \in Seq(Entry)
  <2>1. b.status # Null => [field |-> "status", old |-> o.status, new |-> b.status, by |-> u, at |-> t] \in Entry
    BY DEF Entry, Body, CaseRow
  <2>2. b.priority # Null => [field |-> "priority", old |-> o.priority, new |-> b.priority, by |-> u, at |-> t] \in Entry
    BY DEF Entry, Body, CaseRow
  <2>3. b.code # Null => [field |-> "code", old |-> o.code, new |-> b.code, by |-> u, at |-> t] \in Entry
    BY DEF Entry, Body, CaseRow
  <2>4. h1 \in Seq(Entry)
    BY <2>1, LogType
  <2>5. h2 \in Seq(Entry)
    <3> HIDE DEF h1
    <3> QED BY <2>2, <2>4, LogType
  <2>6. h3 \in Seq(Entry)
    <3> HIDE DEF h2
    <3> QED BY <2>3, <2>5, LogType
  <2> QED
    BY <2>4, <2>5, <2>6
<1>2. o.status = "escalated" => EscalatedOnce(h)
  BY DEF Reached, EscalatedOnce
<1>3. /\ OldReal(h1) /\ PickUpsOnly(h1) /\ \A s : Reached(h, s) => Reached(h1, s)
      /\ EscalatedOnce(h) => EscalatedOnce(h1)
      /\ b.status # Null => Reached(h1, b.status)
  BY LogTrail
<1> HIDE DEF h1
<1>4. /\ OldReal(h2) /\ PickUpsOnly(h2) /\ \A s : Reached(h1, s) => Reached(h2, s)
      /\ EscalatedOnce(h1) => EscalatedOnce(h2)
  BY <1>1, <1>3, LogTrail
<1> HIDE DEF h2
<1>5. /\ OldReal(h3) /\ PickUpsOnly(h3) /\ \A s : Reached(h2, s) => Reached(h3, s)
      /\ EscalatedOnce(h2) => EscalatedOnce(h3)
  BY <1>1, <1>4, LogTrail
<1> HIDE DEF h3
<1>6. PicksUp(o, b, u) => EscalatedOnce(h3)
  BY <1>2, <1>3, <1>4, <1>5 DEF PicksUp
<1>7. OldReal(h4) /\ PickUpsOnly(h4) /\ \A s : Reached(h3, s) => Reached(h4, s)
  BY <1>0, <1>1, <1>5, <1>6, LogTrail
<1>8. UpdatedHistory(h, o, b, u, t) = h4
  BY DEF UpdatedHistory, h1, h2, h3
<1> HIDE DEF h4
<1> QED
  BY <1>3, <1>4, <1>5, <1>7, <1>8

\* The history row of create_escalation
LEMMA EscalateTrail ==
  ASSUME NEW h \in Seq(Entry), NEW old, NEW u, NEW t,
         OldReal(h), PickUpsOnly(h), Reached(h, old)
  PROVE  LET h2 == EscalatedHistory(h, old, u, t)
         IN  /\ OldReal(h2) /\ PickUpsOnly(h2)
             /\ \A s : Reached(h, s) => Reached(h2, s)
             /\ Reached(h2, "escalated")
<1> DEFINE e == [field |-> "status", old |-> old, new |-> "escalated", by |-> u, at |-> t]
           h2 == Append(h, e)
<1>1. EscalatedHistory(h, old, u, t) = h2
  BY DEF EscalatedHistory, Log
<1>2. e.field = "status" /\ e.old = old /\ e.new = "escalated"
  OBVIOUS
<1> HIDE DEF e
<1>3. OldReal(h2)
  BY <1>2, AppendReal
<1>4. PickUpsOnly(h2)
  BY <1>2, AppendPickUp
<1>5. Reached(h2, "escalated") /\ \A s : Reached(h, s) => Reached(h2, s)
  BY <1>2, AppendReached
<1> HIDE DEF h2
<1> QED
  BY <1>1, <1>3, <1>4, <1>5

(* --------------- what a history and a request may hold ---------------- *)

\* What a request about to write has been checked for, as far as it still holds: the status
\* its SELECT saw was that of the case once, the transition is one from there, and
\* reassignments are not made by agents
RequestFits(q) ==
  /\ q.pc = "selected" /\ q.op = "update" =>
       Reached(history[q.case], q.old.status) /\ TransitionAllowed(q.old, q.body)
  /\ q.pc \in {"checked", "selected"} /\ q.op = "reassign" => RoleOf[q.user] # "agent"

\* What is inductive: histories with real old statuses and pick-ups only, which tell of the
\* status each case has, and requests that fit
TrailInv ==
  /\ TypeOK
  /\ \A c \in Cases : OldReal(history[c]) /\ PickUpsOnly(history[c])
  /\ \A c \in DOMAIN cases : Reached(history[c], cases[c].status)
  /\ \A r \in Slots : RequestFits(req[r])

\* A step that writes no history and no status, except that of a new case, keeps the
\* invariant if the requests it changes fit
LEMMA TrailUntouched ==
  ASSUME TrailInv, TypeOK', history' = history,
         \A c \in DOMAIN cases' : \/ cases'[c].status = "open"
                                  \/ c \in DOMAIN cases /\ cases'[c].status = cases[c].status,
         \A s \in Slots : req'[s] = req[s] \/ RequestFits(req'[s])
  PROVE  TrailInv'
<1>1. \A s \in Slots : RequestFits(req[s])'
  BY DEF TrailInv, RequestFits, Reached, TransitionAllowed
<1>2. \A c \in DOMAIN cases' : Reached(history[c], cases[c].status)'
  BY DEF TrailInv, Reached
<1>3. \A c \in Cases : (OldReal(history[c]) /\ PickUpsOnly(history[c]))'
  BY DEF TrailInv, OldReal, PickUpsOnly
<1> QED
  BY <1>1, <1>2, <1>3 DEF TrailInv

\* A step that writes one case, its row and its history together, and commits its request,
\* keeps the invariant if what it wrote does
LEMMA TrailOneCase ==
  ASSUME TrailInv, TypeOK', NEW r \in Slots, req[r].pc \in {"checked", "selected"}, Commit(r),
         NEW c \in DOMAIN cases, NEW h, NEW row,
         cases' = [cases EXCEPT ![c] = row], history' = [history EXCEPT ![c] = h],
         OldReal(h), PickUpsOnly(h), Reached(h, row.status),
         \A s : Reached(history[c], s) => Reached(h, s)
  PROVE  TrailInv'
<1>1. c \in Cases /\ DOMAIN cases' = DOMAIN cases /\ cases'[c] = row /\ history'[c] = h
  BY DEF TrailInv, TypeOK
<1>2. \A d \in Cases : d # c => history'[d] = history[d]
  BY DEF TrailInv, TypeOK
<1>3. \A d \in DOMAIN cases : d # c => cases'[d] = cases[d]
  BY DEF TrailInv, TypeOK
<1>4. ASSUME NEW d \in Cases
      PROVE  OldReal(history'[d]) /\ PickUpsOnly(history'[d])
             /\ \A s : Reached(history[d], s) => Reached(history'[d], s)
  BY <1>1, <1>2 DEF TrailInv
<1>5. ASSUME NEW d \in DOMAIN cases'
      PROVE  Reached(history'[d], cases'[d].status)
  <2>1. CASE d = c
    BY <1>1, <2>1
  <2>2. CASE d # c
    <3>1. d \in Cases /\ d \in DOMAIN cases /\ history'[d] = history[d] /\ cases'[d] = cases[d]
      BY <1>1, <1>2, <1>3, <2>2 DEF TrailInv, TypeOK
    <3> QED
      BY <3>1 DEF TrailInv
  <2> QED
    BY <2>1, <2>2
<1>6. ASSUME NEW s \in Slots
      PROVE  RequestFits(req[s])'
  <2>1. CASE s = r
    <3>1. req'[s].pc = "committed"
      BY <2>1, CommitType DEF TrailInv
    <3> QED
      BY <3>1 DEF RequestFits
  <2>2. CASE s # r
    <3>1. req'[s] = req[s]
      BY <2>2, CommitType DEF TrailInv
    <3>2. req[s].pc = "selected" /\ req[s].op = "update" => req[s].case \in Cases
      BY InFlightType DEF TrailInv
    <3>3. RequestFits(req[s])
      BY DEF TrailInv
    <3> QED
      BY <1>4, <3>1, <3>2, <3>3 DEF RequestFits, TransitionAllowed, Reached
  <2> QED
    BY <2>1, <2>2
<1>7. \A d \in DOMAIN cases' : Reached(history[d], cases[d].status)'
  BY <1>5 DEF Reached
<1>8. \A d \in Cases : (OldReal(history[d]) /\ PickUpsOnly(history[d]))'
  BY <1>4 DEF OldReal, PickUpsOnly
<1> QED
  BY <1>6, <1>7, <1>8 DEF TrailInv

\* No step breaks the invariant
LEMMA TrailStep ==
  ASSUME TrailInv, [Next]_vars
  PROVE  TrailInv'
<1>0. TypeOK /\ TypeOK'
  BY TypeStep DEF TrailInv
<1>1. ASSUME NEW r \in Slots, NEW u \in Users, NEW c \in Cases, NEW i \in Investors \cup {Null},
             NEW p \in Priorities, Create(r, u, c, i, p)
      PROVE  TrailInv'
  <2>1. \A d \in DOMAIN cases' : cases'[d].status = "open" \/ (d \in DOMAIN cases /\ cases'[d] = cases[d])
    BY <1>1 DEF Create, NewRow
  <2>2. req'[r].pc = "committed" /\ \A s \in Slots : s # r => req'[s] = req[s]
    <3>1. [Idle EXCEPT !.pc = "committed", !.op = "create", !.user = u, !.case = c, !.now = clock].pc
            = "committed"
      BY DEF Idle
    <3> QED
      BY <1>0, <1>1, <3>1 DEF Create, TypeOK
  <2>3. \A s \in Slots : req'[s] = req[s] \/ RequestFits(req'[s])
    BY <2>2 DEF RequestFits
  <2> QED
    BY <1>0, <1>1, <2>1, <2>3, TrailUntouched DEF Create
<1>2. ASSUME NEW r \in Slots, NEW u \in Users, NEW c \in Cases,
             \/ \E b \in Bodies : UpdateCheck(r, u, c, b)
             \/ \E new \in Users : ReassignCheck(r, u, c, new)
             \/ EscalateCheck(r, u, c)
             \/ NoteCheck(r, u, c)
             \/ \E v \in Sessions : LinkSelect(r, u, c, v)
      PROVE  TrailInv'
  <2>1. ASSUME NEW new \in Users, ReassignCheck(r, u, c, new)
        PROVE  req'[r].pc = "checked" /\ RoleOf[req'[r].user] # "agent"
    BY <1>0, <2>1 DEF ReassignCheck, MayReassign, Check, TypeOK
  <2>2. RequestFits(req'[r])
    <3>1. CASE \E b \in Bodies : UpdateCheck(r, u, c, b)
      <4>1. req'[r].pc = "checked" /\ req'[r].op = "update"
        BY <1>0, <3>1 DEF UpdateCheck, Check, TypeOK
      <4> QED BY <4>1 DEF RequestFits
    <3>2. CASE EscalateCheck(r, u, c) \/ NoteCheck(r, u, c)
      <4>1. req'[r].op \in {"escalate", "add_note"}
        BY <1>0, <3>2 DEF EscalateCheck, NoteCheck, Check, TypeOK
      <4> QED BY <4>1 DEF RequestFits
    <3>3. CASE \E v \in Sessions : LinkSelect(r, u, c, v)
      <4>1. req'[r].op = "link"
        BY <1>0, <3>3 DEF LinkSelect, Idle, TypeOK
      <4> QED BY <4>1 DEF RequestFits
    <3> QED
      BY <1>2, <2>1, <3>1, <3>2, <3>3 DEF RequestFits
  <2>3. \A s \in Slots : s # r => req'[s] = req[s]
    BY <1>0, <1>2 DEF UpdateCheck, ReassignCheck, EscalateCheck, NoteCheck, LinkSelect, Check, TypeOK
  <2>4. UNCHANGED <<cases, history>>
    BY <1>2 DEF UpdateCheck, ReassignCheck, EscalateCheck, NoteCheck, LinkSelect, tables
  <2> QED
    BY <1>0, <2>2, <2>3, <2>4, TrailUntouched
<1>3. ASSUME NEW r \in Slots, NEW t \in 0 .. clock, UpdateSelect(r, t)
      PROVE  TrailInv'
  <2> DEFINE q == req[r]
             o == cases[q.case]
  <2>1. q \in InFlight("checked", {"update"}, Body, {Null}, {Null}) /\ q.case \in DOMAIN cases
        /\ q.pc = "checked"
    BY <1>0, <1>3, InFlightType DEF UpdateSelect
  <2>2. UNCHANGED <<cases, history>>
    BY <1>3 DEF UpdateSelect, tables
  <2>3. CASE Select(r, t, o) /\ TransitionAllowed(o, q.body)
    <3>1. /\ req'[r].pc = "selected" /\ req'[r].op = "update" /\ req'[r].old = o
          /\ req'[r].body = q.body /\ req'[r].case = q.case
          /\ \A s \in Slots : s # r => req'[s] = req[s]
      BY <1>0, <2>1, <2>3 DEF Select, InFlight, TypeOK
    <3>2. Reached(history[q.case], o.status)
      BY <2>1 DEF TrailInv
    <3>3. RequestFits(req'[r])
      BY <2>3, <3>1, <3>2 DEF RequestFits
    <3> QED
      BY <1>0, <2>2, <3>1, <3>3, TrailUntouched
  <2>4. CASE Commit(r) \/ Answer(r)
    <3>1. req'[r].pc \in {"committed", "idle"} /\ \A s \in Slots : s # r => req'[s] = req[s]
      BY <1>0, <2>1, <2>4, CommitType, AnswerType
    <3>2. RequestFits(req'[r])
      BY <3>1 DEF RequestFits
    <3> QED
      BY <1>0, <2>2, <3>1, <3>2, TrailUntouched
  <2> QED
    BY <1>3, <2>3, <2>4 DEF UpdateSelect
<1>4. ASSUME NEW r \in Slots, UpdateWrite(r)
      PROVE  TrailInv'
  <2> DEFINE q == req[r]
             row == UpdatedRow(cases[q.case], q.old, q.body, q.user, q.now)
             h == UpdatedHistory(history[q.case], q.old, q.body, q.user, q.now)
  <2>1. q \in InFlight("selected", {"update"}, Body, {Null}, CaseRow)
        /\ q.case \in DOMAIN cases /\ q.case \in Cases /\ q.pc = "selected" /\ q.op = "update"
    BY <1>0, <1>4, InFlightType DEF UpdateWrite
  <2>2. /\ history[q.case] \in Seq(Entry) /\ cases[q.case] \in CaseRow /\ q.old \in CaseRow
        /\ q.body \in Body /\ q.user \in Users /\ q.now \in Nat
    BY <1>0, <2>1 DEF TypeOK, InFlight
  <2>3. /\ OldReal(history[q.case]) /\ PickUpsOnly(history[q.case])
        /\ Reached(history[q.case], cases[q.case].status)
        /\ Reached(history[q.case], q.old.status)
    BY <2>1 DEF TrailInv, RequestFits
  <2>4. /\ OldReal(h) /\ PickUpsOnly(h) /\ \A s : Reached(history[q.case], s) => Reached(h, s)
        /\ q.body.status # Null => Reached(h, q.body.status)
    BY <2>2, <2>3, UpdateTrail
  <2>5. row.status = Keep(q.body.status, cases[q.case].status)
    BY <2>2 DEF UpdatedRow, CaseRow
  <2>6. cases' = [cases EXCEPT ![q.case] = row] /\ history' = [history EXCEPT ![q.case] = h]
        /\ Commit(r)
    BY <1>4 DEF UpdateWrite
  <2> HIDE DEF row, h, q
  <2>7. Reached(h, row.status)
    BY <2>3, <2>4, <2>5 DEF Keep
  <2>8. req[r].pc \in {"checked", "selected"}
    BY <2>1 DEF q
  <2> QED
    BY <1>0, <2>1, <2>4, <2>6, <2>7, <2>8, TrailOneCase
<1>5. ASSUME NEW r \in Slots, NEW t \in 0 .. clock, ReassignSelect(r, t)
      PROVE  TrailInv'
  <2>1. req[r] \in InFlight("checked", {"reassign"}, {Null}, Users, {Null})
        /\ RoleOf[req[r].user] # "agent"
    BY <1>0, <1>5, InFlightType DEF ReassignSelect, TrailInv, RequestFits
  <2>2. /\ req'[r].pc = "committed" \/ (req'[r].op = "reassign" /\ req'[r].user = req[r].user)
        /\ \A s \in Slots : s # r => req'[s] = req[s]
    <3>1. CASE Commit(r)
      BY <1>0, <2>1, <3>1, CommitType DEF InFlight
    <3>2. CASE Select(r, t, cases[req[r].case])
      BY <1>0, <2>1, <3>2 DEF Select, InFlight, TypeOK
    <3> QED
      BY <1>5, <3>1, <3>2 DEF ReassignSelect
  <2>3. RequestFits(req'[r])
    BY <2>1, <2>2 DEF RequestFits
  <2>4. UNCHANGED <<cases, history>>
    BY <1>5 DEF ReassignSelect, tables
  <2> QED
    BY <1>0, <2>2, <2>3, <2>4, TrailUntouched
<1>6. ASSUME NEW r \in Slots, ReassignWrite(r)
      PROVE  TrailInv'
  <2> DEFINE q == req[r]
             row == [cases[q.case] EXCEPT !.owner = q.target]
             h == Log(history[q.case], TRUE, "owner", q.old.owner, q.target, q.user, q.now)
  <2>1. q.case \in DOMAIN cases /\ q.case \in Cases /\ q.pc = "selected" /\ q.op = "reassign"
    BY <1>0, <1>6, InFlightType DEF ReassignWrite
  <2>2. /\ history[q.case] \in Seq(Entry) /\ cases[q.case] \in CaseRow
        /\ OldReal(history[q.case]) /\ PickUpsOnly(history[q.case])
        /\ Reached(history[q.case], cases[q.case].status) /\ RoleOf[q.user] # "agent"
    BY <1>0, <2>1 DEF TrailInv, TypeOK, RequestFits
  <2>3. cases' = [cases EXCEPT ![q.case] = row] /\ history' = [history EXCEPT ![q.case] = h]
        /\ Commit(r)
    BY <1>6, <2>1 DEF ReassignWrite
  <2> HIDE DEF q
  <2>4. row.status = cases[q.case].status
    BY <2>2 DEF CaseRow
  <2> HIDE DEF row
  <2>5. OldReal(h) /\ PickUpsOnly(h) /\ \A s : Reached(history[q.case], s) => Reached(h, s)
    BY <2>2, LogTrail
  <2> HIDE DEF h
  <2>6. Reached(h, row.status)
    BY <2>2, <2>4, <2>5
  <2>7. req[r].pc \in {"checked", "selected"}
    BY <2>1 DEF q
  <2> QED
    BY <1>0, <2>1, <2>3, <2>5, <2>6, <2>7, TrailOneCase
<1>7. ASSUME NEW r \in Slots, NEW t \in 0 .. clock, NEW to \in Users, EscalateWrite(r, t, to)
      PROVE  TrailInv'
  <2> DEFINE q == req[r]
             row == [cases[q.case] EXCEPT !.status = "escalated"]
             h == EscalatedHistory(history[q.case], cases[q.case].status, q.user, t)
  <2>1. q.case \in DOMAIN cases /\ q.case \in Cases /\ q.pc = "checked"
    BY <1>0, <1>7, InFlightType DEF EscalateWrite
  <2>2. /\ history[q.case] \in Seq(Entry) /\ cases[q.case] \in CaseRow
        /\ OldReal(history[q.case]) /\ PickUpsOnly(history[q.case])
        /\ Reached(history[q.case], cases[q.case].status)
    BY <1>0, <2>1 DEF TrailInv, TypeOK
  <2>3. cases' = [cases EXCEPT ![q.case] = row] /\ history' = [history EXCEPT ![q.case] = h]
        /\ Commit(r)
    BY <1>7, <2>1 DEF EscalateWrite
  <2> HIDE DEF q
  <2>4. row.status = "escalated"
    BY <2>2 DEF CaseRow
  <2> HIDE DEF row
  <2>5. /\ OldReal(h) /\ PickUpsOnly(h) /\ \A s : Reached(history[q.case], s) => Reached(h, s)
        /\ Reached(h, "escalated")
    BY <2>2, EscalateTrail
  <2> HIDE DEF h
  <2>6. req[r].pc \in {"checked", "selected"}
    BY <2>1 DEF q
  <2> QED
    BY <1>0, <2>1, <2>3, <2>4, <2>5, <2>6, TrailOneCase
<1>8. ASSUME NEW r \in Slots, LinkWrite(r)
      PROVE  TrailInv'
  <2>1. history' = history /\ Commit(r) /\ req[r].pc = "selected"
    BY <1>8 DEF LinkWrite
  <2>2. \A d \in DOMAIN cases' : d \in DOMAIN cases /\ cases'[d].status = cases[d].status
    <3>1. CASE req[r].case \in DOMAIN cases
      <4>1. cases[req[r].case] \in CaseRow
        BY <1>0, <3>1 DEF TypeOK
      <4>2. [cases[req[r].case] EXCEPT !.verification = req[r].target].status = cases[req[r].case].status
        BY <4>1 DEF CaseRow
      <4> QED
        BY <1>0, <1>8, <3>1, <4>2 DEF LinkWrite, TypeOK
    <3>2. CASE req[r].case \notin DOMAIN cases
      BY <1>8, <3>2 DEF LinkWrite
    <3> QED
      BY <3>1, <3>2
  <2>3. req'[r].pc = "committed" /\ \A s \in Slots : s # r => req'[s] = req[s]
    BY <1>0, <2>1, CommitType
  <2>4. RequestFits(req'[r])
    BY <2>3 DEF RequestFits
  <2> QED
    BY <1>0, <2>1, <2>2, <2>3, <2>4, TrailUntouched
<1>9. ASSUME NEW r \in Slots, Abort(r) \/ Audit(r) \/ NoteWrite(r)
      PROVE  TrailInv'
  <2>1. UNCHANGED <<cases, history>> /\ ((Commit(r) /\ req[r].pc = "checked") \/ Answer(r))
    BY <1>9 DEF Abort, Audit, NoteWrite, tables
  <2>2. req'[r].pc \in {"committed", "idle"} /\ \A s \in Slots : s # r => req'[s] = req[s]
    BY <1>0, <2>1, CommitType, AnswerType
  <2>3. RequestFits(req'[r])
    BY <2>2 DEF RequestFits
  <2> QED
    BY <1>0, <2>1, <2>2, <2>3, TrailUntouched
<1>10. CASE Verify \/ Tick \/ UNCHANGED vars
  <2>1. UNCHANGED <<cases, history, req>>
    BY <1>10 DEF Verify, StartVerification, CompleteVerification, Tick, vars, tables
  <2> QED
    BY <1>0, <2>1, TrailUntouched
<1> QED
  BY <1>1, <1>2, <1>3, <1>4, <1>5, <1>6, <1>7, <1>8, <1>9, <1>10 DEF Next, Receive, Serve

\* What holds in every state
LEMMA AlwaysTrail == Spec => []TrailInv
<1>1. Init => TrailInv
  <2> SUFFICES ASSUME Init PROVE TrailInv
    OBVIOUS
  <2>1. \A r \in Slots : req[r].pc = "idle"
    BY DEF Init, Idle
  <2>2. \A r \in Slots : RequestFits(req[r])
    BY <2>1 DEF RequestFits
  <2>3. \A c \in Cases : OldReal(history[c]) /\ PickUpsOnly(history[c])
    BY DEF Init, OldReal, PickUpsOnly
  <2>4. DOMAIN cases = {}
    BY DEF Init
  <2> QED
    BY <2>2, <2>3, <2>4, InitType DEF TrailInv
<1>2. TrailInv /\ [Next]_vars => TrailInv'
  BY TrailStep
<1> QED
  BY <1>1, <1>2, PTL DEF Spec

(* ---------------------- histories tell the truth ---------------------- *)

\* The invariant says of every case what the properties say of those there are
LEMMA TrailIsReal == TrailInv => OldStatusesWereReal /\ AgentsOnlyPickUp
<1>1. ASSUME TrailInv, NEW c \in DOMAIN cases, NEW i \in 1 .. Len(history[c]),
             history[c][i].field = "status"
      PROVE  \/ history[c][i].old = "open"
             \/ \E j \in 1 .. (i - 1) : /\ history[c][j].field = "status"
                                        /\ history[c][j].new = history[c][i].old
  <2>1. OldReal(history[c])
    BY <1>1 DEF TrailInv, TypeOK
  <2> QED
    BY <1>1, <2>1 DEF OldReal
<1>2. ASSUME TrailInv, NEW c \in DOMAIN cases, NEW i \in 1 .. Len(history[c]),
             history[c][i].field = "owner", RoleOf[history[c][i].by] = "agent"
      PROVE  /\ history[c][i].new = history[c][i].by
             /\ \E j \in 1 .. (i - 1) : history[c][j].new = "escalated"
  <2>1. PickUpsOnly(history[c])
    BY <1>2 DEF TrailInv, TypeOK
  <2> QED
    BY <1>2, <2>1 DEF PickUpsOnly
<1>3. TrailInv => OldStatusesWereReal
  BY <1>1 DEF OldStatusesWereReal
<1>4. TrailInv => AgentsOnlyPickUp
  BY <1>2 DEF AgentsOnlyPickUp
<1> QED
  BY <1>3, <1>4

\* The old status of a history entry may be stale, but the case had it before: what a SELECT
\* returned has been committed with an entry of its own
THEOREM OldStatusesAreReal == Spec => []OldStatusesWereReal
BY TrailIsReal, AlwaysTrail, PTL

\* Agents change the owner of a case by picking up an escalated one, and in no other way,
\* however stale the row is on which they do
THEOREM AgentsOnlyEverPickUp == Spec => []AgentsOnlyPickUp
BY TrailIsReal, AlwaysTrail, PTL

\* Only an escalation, or a PATCH whose row was not closed yet, takes a closed case out of closed
LEMMA ClosedStep ==
  TrailInv /\ [Next]_vars =>
    [\A c \in DOMAIN cases : cases[c].status = "closed" /\ cases'[c].status # "closed" =>
       \/ Len(escalations'[c]) > Len(escalations[c])
       \/ \E r \in Slots : /\ req[r].pc = "selected" /\ req[r].op = "update"
                           /\ req[r].case = c /\ req[r].old.status # "closed"]_cases
<1>1. ASSUME TrailInv, [Next]_vars, NEW c \in DOMAIN cases,
             cases[c].status = "closed", cases'[c].status # "closed"
      PROVE  \/ Len(escalations'[c]) > Len(escalations[c])
             \/ \E r \in Slots : /\ req[r].pc = "selected" /\ req[r].op = "update"
                                 /\ req[r].case = c /\ req[r].old.status # "closed"
  <2>0. TypeOK
    BY <1>1 DEF TrailInv
  <2>1. ASSUME NEW r \in Slots, UpdateWrite(r)
        PROVE  /\ req[r].pc = "selected" /\ req[r].op = "update"
               /\ req[r].case = c /\ req[r].old.status # "closed"
    <3> DEFINE q == req[r]
               row == UpdatedRow(cases[q.case], q.old, q.body, q.user, q.now)
    <3>1. q \in InFlight("selected", {"update"}, Body, {Null}, CaseRow)
          /\ q.case \in DOMAIN cases /\ q.pc = "selected" /\ q.op = "update"
      BY <2>0, <2>1, InFlightType DEF UpdateWrite
    <3>2. cases' = [cases EXCEPT ![q.case] = row]
      BY <2>1 DEF UpdateWrite
    <3>3. q.case = c /\ cases'[c] = row
      BY <1>1, <3>1, <3>2
    <3>4. cases[q.case] \in CaseRow
      BY <2>0, <3>1 DEF TypeOK
    <3>5. row.status = Keep(q.body.status, cases[q.case].status)
      BY <3>4 DEF UpdatedRow, CaseRow
    <3>6. q.body.status # Null
      BY <1>1, <3>3, <3>5 DEF Keep
    <3>7. TransitionAllowed(q.old, q.body)
      BY <1>1, <3>1 DEF TrailInv, RequestFits
    <3>8. q.old.status # "closed"
      BY <3>6, <3>7 DEF TransitionAllowed, ValidNextStatuses, ValidTransitions
    <3> QED
      BY <3>1, <3>3, <3>8
  <2>2. ASSUME NEW r \in Slots, NEW t \in 0 .. clock, NEW to \in Users, EscalateWrite(r, t, to)
        PROVE  Len(escalations'[c]) > Len(escalations[c])
    <3> DEFINE e == [from |-> req[r].user, to |-> to, at |-> t]
    <3>1. req[r].case \in DOMAIN cases /\ req[r].case \in Cases
      BY <2>0, <2>2, InFlightType DEF EscalateWrite
    <3>2. req[r].case = c
      BY <1>1, <2>2, <3>1 DEF EscalateWrite
    <3>3. escalations'[c] = Append(escalations[c], e)
      BY <2>0, <2>2, <3>1, <3>2 DEF EscalateWrite, TypeOK
    <3>4. escalations[c] \in Seq(Escalation)
      BY <2>0, <3>1, <3>2 DEF TypeOK
    <3> HIDE DEF e
    <3> QED
      BY <3>3, <3>4
  <2>3. ASSUME NEW r \in Slots, ReassignWrite(r) \/ LinkWrite(r)
        PROVE  FALSE
    <3>1. cases[c] \in CaseRow
      BY <2>0 DEF TypeOK
    <3>2. /\ [cases[c] EXCEPT !.owner = req[r].target].status = cases[c].status
          /\ [cases[c] EXCEPT !.verification = req[r].target].status = cases[c].status
      BY <3>1 DEF CaseRow
    <3> QED
      BY <1>1, <2>0, <2>3, <3>2 DEF ReassignWrite, LinkWrite, TypeOK
  <2>4. ASSUME NEW r \in Slots, NEW u \in Users, NEW d \in Cases, NEW i \in Investors \cup {Null},
               NEW p \in Priorities, Create(r, u, d, i, p)
        PROVE  FALSE
    BY <1>1, <2>4 DEF Create
  <2>5. cases' # cases
    BY <1>1
  <2>6. CASE UNCHANGED vars
    BY <2>5, <2>6 DEF vars
  <2>7. ASSUME NEW r \in Slots, Receive(r)
        PROVE  FALSE
    BY <2>4, <2>5, <2>7
       DEF Receive, UpdateCheck, ReassignCheck, EscalateCheck, NoteCheck, LinkSelect, tables
  <2>8. ASSUME Verify \/ Tick
        PROVE  FALSE
    BY <2>5, <2>8 DEF Verify, StartVerification, CompleteVerification, Tick, tables
  <2>9. ASSUME NEW r \in Slots, Abort(r) \/ Audit(r) \/ NoteWrite(r)
               \/ (\E t \in 0 .. clock : UpdateSelect(r, t) \/ ReassignSelect(r, t))
        PROVE  FALSE
    BY <2>5, <2>9 DEF Abort, Audit, NoteWrite, UpdateSelect, ReassignSelect, tables
  <2> QED
    BY <1>1, <2>1, <2>2, <2>3, <2>6, <2>7, <2>8, <2>9 DEF Next, Serve
<1> QED
  BY <1>1

\* A closed case is left by an escalation, or by a PATCH that read it before it was closed
THEOREM ClosedIsOnlyLeftUnseen == Spec => ClosedIsLeftUnseen
BY ClosedStep, AlwaysTrail, PTL DEF Spec, ClosedIsLeftUnseen

(* ------------------------ the verification gate ----------------------- *)

\* The history shows the case going from open to in_progress
Opens(h) ==
  \E i \in 1 .. Len(h) : h[i].field = "status" /\ h[i].old = "open" /\ h[i].new = "in_progress"

\* An investor's case has a session linked
Vouched(row) == row.investor # Null => row.verification # Null

\* A session that was completed
Ended(v) == v \in DOMAIN sessions /\ sessions[v].status # "in_progress"

\* What a request about to write was checked for and what still holds: the gate for the edge it
\* guards, the completion of the session that is linked
GateFits(q) ==
  /\ q.pc = "selected" /\ q.op = "update" =>
       /\ q.case \in DOMAIN cases
       /\ q.old.status = "open" /\ q.body.status = "in_progress" => Vouched(cases[q.case])
  /\ q.pc = "selected" /\ q.op = "link" => Ended(q.target)

\* What is inductive
GateInv ==
  /\ TypeOK
  /\ \A c \in Cases \ DOMAIN cases : history[c] = <<>>
  /\ \A c \in DOMAIN cases : cases[c].verification # Null => Ended(cases[c].verification)
  /\ \A c \in DOMAIN cases : Opens(history[c]) => Vouched(cases[c])
  /\ \A r \in Slots : GateFits(req[r])

\* A step keeps the invariant if rows keep their investor and their session, sessions once
\* completed stay so, the requests it changes fit, and what a history newly shows is
\* vouched for
LEMMA GateKept ==
  ASSUME GateInv, TypeOK',
         \A v : Ended(v) => Ended(v)',
         \A c \in DOMAIN cases : /\ c \in DOMAIN cases'
                                 /\ cases'[c].investor = cases[c].investor
                                 /\ cases'[c].verification = cases[c].verification
                                 /\ Opens(history'[c]) => Opens(history[c]) \/ Vouched(cases[c]),
         \A c \in DOMAIN cases' \ DOMAIN cases : cases'[c].verification = Null,
         \A c \in Cases \ DOMAIN cases : history'[c] = history[c],
         \A s \in Slots : req'[s] = req[s] \/ GateFits(req'[s])
  PROVE  GateInv'
<1>1. \A c \in DOMAIN cases : Vouched(cases[c]) => Vouched(cases'[c])
  BY DEF Vouched
<1>2. \A s \in Slots : GateFits(req'[s])
  BY DEF GateInv
<1>3. ASSUME NEW s \in Slots
      PROVE  GateFits(req[s])'
  BY <1>1, <1>2, <1>3 DEF GateFits, Vouched
<1>4. \A c \in Cases \ DOMAIN cases' : history'[c] = <<>>
  BY DEF GateInv
<1>5. ASSUME NEW c \in DOMAIN cases', cases'[c].verification # Null
      PROVE  Ended(cases[c].verification)'
  <2>1. c \in DOMAIN cases /\ Ended(cases[c].verification)
    BY <1>5 DEF GateInv
  <2>2. PICK v : v = cases[c].verification
    OBVIOUS
  <2>3. Ended(v)' /\ cases'[c].verification = v
    BY <2>1, <2>2
  <2> QED
    BY <2>3 DEF Ended
<1>6. ASSUME NEW c \in DOMAIN cases', Opens(history'[c])
      PROVE  Vouched(cases'[c])
  <2>1. CASE c \in DOMAIN cases
    BY <1>1, <1>6, <2>1 DEF GateInv
  <2>2. CASE c \notin DOMAIN cases
    <3>1. c \in Cases
      BY DEF TypeOK
    <3>2. history'[c] = <<>>
      BY <2>2, <3>1 DEF GateInv
    <3> QED
      BY <1>6, <3>2 DEF Opens
  <2> QED
    BY <2>1, <2>2
<1>7. \A c \in DOMAIN cases' : (Opens(history[c]) => Vouched(cases[c]))'
  BY <1>6 DEF Opens, Vouched
<1> QED
  BY <1>3, <1>4, <1>5, <1>7 DEF GateInv

\* Completed sessions stay so if the table stays as it is
LEMMA SessionsKept ==
  ASSUME sessions' = sessions
  PROVE  \A v : Ended(v) => Ended(v)'
BY DEF Ended

(* ---------------------- entries that open a case ---------------------- *)

\* What an appended entry makes a history show is that entry or was shown before
LEMMA AppendOpens ==
  ASSUME NEW h \in Seq(Entry), NEW e, Opens(Append(h, e))
  PROVE  Opens(h) \/ (e.field = "status" /\ e.old = "open" /\ e.new = "in_progress")
<1> DEFINE h2 == Append(h, e)
<1>1. /\ Len(h2) = Len(h) + 1 /\ Len(h) \in Nat /\ h2[Len(h) + 1] = e
      /\ \A i \in 1 .. Len(h) : h2[i] = h[i]
  OBVIOUS
<1>2. Opens(h2)
  OBVIOUS
<1> HIDE DEF h2
<1>3. PICK i \in 1 .. Len(h2) : h2[i].field = "status" /\ h2[i].old = "open" /\ h2[i].new = "in_progress"
  BY <1>2 DEF Opens
<1>4. CASE i = Len(h) + 1
  BY <1>1, <1>3, <1>4
<1>5. CASE i \in 1 .. Len(h)
  BY <1>1, <1>3, <1>5 DEF Opens
<1> QED
  BY <1>1, <1>3, <1>4, <1>5

\* An entry about another column does not show it
LEMMA LogElsewhere ==
  ASSUME NEW h \in Seq(Entry), NEW field, NEW old, NEW new, NEW by, NEW at,
         NEW changed \in BOOLEAN, field # "status"
  PROVE  Opens(Log(h, changed, field, old, new, by, at)) => Opens(h)
<1> DEFINE e == [field |-> field, old |-> old, new |-> new, by |-> by, at |-> at]
<1>1. Log(h, changed, field, old, new, by, at) = IF changed THEN Append(h, e) ELSE h
  BY DEF Log
<1>2. e.field # "status"
  OBVIOUS
<1> HIDE DEF e
<1> QED
  BY <1>1, <1>2, AppendOpens

\* update_case shows a case being taken up if that is what it did
LEMMA UpdateOpens ==
  ASSUME NEW h \in Seq(Entry), NEW o \in CaseRow, NEW b \in Body, NEW u \in Users, NEW t \in Nat,
         Opens(UpdatedHistory(h, o, b, u, t))
  PROVE  Opens(h) \/ (o.status = "open" /\ b.status = "in_progress")
<1> DEFINE h1 == Log(h, b.status # Null, "status", o.status, b.status, u, t)
           h2 == Log(h1, b.priority # Null, "priority", o.priority, b.priority, u, t)
           h3 == Log(h2, b.code # Null, "code", o.code, b.code, u, t)
           h4 == Log(h3, PicksUp(o, b, u), "owner", o.owner, u, u, t)
<1>0. PicksUp(o, b, u) \in BOOLEAN
  BY DEF PicksUp
<1>1. h1 \in Seq(Entry) /\ h2 \in Seq(Entry) /\ h3 \in Seq(Entry)
  <2>1. b.status # Null => [field |-> "status", old |-> o.status, new |-> b.status, by |-> u, at |-> t] \in Entry
    BY DEF Entry, Body, CaseRow
  <2>2. b.priority # Null => [field |-> "priority", old |-> o.priority, new |-> b.priority, by |-> u, at |-> t] \in Entry
    BY DEF Entry, Body, CaseRow
  <2>3. b.code # Null => [field |-> "code", old |-> o.code, new |-> b.code, by |-> u, at |-> t] \in Entry
    BY DEF Entry, Body, CaseRow
  <2>4. h1 \in Seq(Entry)
    BY <2>1, LogType
  <2>5. h2 \in Seq(Entry)
    <3> HIDE DEF h1
    <3> QED BY <2>2, <2>4, LogType
  <2>6. h3 \in Seq(Entry)
    <3> HIDE DEF h2
    <3> QED BY <2>3, <2>5, LogType
  <2> QED
    BY <2>4, <2>5, <2>6
<1>2. UpdatedHistory(h, o, b, u, t) = h4
  BY DEF UpdatedHistory, h1, h2, h3
<1>3. Opens(h1) => Opens(h) \/ (o.status = "open" /\ b.status = "in_progress")
  <2> DEFINE e == [field |-> "status", old |-> o.status, new |-> b.status, by |-> u, at |-> t]
  <2>1. h1 = IF b.status # Null THEN Append(h, e) ELSE h
    BY DEF Log
  <2>2. e.old = o.status /\ e.new = b.status
    OBVIOUS
  <2> HIDE DEF e, h1
  <2> QED
    BY <2>1, <2>2, AppendOpens
<1> HIDE DEF h1
<1>4. Opens(h2) => Opens(h1)
  BY <1>1, LogElsewhere
<1> HIDE DEF h2
<1>5. Opens(h3) => Opens(h2)
  BY <1>1, LogElsewhere
<1> HIDE DEF h3
<1>6. Opens(h4) => Opens(h3)
  BY <1>0, <1>1, LogElsewhere
<1> HIDE DEF h4
<1> QED
  BY <1>2, <1>3, <1>4, <1>5, <1>6

(* ----------------------- the gate, step by step ----------------------- *)

\* No step breaks the invariant
LEMMA GateStep ==
  ASSUME GateInv, [Next]_vars
  PROVE  GateInv'
<1>0. TypeOK /\ TypeOK'
  BY TypeStep DEF GateInv
<1>1. ASSUME NEW r \in Slots, NEW u \in Users, NEW c \in Cases, NEW i \in Investors \cup {Null},
             NEW p \in Priorities, Create(r, u, c, i, p)
      PROVE  GateInv'
  <2>1. /\ DOMAIN cases' = DOMAIN cases \cup {c} /\ cases'[c].verification = Null
        /\ \A d \in DOMAIN cases : cases'[d] = cases[d]
    BY <1>1 DEF Create, NewRow
  <2>2. req'[r].pc = "committed" /\ \A s \in Slots : s # r => req'[s] = req[s]
    <3>1. [Idle EXCEPT !.pc = "committed", !.op = "create", !.user = u, !.case = c, !.now = clock].pc
            = "committed"
      BY DEF Idle
    <3> QED
      BY <1>0, <1>1, <3>1 DEF Create, TypeOK
  <2>3. GateFits(req'[r])
    BY <2>2 DEF GateFits
  <2>4. history' = history /\ sessions' = sessions
    BY <1>1 DEF Create
  <2> QED
    BY <1>0, <2>1, <2>2, <2>3, <2>4, GateKept, SessionsKept
<1>2. ASSUME NEW r \in Slots, NEW u \in Users, NEW c \in Cases,
             \/ \E b \in Bodies : UpdateCheck(r, u, c, b)
             \/ \E new \in Users : ReassignCheck(r, u, c, new)
             \/ EscalateCheck(r, u, c)
             \/ NoteCheck(r, u, c)
             \/ \E v \in Sessions : LinkSelect(r, u, c, v)
      PROVE  GateInv'
  <2>1. GateFits(req'[r])
    <3>1. CASE \E v \in Sessions : LinkSelect(r, u, c, v)
      <4>1. PICK v \in Sessions : LinkSelect(r, u, c, v)
        BY <3>1
      <4>2. req'[r].op = "link" /\ req'[r].target = v
        BY <1>0, <4>1 DEF LinkSelect, Idle, TypeOK
      <4>3. Ended(v)
        BY <4>1 DEF LinkSelect, SessionPassed, Ended
      <4> QED
        BY <4>2, <4>3 DEF GateFits
    <3>2. CASE \/ \E b \in Bodies : UpdateCheck(r, u, c, b)
               \/ \E new \in Users : ReassignCheck(r, u, c, new)
               \/ EscalateCheck(r, u, c)
               \/ NoteCheck(r, u, c)
      <4>1. req'[r].pc = "checked"
        BY <1>0, <3>2 DEF UpdateCheck, ReassignCheck, EscalateCheck, NoteCheck, Check, TypeOK
      <4> QED
        BY <4>1 DEF GateFits
    <3> QED
      BY <1>2, <3>1, <3>2
  <2>2. \A s \in Slots : s # r => req'[s] = req[s]
    BY <1>0, <1>2 DEF UpdateCheck, ReassignCheck, EscalateCheck, NoteCheck, LinkSelect, Check, TypeOK
  <2>3. UNCHANGED <<cases, history, sessions>>
    BY <1>2 DEF UpdateCheck, ReassignCheck, EscalateCheck, NoteCheck, LinkSelect, tables
  <2> QED
    BY <1>0, <2>1, <2>2, <2>3, GateKept, SessionsKept
<1>3. ASSUME NEW r \in Slots, NEW t \in 0 .. clock, UpdateSelect(r, t)
      PROVE  GateInv'
  <2> DEFINE q == req[r]
             o == cases[q.case]
  <2>1. q \in InFlight("checked", {"update"}, Body, {Null}, {Null}) /\ q.case \in DOMAIN cases
        /\ q.pc = "checked"
    BY <1>0, <1>3, InFlightType DEF UpdateSelect
  <2>2. UNCHANGED <<cases, history, sessions>>
    BY <1>3 DEF UpdateSelect, tables
  <2>3. CASE Select(r, t, o) /\ VerificationGate(o, q.body, t)
    <3>1. /\ req'[r].op = "update" /\ req'[r].old = o
          /\ req'[r].body = q.body /\ req'[r].case = q.case
          /\ \A s \in Slots : s # r => req'[s] = req[s]
      BY <1>0, <2>1, <2>3 DEF Select, InFlight, TypeOK
    <3>2. o.status = "open" /\ q.body.status = "in_progress" => Vouched(cases[q.case])
      BY <2>3 DEF VerificationGate, Vouched
    <3>3. GateFits(req'[r])
      BY <2>1, <3>1, <3>2 DEF GateFits
    <3> QED
      BY <1>0, <2>2, <3>1, <3>3, GateKept, SessionsKept
  <2>4. CASE Commit(r) \/ Answer(r)
    <3>1. req'[r].pc \in {"committed", "idle"} /\ \A s \in Slots : s # r => req'[s] = req[s]
      BY <1>0, <2>1, <2>4, CommitType, AnswerType
    <3>2. GateFits(req'[r])
      BY <3>1 DEF GateFits
    <3> QED
      BY <1>0, <2>2, <3>1, <3>2, GateKept, SessionsKept
  <2> QED
    BY <1>3, <2>3, <2>4 DEF UpdateSelect
<1>4. ASSUME NEW r \in Slots, UpdateWrite(r)
      PROVE  GateInv'
  <2> DEFINE q == req[r]
             row == UpdatedRow(cases[q.case], q.old, q.body, q.user, q.now)
             h == UpdatedHistory(history[q.case], q.old, q.body, q.user, q.now)
  <2>1. q \in InFlight("selected", {"update"}, Body, {Null}, CaseRow)
        /\ q.case \in DOMAIN cases /\ q.case \in Cases /\ q.pc = "selected" /\ q.op = "update"
    BY <1>0, <1>4, InFlightType DEF UpdateWrite
  <2>2. /\ history[q.case] \in Seq(Entry) /\ cases[q.case] \in CaseRow /\ q.old \in CaseRow
        /\ q.body \in Body /\ q.user \in Users /\ q.now \in Nat
    BY <1>0, <2>1 DEF TypeOK, InFlight
  <2>3. q.old.status = "open" /\ q.body.status = "in_progress" => Vouched(cases[q.case])
    BY <2>1 DEF GateInv, GateFits
  <2>4. Opens(h) => Opens(history[q.case]) \/ (q.old.status = "open" /\ q.body.status = "in_progress")
    BY <2>2, UpdateOpens
  <2>5. row.investor = cases[q.case].investor /\ row.verification = cases[q.case].verification
    BY <2>2 DEF UpdatedRow, CaseRow
  <2>6. cases' = [cases EXCEPT ![q.case] = row] /\ history' = [history EXCEPT ![q.case] = h]
        /\ Commit(r) /\ sessions' = sessions
    BY <1>4 DEF UpdateWrite
  <2>7. req'[r].pc = "committed" /\ \A s \in Slots : s # r => req'[s] = req[s]
    BY <1>0, <2>1, <2>6, CommitType
  <2>8. GateFits(req'[r])
    BY <2>7 DEF GateFits
  <2> HIDE DEF row, h, q
  <2>9. DOMAIN cases' = DOMAIN cases /\ \A d \in Cases : d # q.case => history'[d] = history[d]
    BY <1>0, <2>6 DEF TypeOK
  <2>10. ASSUME NEW d \in DOMAIN cases
         PROVE  /\ cases'[d].investor = cases[d].investor
                /\ cases'[d].verification = cases[d].verification
                /\ Opens(history'[d]) => Opens(history[d]) \/ Vouched(cases[d])
    <3>1. d \in Cases
      BY <1>0 DEF TypeOK
    <3>2. CASE d = q.case
      BY <1>0, <2>1, <2>3, <2>4, <2>5, <2>6, <3>2 DEF TypeOK
    <3>3. CASE d # q.case
      BY <2>6, <2>9, <3>1, <3>3
    <3> QED
      BY <3>2, <3>3
  <2> QED
    BY <1>0, <2>1, <2>6, <2>7, <2>8, <2>9, <2>10, GateKept, SessionsKept
<1>5. ASSUME NEW r \in Slots, NEW t \in 0 .. clock, ReassignSelect(r, t)
      PROVE  GateInv'
  <2>1. req[r] \in InFlight("checked", {"reassign"}, {Null}, Users, {Null})
    BY <1>0, <1>5, InFlightType DEF ReassignSelect
  <2>2. /\ req'[r].pc = "committed" \/ req'[r].op = "reassign"
        /\ \A s \in Slots : s # r => req'[s] = req[s]
    <3>1. CASE Commit(r)
      BY <1>0, <2>1, <3>1, CommitType DEF InFlight
    <3>2. CASE Select(r, t, cases[req[r].case])
      BY <1>0, <2>1, <3>2 DEF Select, InFlight, TypeOK
    <3> QED
      BY <1>5, <3>1, <3>2 DEF ReassignSelect
  <2>3. GateFits(req'[r])
    BY <2>2 DEF GateFits
  <2>4. UNCHANGED <<cases, history, sessions>>
    BY <1>5 DEF ReassignSelect, tables
  <2> QED
    BY <1>0, <2>2, <2>3, <2>4, GateKept, SessionsKept
<1>6. ASSUME NEW r \in Slots,
             ReassignWrite(r) \/ (\E t \in 0 .. clock, to \in Users : EscalateWrite(r, t, to))
      PROVE  GateInv'
  <2> DEFINE q == req[r]
  <2>1. q.case \in DOMAIN cases /\ q.case \in Cases /\ q.pc \in {"checked", "selected"}
    BY <1>0, <1>6, InFlightType DEF ReassignWrite, EscalateWrite
  <2>2. history[q.case] \in Seq(Entry) /\ cases[q.case] \in CaseRow
    BY <1>0, <2>1 DEF TypeOK
  <2>3. Commit(r) /\ sessions' = sessions
    BY <1>6 DEF ReassignWrite, EscalateWrite
  <2>4. req'[r].pc = "committed" /\ \A s \in Slots : s # r => req'[s] = req[s]
    BY <1>0, <2>1, <2>3, CommitType
  <2>5. GateFits(req'[r])
    BY <2>4 DEF GateFits
  <2>6. DOMAIN cases' = DOMAIN cases /\ \A d \in Cases : d # q.case => history'[d] = history[d]
    BY <1>0, <1>6 DEF ReassignWrite, EscalateWrite, TypeOK
  <2>7. \A d \in DOMAIN cases : d # q.case => cases'[d] = cases[d]
    BY <1>6 DEF ReassignWrite, EscalateWrite
  <2>8. /\ cases'[q.case].investor = cases[q.case].investor
        /\ cases'[q.case].verification = cases[q.case].verification
    <3> HIDE DEF q
    <3>1. ASSUME NEW x
          PROVE  /\ [cases[q.case] EXCEPT !.owner = x].investor = cases[q.case].investor
                 /\ [cases[q.case] EXCEPT !.owner = x].verification = cases[q.case].verification
                 /\ [cases[q.case] EXCEPT !.status = x].investor = cases[q.case].investor
                 /\ [cases[q.case] EXCEPT !.status = x].verification = cases[q.case].verification
      BY <2>2 DEF CaseRow
    <3>2. \/ cases'[q.case] = [cases[q.case] EXCEPT !.owner = q.target]
          \/ cases'[q.case] = [cases[q.case] EXCEPT !.status = "escalated"]
      BY <1>6, <2>1 DEF ReassignWrite, EscalateWrite, q
    <3> QED
      BY <3>1, <3>2
  <2>9. Opens(history'[q.case]) => Opens(history[q.case])
    <3>1. CASE ReassignWrite(r)
      <4>1. history'[q.case] = Log(history[q.case], TRUE, "owner", q.old.owner, q.target, q.user, q.now)
        BY <1>0, <2>1, <3>1 DEF ReassignWrite, TypeOK
      <4> HIDE DEF q
      <4> QED
        BY <2>2, <4>1, LogElsewhere
    <3>2. ASSUME NEW t \in 0 .. clock, NEW to \in Users, EscalateWrite(r, t, to)
          PROVE  Opens(history'[q.case]) => Opens(history[q.case])
      <4>1. history'[q.case] = Log(history[q.case], TRUE, "status", cases[q.case].status, "escalated", q.user, t)
        BY <1>0, <2>1, <3>2 DEF EscalateWrite, EscalatedHistory, TypeOK
      <4> DEFINE e == [field |-> "status", old |-> cases[q.case].status, new |-> "escalated",
                       by |-> q.user, at |-> t]
      <4>2. history'[q.case] = Append(history[q.case], e)
        BY <4>1 DEF Log
      <4>3. e.new # "in_progress"
        OBVIOUS
      <4> HIDE DEF q, e
      <4> QED
        BY <2>2, <4>2, <4>3, AppendOpens
    <3> QED
      BY <1>6, <3>1, <3>2
  <2> HIDE DEF q
  <2>10. \A d \in DOMAIN cases : d \in Cases
    BY <1>0 DEF TypeOK
  <2>11. \A d \in DOMAIN cases : /\ cases'[d].investor = cases[d].investor
                                 /\ cases'[d].verification = cases[d].verification
                                 /\ Opens(history'[d]) => Opens(history[d]) \/ Vouched(cases[d])
    BY <2>6, <2>7, <2>8, <2>9, <2>10
  <2> QED
    BY <1>0, <2>1, <2>3, <2>4, <2>5, <2>6, <2>11, GateKept, SessionsKept
<1>7. ASSUME NEW r \in Slots, LinkWrite(r)
      PROVE  GateInv'
  <2> DEFINE q == req[r]
  <2>1. /\ history' = history /\ sessions' = sessions /\ Commit(r)
        /\ q.pc = "selected" /\ q.op = "link"
    BY <1>7 DEF LinkWrite
  <2>2. Ended(q.target) /\ q.target # Null
    <3>1. q.target \in Sessions
      BY <1>0, <2>1, InFlightType DEF InFlight
    <3> QED
      BY <2>1, <3>1, NullAssumption DEF GateInv, GateFits
  <2>3. req'[r].pc = "committed" /\ \A s \in Slots : s # r => req'[s] = req[s]
    BY <1>0, <2>1, CommitType
  <2>4. CASE q.case \in DOMAIN cases
    <3>1. cases[q.case] \in CaseRow
      BY <1>0, <2>4 DEF TypeOK
    <3>2. /\ [cases[q.case] EXCEPT !.verification = q.target].verification = q.target
          /\ [cases[q.case] EXCEPT !.verification = q.target].investor = cases[q.case].investor
      <4> HIDE DEF q
      <4> QED
        BY <3>1 DEF CaseRow
    <3>3. /\ DOMAIN cases' = DOMAIN cases /\ cases'[q.case].verification = q.target
          /\ \A d \in DOMAIN cases : d # q.case => cases'[d] = cases[d]
      BY <1>7, <2>4, <3>2 DEF LinkWrite
    <3>4. \A d \in DOMAIN cases : Vouched(cases[d]) => Vouched(cases'[d])
      BY <2>2, <3>3 DEF Vouched
    <3>5. Vouched(cases'[q.case])
      BY <2>2, <3>3 DEF Vouched
    <3>6. ASSUME NEW d \in DOMAIN cases', cases'[d].verification # Null
          PROVE  Ended(cases[d].verification)'
      <4>1. PICK v : v = cases'[d].verification
        OBVIOUS
      <4>2. Ended(v)
        BY <2>2, <3>3, <3>6, <4>1 DEF GateInv
      <4> QED
        BY <2>1, <4>1, <4>2 DEF Ended
    <3>7. ASSUME NEW s \in Slots
          PROVE  GateFits(req[s])'
      <4>1. CASE s = r
        BY <2>3, <4>1 DEF GateFits
      <4>2. CASE s # r
        <5>1. req'[s] = req[s] /\ GateFits(req[s])
          BY <2>3, <4>2 DEF GateInv
        <5> QED
          BY <2>1, <3>3, <3>4, <5>1 DEF GateFits, Ended, Vouched
      <4> QED
        BY <4>1, <4>2
    <3>8. \A d \in DOMAIN cases' : (Opens(history[d]) => Vouched(cases[d]))'
      BY <2>1, <3>3, <3>4 DEF GateInv, Opens, Vouched
    <3> QED
      BY <1>0, <2>1, <3>3, <3>6, <3>7, <3>8 DEF GateInv
  <2>5. CASE q.case \notin DOMAIN cases
    <3>1. cases' = cases
      BY <1>7, <2>5 DEF LinkWrite
    <3>2. GateFits(req'[r])
      BY <2>3 DEF GateFits
    <3> QED
      BY <1>0, <2>1, <2>3, <3>1, <3>2, GateKept, SessionsKept
  <2> QED
    BY <2>4, <2>5
<1>8. ASSUME NEW r \in Slots, Abort(r) \/ Audit(r) \/ NoteWrite(r)
      PROVE  GateInv'
  <2>1. UNCHANGED <<cases, history, sessions>> /\ ((Commit(r) /\ req[r].pc = "checked") \/ Answer(r))
    BY <1>8 DEF Abort, Audit, NoteWrite, tables
  <2>2. req'[r].pc \in {"committed", "idle"} /\ \A s \in Slots : s # r => req'[s] = req[s]
    BY <1>0, <2>1, CommitType, AnswerType
  <2>3. GateFits(req'[r])
    BY <2>2 DEF GateFits
  <2> QED
    BY <1>0, <2>1, <2>2, <2>3, GateKept, SessionsKept
<1>9. CASE Verify
  <2>1. UNCHANGED <<cases, history, req>>
    BY <1>9 DEF Verify, StartVerification, CompleteVerification
  <2>2. \A v : Ended(v) => Ended(v)'
    <3>1. ASSUME NEW v \in Sessions, NEW i \in Investors, StartVerification(v, i)
          PROVE  \A w : Ended(w) => Ended(w)'
      BY <3>1 DEF StartVerification, Ended
    <3>2. ASSUME NEW v \in Sessions, NEW status \in {"passed", "failed", "skipped"},
                 CompleteVerification(v, status)
          PROVE  \A w : Ended(w) => Ended(w)'
      <4>1. sessions[v] \in Session
        BY <1>0, <3>2 DEF CompleteVerification, TypeOK
      <4>2. [sessions[v] EXCEPT !.status = status].status = status
        BY <4>1 DEF Session
      <4> QED
        BY <3>2, <4>2 DEF CompleteVerification, Ended
    <3> QED
      BY <1>9, <3>1, <3>2 DEF Verify
  <2> QED
    BY <1>0, <2>1, <2>2, GateKept
<1>10. CASE Tick \/ UNCHANGED vars
  <2>1. UNCHANGED <<cases, history, req, sessions>>
    BY <1>10 DEF Tick, vars, tables
  <2> QED
    BY <1>0, <2>1, GateKept, SessionsKept
<1> QED
  BY <1>1, <1>2, <1>3, <1>4, <1>5, <1>6, <1>7, <1>8, <1>9, <1>10 DEF Next, Receive, Serve

\* Only completed sessions are ever linked, and a case that was taken up from open for an
\* investor has a session linked, whatever happened between the gate's reading of the
\* session and the write
THEOREM GateLeavesTrail == Spec => []VerificationTrail
<1>1. Init => GateInv
  <2> SUFFICES ASSUME Init PROVE GateInv
    OBVIOUS
  <2>1. \A r \in Slots : req[r].pc = "idle"
    BY DEF Init, Idle
  <2>2. \A r \in Slots : GateFits(req[r])
    BY <2>1 DEF GateFits
  <2>3. DOMAIN cases = {} /\ \A c \in Cases : history[c] = <<>>
    BY DEF Init
  <2> QED
    BY <2>2, <2>3, InitType DEF GateInv
<1>2. GateInv /\ [Next]_vars => GateInv'
  BY GateStep
<1>3. GateInv => VerificationTrail
  BY DEF GateInv, VerificationTrail, Ended, Opens, Vouched
<1> QED
  BY <1>1, <1>2, <1>3, PTL DEF Spec

(* ----------------------- requests one at a time ----------------------- *)

\* Requests follow one another: there is one slot at most
OneByOne == \A r, s \in Slots : r = s

\* Nobody calls POST /escalations
NoEscalations == "escalate" \notin Endpoints

(* ------------------------------ the moves ----------------------------- *)

\* An entry about the status records one move more, any other none
LEMMA MovesAppended ==
  ASSUME NEW h \in Seq(Entry), NEW e
  PROVE  /\ DOMAIN MovesIn(h) \in SUBSET (1 .. Len(h)) /\ Len(h) \in Nat
         /\ e.field = "status" =>
              MovesIn(Append(h, e)) = Contract!Recorded(MovesIn(h), Len(h) + 1, <<e.old, e.new>>)
         /\ e.field # "status" => MovesIn(Append(h, e)) = MovesIn(h)
<1> DEFINE h2 == Append(h, e)
           D == {j \in 1 .. Len(h) : h[j].field = "status"}
           D2 == {j \in 1 .. Len(h2) : h2[j].field = "status"}
<1>1. /\ Len(h2) = Len(h) + 1 /\ Len(h) \in Nat /\ h2[Len(h) + 1] = e
      /\ \A i \in 1 .. Len(h) : h2[i] = h[i]
  OBVIOUS
<1> HIDE DEF h2
<1>2. \A j : j \in 1 .. (Len(h) + 1) <=> j \in 1 .. Len(h) \/ j = Len(h) + 1
  BY <1>1
<1>3. \A j : j \in D2 <=> j \in D \/ (j = Len(h) + 1 /\ e.field = "status")
  BY <1>1, <1>2
<1>4. MovesIn(h) = [i \in D |-> <<h[i].old, h[i].new>>] /\ MovesIn(h2) = [i \in D2 |-> <<h2[i].old, h2[i].new>>]
  BY DEF MovesIn
<1>5. D \in SUBSET (1 .. Len(h))
  OBVIOUS
<1>6. Len(h) + 1 \notin D
  BY <1>1
<1> HIDE DEF D, D2
<1>7. CASE e.field = "status"
  <2>1. D2 = D \cup {Len(h) + 1}
    BY <1>3, <1>7, Zenon
  <2>2. \A i \in D2 : <<h2[i].old, h2[i].new>> =
                        IF i = Len(h) + 1 THEN <<e.old, e.new>> ELSE <<h[i].old, h[i].new>>
    BY <1>1, <1>5, <2>1
  <2>3. MovesIn(h2) = [i \in D \cup {Len(h) + 1} |->
                         IF i = Len(h) + 1 THEN <<e.old, e.new>> ELSE <<h[i].old, h[i].new>>]
    BY <1>4, <2>1, <2>2
  <2>4. Contract!Recorded(MovesIn(h), Len(h) + 1, <<e.old, e.new>>) =
          [i \in D \cup {Len(h) + 1} |-> IF i = Len(h) + 1 THEN <<e.old, e.new>> ELSE MovesIn(h)[i]]
    BY <1>4 DEF Contract!Recorded
  <2>5. \A i \in D \cup {Len(h) + 1} :
          (IF i = Len(h) + 1 THEN <<e.old, e.new>> ELSE MovesIn(h)[i])
            = (IF i = Len(h) + 1 THEN <<e.old, e.new>> ELSE <<h[i].old, h[i].new>>)
    BY <1>4
  <2> QED
    BY <1>1, <1>4, <1>5, <1>7, <2>3, <2>4, <2>5 DEF h2
<1>8. CASE e.field # "status"
  <2>1. D2 = D
    BY <1>3, <1>8, Zenon
  <2>2. \A i \in D2 : <<h2[i].old, h2[i].new>> = <<h[i].old, h[i].new>>
    BY <1>1, <1>5, <2>1
  <2>3. MovesIn(h2) = MovesIn(h)
    BY <1>4, <2>1, <2>2
  <2> QED
    BY <1>1, <1>4, <1>5, <1>8, <2>3 DEF h2
<1> QED
  BY <1>7, <1>8

\* An entry about another column records no move
LEMMA NoMoveLogged ==
  ASSUME NEW h \in Seq(Entry), NEW field, NEW old, NEW new, NEW by, NEW at,
         NEW changed \in BOOLEAN, field # "status"
  PROVE  MovesIn(Log(h, changed, field, old, new, by, at)) = MovesIn(h)
<1> DEFINE e == [field |-> field, old |-> old, new |-> new, by |-> by, at |-> at]
<1>1. Log(h, changed, field, old, new, by, at) = IF changed THEN Append(h, e) ELSE h
  BY DEF Log
<1>2. e.field # "status"
  OBVIOUS
<1> HIDE DEF e
<1> QED
  BY <1>1, <1>2, MovesAppended

\* update_case records a change of status as a move, from the status it read, and nothing else
LEMMA UpdateMoves ==
  ASSUME NEW h \in Seq(Entry), NEW o \in CaseRow, NEW b \in Body, NEW u \in Users, NEW t \in Nat
  PROVE  MovesIn(UpdatedHistory(h, o, b, u, t)) =
           IF b.status # Null THEN Contract!Recorded(MovesIn(h), Len(h) + 1, <<o.status, b.status>>)
                              ELSE MovesIn(h)
<1> DEFINE e == [field |-> "status", old |-> o.status, new |-> b.status, by |-> u, at |-> t]
           h1 == Log(h, b.status # Null, "status", o.status, b.status, u, t)
           h2 == Log(h1, b.priority # Null, "priority", o.priority, b.priority, u, t)
           h3 == Log(h2, b.code # Null, "code", o.code, b.code, u, t)
           h4 == Log(h3, PicksUp(o, b, u), "owner", o.owner, u, u, t)
<1>0. /\ PicksUp(o, b, u) \in BOOLEAN /\ (b.status # Null) \in BOOLEAN
      /\ (b.priority # Null) \in BOOLEAN /\ (b.code # Null) \in BOOLEAN
  BY DEF PicksUp
<1>1. h1 \in Seq(Entry) /\ h2 \in Seq(Entry) /\ h3 \in Seq(Entry)
  <2>1. b.status # Null => e \in Entry
    BY DEF Entry, Body, CaseRow
  <2>2. b.priority # Null => [field |-> "priority", old |-> o.priority, new |-> b.priority, by |-> u, at |-> t] \in Entry
    BY DEF Entry, Body, CaseRow
  <2>3. b.code # Null => [field |-> "code", old |-> o.code, new |-> b.code, by |-> u, at |-> t] \in Entry
    BY DEF Entry, Body, CaseRow
  <2>4. h1 \in Seq(Entry)
    BY <1>0, <2>1, LogType
  <2>5. h2 \in Seq(Entry)
    <3> HIDE DEF h1
    <3> QED BY <1>0, <2>2, <2>4, LogType
  <2>6. h3 \in Seq(Entry)
    <3> HIDE DEF h2
    <3> QED BY <1>0, <2>3, <2>5, LogType
  <2> QED
    BY <2>4, <2>5, <2>6
<1>2. UpdatedHistory(h, o, b, u, t) = h4
  BY DEF UpdatedHistory, h1, h2, h3
<1>3. h1 = IF b.status # Null THEN Append(h, e) ELSE h
  BY DEF Log
<1>4. e.field = "status" /\ e.old = o.status /\ e.new = b.status
  OBVIOUS
<1> HIDE DEF e, h1
<1>5. MovesIn(h1) = IF b.status # Null THEN Contract!Recorded(MovesIn(h), Len(h) + 1, <<o.status, b.status>>)
                                       ELSE MovesIn(h)
  BY <1>3, <1>4, MovesAppended
<1>6. MovesIn(h2) = MovesIn(h1)
  <2> DEFINE changed == b.priority # Null
  <2>1. changed \in BOOLEAN /\ h2 = Log(h1, changed, "priority", o.priority, b.priority, u, t)
    BY <1>0
  <2> HIDE DEF changed, h2
  <2> QED
    BY <1>1, <2>1, NoMoveLogged
<1> HIDE DEF h2
<1>7. MovesIn(h3) = MovesIn(h2)
  <2> DEFINE changed == b.code # Null
  <2>1. changed \in BOOLEAN /\ h3 = Log(h2, changed, "code", o.code, b.code, u, t)
    BY <1>0
  <2> HIDE DEF changed, h3
  <2> QED
    BY <1>1, <2>1, NoMoveLogged
<1> HIDE DEF h3
<1>8. MovesIn(h4) = MovesIn(h3)
  BY <1>0, <1>1, NoMoveLogged
<1> HIDE DEF h4
<1> QED
  BY <1>2, <1>5, <1>6, <1>7, <1>8

\* The transition table is the documented one
LEMMA TableIsDocumented ==
  ASSUME NEW from \in Statuses, NEW to \in ValidNextStatuses(from)
  PROVE  <<from, to>> \in DocumentedMoves
BY DEF Statuses, ValidNextStatuses, ValidTransitions, DocumentedMoves

(* --------------------------- no overtaking ---------------------------- *)

\* What a request that nobody overtakes knows: the row it read is the row, and the move it was
\* allowed is one from there
Current(q, rows) ==
  /\ q.pc = "checked" => q.op # "escalate"
  /\ q.pc = "selected" /\ q.op = "update" => q.old = rows[q.case] /\ TransitionAllowed(q.old, q.body)

CurrentInv == TypeOK /\ \A r \in Slots : Current(req[r], cases)

\* A request that is current stays so while it does not move and the cases do not change
LEMMA StaysCurrent ==
  ASSUME OneByOne, CurrentInv, TypeOK', NEW r \in Slots, Current(req'[r], cases')
  PROVE  CurrentInv'
<1>1. ASSUME NEW s \in Slots
      PROVE  Current(req'[s], cases')
  <2>1. s = r
    BY DEF OneByOne
  <2> QED
    BY <2>1
<1> QED
  BY <1>1 DEF CurrentInv

\* No step of a request makes it out of date
LEMMA CurrentStep ==
  ASSUME OneByOne, NoEscalations, CurrentInv, [Next]_vars
  PROVE  CurrentInv'
<1>0. TypeOK /\ TypeOK'
  BY TypeStep DEF CurrentInv
<1>1. ASSUME NEW r \in Slots, req'[r].pc \notin {"checked", "selected"}
      PROVE  CurrentInv'
  <2>1. Current(req'[r], cases')
    BY <1>1 DEF Current
  <2> QED
    BY <1>0, <2>1, StaysCurrent
<1>2. ASSUME NEW r \in Slots, Receive(r)
      PROVE  CurrentInv'
  <2>1. ASSUME NEW u \in Users, NEW c \in Cases, NEW i \in Investors \cup {Null}, NEW p \in Priorities,
               Create(r, u, c, i, p)
        PROVE  CurrentInv'
    <3>1. req'[r].pc = "committed"
      BY <1>0, <2>1 DEF Create, Idle, TypeOK
    <3> QED
      BY <1>1, <3>1
  <2>2. ASSUME NEW u \in Users, NEW c \in Cases, NEW b, NEW t, NEW e \in Endpoints, Check(r, e, u, c, b, t)
        PROVE  CurrentInv'
    <3>1. req'[r].pc = "checked" /\ req'[r].op = e
      BY <1>0, <2>2 DEF Check, TypeOK
    <3>2. Current(req'[r], cases')
      BY <3>1 DEF Current, NoEscalations
    <3> QED
      BY <1>0, <3>2, StaysCurrent
  <2>3. ASSUME NEW u \in Users, NEW c \in Cases, NEW v \in Sessions, LinkSelect(r, u, c, v)
        PROVE  CurrentInv'
    <3>1. req'[r].pc = "selected" /\ req'[r].op = "link"
      BY <1>0, <2>3 DEF LinkSelect, Idle, TypeOK
    <3>2. Current(req'[r], cases')
      BY <3>1 DEF Current
    <3> QED
      BY <1>0, <3>2, StaysCurrent
  <2> QED
    BY <1>2, <2>1, <2>2, <2>3
       DEF Receive, UpdateCheck, ReassignCheck, EscalateCheck, NoteCheck, Admitted
<1>3. ASSUME NEW r \in Slots, NEW t \in 0 .. clock, UpdateSelect(r, t)
      PROVE  CurrentInv'
  <2> DEFINE q == req[r]
             o == cases[q.case]
  <2>1. q \in InFlight("checked", {"update"}, Body, {Null}, {Null}) /\ UNCHANGED cases
    BY <1>0, <1>3, InFlightType DEF UpdateSelect, tables
  <2>2. CASE Select(r, t, o) /\ TransitionAllowed(o, q.body)
    <3>1. req'[r].old = o /\ req'[r].body = q.body /\ req'[r].case = q.case /\ req'[r].pc = "selected"
      BY <1>0, <2>1, <2>2 DEF Select, InFlight, TypeOK
    <3> HIDE DEF q
    <3>2. Current(req'[r], cases')
      BY <2>1, <2>2, <3>1 DEF Current, TransitionAllowed
    <3> QED
      BY <1>0, <3>2, StaysCurrent
  <2>3. CASE Commit(r) \/ Answer(r)
    <3>1. req'[r].pc \in {"committed", "idle"}
      BY <1>0, <2>1, <2>3, CommitType, AnswerType DEF InFlight
    <3> QED
      BY <1>1, <3>1
  <2> QED
    BY <1>3, <2>2, <2>3 DEF UpdateSelect
<1>4. ASSUME NEW r \in Slots, NEW t \in 0 .. clock, ReassignSelect(r, t)
      PROVE  CurrentInv'
  <2>1. req[r] \in InFlight("checked", {"reassign"}, {Null}, Users, {Null})
    BY <1>0, <1>4, InFlightType DEF ReassignSelect
  <2>2. req'[r].pc = "committed" \/ (req'[r].pc = "selected" /\ req'[r].op = "reassign")
    <3>1. CASE Commit(r)
      BY <1>0, <2>1, <3>1, CommitType DEF InFlight
    <3>2. CASE Select(r, t, cases[req[r].case])
      BY <1>0, <2>1, <3>2 DEF Select, InFlight, TypeOK
    <3> QED
      BY <1>4, <3>1, <3>2 DEF ReassignSelect
  <2>3. Current(req'[r], cases')
    BY <2>2 DEF Current
  <2> QED
    BY <1>0, <2>3, StaysCurrent
<1>5. ASSUME NEW r \in Slots, Commit(r), req[r].pc \in {"checked", "selected"}
      PROVE  CurrentInv'
  BY <1>0, <1>1, <1>5, CommitType
<1>6. ASSUME NEW r \in Slots, Answer(r)
      PROVE  CurrentInv'
  BY <1>0, <1>1, <1>6, AnswerType
<1>7. ASSUME UNCHANGED <<cases, req>>
      PROVE  CurrentInv'
  <2>1. ASSUME NEW s \in Slots
        PROVE  Current(req'[s], cases')
    BY <1>7 DEF CurrentInv, Current, TransitionAllowed
  <2> QED
    BY <1>0, <2>1 DEF CurrentInv
<1>8. ASSUME NEW r \in Slots, Serve(r)
      PROVE  CurrentInv'
  BY <1>3, <1>4, <1>5, <1>6, <1>8
     DEF Serve, UpdateWrite, ReassignWrite, EscalateWrite, NoteWrite, LinkWrite, Audit
<1>9. CASE UNCHANGED vars
  BY <1>7, <1>9 DEF vars
<1>10. CASE Verify \/ Tick
  BY <1>7, <1>10 DEF Verify, StartVerification, CompleteVerification, Tick, tables
<1> QED
  BY <1>2, <1>6, <1>8, <1>9, <1>10 DEF Next, Abort

(* ---------------------- what a step does to a case -------------------- *)

\* What the contract and the stamps look at stays as it was
Unmoved ==
  /\ DOMAIN cases' = DOMAIN cases
  /\ \A c \in DOMAIN cases : \A f \in {"status", "firstResponse", "resolvedAt", "closedAt"} :
       cases'[c][f] = cases[c][f]
  /\ \A c \in Cases : MovesIn(history'[c]) = MovesIn(history[c])

\* A case is created
Opened(c) ==
  /\ c \notin DOMAIN cases
  /\ DOMAIN cases' = DOMAIN cases \cup {c} /\ cases'[c].status = "open"
  /\ \A d \in DOMAIN cases : cases'[d] = cases[d]
  /\ UNCHANGED history

\* update_case writes on the evidence of the row that is there
Patched(c, b, u, t) ==
  /\ TransitionAllowed(cases[c], b)
  /\ cases' = [cases EXCEPT ![c] = UpdatedRow(cases[c], cases[c], b, u, t)]
  /\ history' = [history EXCEPT ![c] = UpdatedHistory(history[c], cases[c], b, u, t)]

\* A column that is not the one written keeps its value
LEMMA OtherColumns ==
  ASSUME NEW row \in CaseRow, NEW x
  PROVE  \A f \in {"status", "firstResponse", "resolvedAt", "closedAt"} :
           /\ [row EXCEPT !.owner = x][f] = row[f]
           /\ [row EXCEPT !.verification = x][f] = row[f]
BY DEF CaseRow

\* Every step is one of the three
LEMMA StepKinds ==
  ASSUME OneByOne, NoEscalations, CurrentInv, [Next]_vars
  PROVE  \/ Unmoved
         \/ \E c \in Cases : Opened(c)
         \/ \E c \in DOMAIN cases, b \in Body, u \in Users, t \in Nat : Patched(c, b, u, t)
<1>0. TypeOK
  BY DEF CurrentInv
<1>1. ASSUME UNCHANGED <<cases, history>>
      PROVE  Unmoved
  BY <1>1 DEF Unmoved
<1>2. ASSUME NEW r \in Slots, NEW u \in Users, NEW c \in Cases, NEW i \in Investors \cup {Null},
             NEW p \in Priorities, Create(r, u, c, i, p)
      PROVE  Opened(c)
  <2>1. NewRow(u, i, p).status = "open"
    BY DEF NewRow
  <2> QED
    BY <1>2, <2>1 DEF Create, Opened
<1>3. ASSUME NEW r \in Slots, UpdateWrite(r)
      PROVE  \E c \in DOMAIN cases, b \in Body, u \in Users, t \in Nat : Patched(c, b, u, t)
  <2> DEFINE q == req[r]
  <2>1. q \in InFlight("selected", {"update"}, Body, {Null}, CaseRow) /\ q.case \in DOMAIN cases
    BY <1>0, <1>3, InFlightType DEF UpdateWrite
  <2>2. q.body \in Body /\ q.user \in Users /\ q.now \in Nat
    BY <2>1 DEF InFlight
  <2>3. q.old = cases[q.case] /\ TransitionAllowed(q.old, q.body)
    BY <1>3 DEF CurrentInv, Current, UpdateWrite
  <2>4. Patched(q.case, q.body, q.user, q.now)
    BY <1>3, <2>3 DEF UpdateWrite, Patched
  <2> HIDE DEF q
  <2> QED
    BY <2>1, <2>2, <2>4
<1>4. ASSUME NEW r \in Slots, ReassignWrite(r)
      PROVE  Unmoved
  <2> DEFINE q == req[r]
  <2>1. q \in InFlight("selected", {"reassign"}, {Null}, Users, CaseRow) /\ q.case \in DOMAIN cases
    BY <1>0, <1>4, InFlightType DEF ReassignWrite
  <2>2. q.case \in Cases /\ history[q.case] \in Seq(Entry) /\ cases \in [DOMAIN cases -> CaseRow]
        /\ history \in [Cases -> Seq(Entry)]
    BY <1>0, <2>1 DEF InFlight, TypeOK
  <2>3. /\ cases' = [cases EXCEPT ![q.case] = [cases[q.case] EXCEPT !.owner = q.target]]
        /\ history' = [history EXCEPT
                         ![q.case] = Log(history[q.case], TRUE, "owner", q.old.owner, q.target, q.user, q.now)]
    BY <1>4, <2>1 DEF ReassignWrite
  <2> HIDE DEF q
  <2>4. MovesIn(Log(history[q.case], TRUE, "owner", q.old.owner, q.target, q.user, q.now)) = MovesIn(history[q.case])
    <3> DEFINE e == [field |-> "owner", old |-> q.old.owner, new |-> q.target, by |-> q.user, at |-> q.now]
    <3>1. Log(history[q.case], TRUE, "owner", q.old.owner, q.target, q.user, q.now) = Append(history[q.case], e)
      BY DEF Log
    <3>2. e.field # "status"
      OBVIOUS
    <3> HIDE DEF e
    <3> QED
      BY <2>2, <3>1, <3>2, MovesAppended
  <2>5. \A c \in Cases : MovesIn(history'[c]) = MovesIn(history[c])
    BY <2>2, <2>3, <2>4
  <2>6. \A c \in DOMAIN cases : cases'[c] = IF c = q.case THEN [cases[q.case] EXCEPT !.owner = q.target] ELSE cases[c]
    BY <2>3
  <2>7. DOMAIN cases' = DOMAIN cases
    BY <2>3
  <2>8. cases[q.case] \in CaseRow
    BY <2>1, <2>2
  <2>9. \A c \in DOMAIN cases : \A f \in {"status", "firstResponse", "resolvedAt", "closedAt"} :
          cases'[c][f] = cases[c][f]
    <3> DEFINE row == [cases[q.case] EXCEPT !.owner = q.target]
    <3>1. \A f \in {"status", "firstResponse", "resolvedAt", "closedAt"} : row[f] = cases[q.case][f]
      BY <2>8, OtherColumns
    <3> HIDE DEF row
    <3> QED
      BY <2>6, <3>1 DEF row
  <2> QED
    BY <2>5, <2>7, <2>9 DEF Unmoved
<1>5. ASSUME NEW r \in Slots, LinkWrite(r)
      PROVE  Unmoved
  <2> DEFINE q == req[r]
  <2>1. CASE q.case \in DOMAIN cases
    <3>1. cases[q.case] \in CaseRow
      BY <1>0, <2>1 DEF TypeOK
    <3>2. cases' = [cases EXCEPT ![q.case] = [cases[q.case] EXCEPT !.verification = q.target]] /\ UNCHANGED history
      BY <1>5, <2>1 DEF LinkWrite
    <3> HIDE DEF q
    <3>3. /\ DOMAIN cases' = DOMAIN cases
          /\ \A c \in DOMAIN cases :
               cases'[c] = IF c = q.case THEN [cases[q.case] EXCEPT !.verification = q.target] ELSE cases[c]
      BY <3>2
    <3> QED
      BY <3>1, <3>2, <3>3, OtherColumns DEF Unmoved
  <2>2. CASE q.case \notin DOMAIN cases
    BY <1>1, <1>5, <2>2 DEF LinkWrite
  <2> QED
    BY <2>1, <2>2
<1>6. ASSUME NEW r \in Slots, NEW t \in 0 .. clock, NEW to \in Users, EscalateWrite(r, t, to)
      PROVE  FALSE
  BY <1>6 DEF EscalateWrite, CurrentInv, Current
<1>7. CASE UNCHANGED vars
  BY <1>1, <1>7 DEF vars
<1>8. CASE Verify \/ Tick
  BY <1>1, <1>8 DEF Verify, StartVerification, CompleteVerification, Tick, tables
<1>9. ASSUME NEW r \in Slots, Receive(r)
      PROVE  Unmoved \/ \E c \in Cases : Opened(c)
  BY <1>1, <1>2, <1>9 DEF Receive, UpdateCheck, ReassignCheck, EscalateCheck, NoteCheck, LinkSelect, tables
<1>10. ASSUME NEW r \in Slots, Serve(r) \/ Abort(r)
       PROVE  \/ Unmoved
              \/ \E c \in DOMAIN cases, b \in Body, u \in Users, t \in Nat : Patched(c, b, u, t)
  BY <1>1, <1>3, <1>4, <1>5, <1>6, <1>10
     DEF Serve, UpdateSelect, ReassignSelect, NoteWrite, Audit, Abort, tables
<1> QED
  BY <1>7, <1>8, <1>9, <1>10 DEF Next

\* The columns a PATCH decided on the row itself leaves behind
LEMMA PatchedColumns ==
  ASSUME NEW row \in CaseRow, NEW b \in Body, NEW u \in Users, NEW t \in Nat, TransitionAllowed(row, b)
  PROVE  LET new == UpdatedRow(row, row, b, u, t)
         IN  /\ new.status = Keep(b.status, row.status)
             /\ row.firstResponse # Null => new.firstResponse = row.firstResponse
             /\ row.resolvedAt # Null => new.resolvedAt = row.resolvedAt
             /\ row.closedAt # Null => new.closedAt = row.closedAt
             /\ row.status = "open" /\ new.status # "open" => new.firstResponse # Null
<1> DEFINE new == UpdatedRow(row, row, b, u, t)
<1>1. /\ new.status = Keep(b.status, row.status)
      /\ new.firstResponse = IF FirstResponds(row, b) THEN t ELSE row.firstResponse
      /\ new.resolvedAt = IF Resolves(row, b) THEN t ELSE row.resolvedAt
      /\ new.closedAt = IF Closes(row, b) THEN t ELSE row.closedAt
  BY DEF UpdatedRow, CaseRow
<1> HIDE DEF new
<1>2. t # Null
  BY NullAssumption
<1> QED
  BY <1>1, <1>2 DEF new, Keep, FirstResponds, Resolves, Closes

(* ------------------ stamps, first response, contract ------------------ *)

\* No request is ever out of date
LEMMA AlwaysCurrent ==
  ASSUME OneByOne, NoEscalations
  PROVE  Spec => []CurrentInv
<1>1. Init => CurrentInv
  BY InitType DEF Init, CurrentInv, Current, Idle
<1>2. CurrentInv /\ [Next]_vars => CurrentInv'
  BY CurrentStep
<1> QED
  BY <1>1, <1>2, PTL DEF Spec

\* A case that left 'open' has its first response recorded
THEOREM FirstResponseAlwaysRecorded ==
  ASSUME OneByOne, NoEscalations
  PROVE  Spec => []FirstResponseRecorded
<1>1. Init => FirstResponseRecorded
  BY DEF Init, FirstResponseRecorded
<1>2. ASSUME CurrentInv, FirstResponseRecorded, [Next]_vars
      PROVE  FirstResponseRecorded'
  <2>1. ASSUME NEW c \in DOMAIN cases', cases'[c].status # "open"
        PROVE  cases'[c].firstResponse # Null
    <3>1. CASE Unmoved
      BY <1>2, <2>1, <3>1 DEF Unmoved, FirstResponseRecorded
    <3>2. ASSUME NEW d \in Cases, Opened(d)
          PROVE  cases'[c].firstResponse # Null
      BY <1>2, <2>1, <3>2 DEF Opened, FirstResponseRecorded
    <3>3. ASSUME NEW d \in DOMAIN cases, NEW b \in Body, NEW u \in Users, NEW t \in Nat, Patched(d, b, u, t)
          PROVE  cases'[c].firstResponse # Null
      <4> DEFINE new == UpdatedRow(cases[d], cases[d], b, u, t)
      <4>1. cases[d] \in CaseRow
        BY <1>2 DEF CurrentInv, TypeOK
      <4>2. /\ cases[d].firstResponse # Null => new.firstResponse = cases[d].firstResponse
            /\ cases[d].status = "open" /\ new.status # "open" => new.firstResponse # Null
        BY <3>3, <4>1, PatchedColumns DEF Patched
      <4>3. c \in DOMAIN cases /\ cases'[c] = IF c = d THEN new ELSE cases[c]
        BY <2>1, <3>3 DEF Patched
      <4> HIDE DEF new
      <4> QED
        BY <1>2, <2>1, <4>2, <4>3 DEF FirstResponseRecorded
    <3> QED
      BY <1>2, <3>1, <3>2, <3>3, StepKinds
  <2> QED
    BY <2>1 DEF FirstResponseRecorded
<1> QED
  BY <1>1, <1>2, AlwaysCurrent, PTL DEF Spec

\* first_response_at, resolved_at and closed_at keep the value they were first given
THEOREM StampsAreFirst ==
  ASSUME OneByOne, NoEscalations
  PROVE  Spec => StampsNeverMove
<1> DEFINE Kept(c) == /\ cases[c].firstResponse # Null => cases'[c].firstResponse = cases[c].firstResponse
                      /\ cases[c].resolvedAt # Null => cases'[c].resolvedAt = cases[c].resolvedAt
                      /\ cases[c].closedAt # Null => cases'[c].closedAt = cases[c].closedAt
<1>1. ASSUME CurrentInv, [Next]_vars, NEW c \in DOMAIN cases
      PROVE  Kept(c)
  <2>1. CASE Unmoved
    BY <1>1, <2>1 DEF Unmoved
  <2>2. ASSUME NEW d \in Cases, Opened(d)
        PROVE  Kept(c)
    BY <1>1, <2>2 DEF Opened
  <2>3. ASSUME NEW d \in DOMAIN cases, NEW b \in Body, NEW u \in Users, NEW t \in Nat, Patched(d, b, u, t)
        PROVE  Kept(c)
    <3> DEFINE new == UpdatedRow(cases[d], cases[d], b, u, t)
    <3>1. cases[d] \in CaseRow
      BY <1>1 DEF CurrentInv, TypeOK
    <3>2. /\ cases[d].firstResponse # Null => new.firstResponse = cases[d].firstResponse
          /\ cases[d].resolvedAt # Null => new.resolvedAt = cases[d].resolvedAt
          /\ cases[d].closedAt # Null => new.closedAt = cases[d].closedAt
      BY <2>3, <3>1, PatchedColumns DEF Patched
    <3>3. cases'[c] = IF c = d THEN new ELSE cases[c]
      BY <1>1, <2>3 DEF Patched
    <3> HIDE DEF new
    <3> QED
      BY <3>2, <3>3
  <2> QED
    BY <1>1, <2>1, <2>2, <2>3, StepKinds
<1>2. CurrentInv /\ [Next]_vars => [\A c \in DOMAIN cases : Kept(c)]_cases
  BY <1>1
<1> QED
  BY <1>2, AlwaysCurrent, PTL DEF Spec, StampsNeverMove

\* "Closed" is terminal, as CASE_LIFECYCLE.md says, when requests follow one another and nobody
\* escalates: without the second claim_closed_reescalated refutes it, without the first a
\* PATCH decided before the case was closed does
THEOREM ClosedIsTerminalThen ==
  ASSUME OneByOne, NoEscalations
  PROVE  Spec => ClosedIsTerminal
<1>1. ASSUME CurrentInv, [Next]_vars, NEW c \in DOMAIN cases, cases[c].status = "closed"
      PROVE  cases'[c].status = "closed"
  <2>1. CASE Unmoved
    BY <1>1, <2>1 DEF Unmoved
  <2>2. ASSUME NEW d \in Cases, Opened(d)
        PROVE  cases'[c].status = "closed"
    BY <1>1, <2>2 DEF Opened
  <2>3. ASSUME NEW d \in DOMAIN cases, NEW b \in Body, NEW u \in Users, NEW t \in Nat, Patched(d, b, u, t)
        PROVE  cases'[c].status = "closed"
    <3> DEFINE new == UpdatedRow(cases[d], cases[d], b, u, t)
    <3>1. cases[d] \in CaseRow
      BY <1>1 DEF CurrentInv, TypeOK
    <3>2. TransitionAllowed(cases[d], b) /\ cases' = [cases EXCEPT ![d] = new]
      BY <2>3 DEF Patched
    <3>3. new.status = Keep(b.status, cases[d].status)
      BY <3>1, <3>2, PatchedColumns
    <3> HIDE DEF new
    <3>4. c = d => b.status = Null
      BY <1>1, <3>2 DEF TransitionAllowed, ValidNextStatuses, ValidTransitions
    <3>5. cases'[c] = IF c = d THEN new ELSE cases[c]
      BY <1>1, <3>2
    <3> QED
      BY <1>1, <3>3, <3>4, <3>5 DEF Keep
  <2> QED
    BY <1>1, <2>1, <2>2, <2>3, StepKinds
<1>2. CurrentInv /\ [Next]_vars =>
        [\A c \in DOMAIN cases : cases[c].status = "closed" => cases'[c].status = "closed"]_cases
  BY <1>1
<1> QED
  BY <1>2, AlwaysCurrent, PTL DEF Spec, ClosedIsTerminal

\* The contract, read off the tables
Stage == [c \in Cases |-> IF c \in DOMAIN cases THEN cases[c].status ELSE "none"]
Trail == [c \in Cases |-> MovesIn(history[c])]

\* A PATCH that changes a status is a move of the contract
LEMMA PatchIsMove ==
  ASSUME TypeOK, TypeOK', NEW c \in DOMAIN cases, NEW b \in Body, NEW u \in Users, NEW t \in Nat,
         Patched(c, b, u, t), b.status # Null
  PROVE  Contract!Move(c, b.status) /\ <<cases[c].status, b.status>> \in DocumentedMoves /\ c \in Cases
<1> DEFINE move == <<cases[c].status, b.status>>
           n == Len(history[c]) + 1
<1>1. /\ c \in Cases /\ cases[c] \in CaseRow /\ history[c] \in Seq(Entry)
      /\ history \in [Cases -> Seq(Entry)] /\ cases[c].status \in Statuses
  BY DEF TypeOK, CaseRow
<1>2. move \in DocumentedMoves
  BY <1>1, TableIsDocumented DEF Patched, TransitionAllowed
<1>3. Stage[c] = cases[c].status /\ Trail[c] = MovesIn(history[c])
  BY <1>1 DEF Stage, Trail
<1>4. /\ MovesIn(history'[c]) = Contract!Recorded(MovesIn(history[c]), n, move)
      /\ \A d \in Cases : d # c => history'[d] = history[d]
  <2>1. /\ history'[c] = UpdatedHistory(history[c], cases[c], b, u, t)
        /\ \A d \in Cases : d # c => history'[d] = history[d]
    BY <1>1 DEF Patched
  <2> QED
    BY <1>1, <2>1, UpdateMoves
<1>5. Trail' = [Trail EXCEPT ![c] = Contract!Recorded(Trail[c], n, move)]
  <2>1. Trail' = [d \in Cases |-> MovesIn(history'[d])]
    BY DEF Trail
  <2>2. \A d \in Cases : MovesIn(history'[d]) = IF d = c THEN Contract!Recorded(Trail[c], n, move) ELSE Trail[d]
    BY <1>3, <1>4 DEF Trail
  <2>3. Trail = [d \in Cases |-> Trail[d]]
    BY DEF Trail
  <2> QED
    BY <2>1, <2>2, <2>3
<1>6. Stage' = [Stage EXCEPT ![c] = b.status]
  <2>1. UpdatedRow(cases[c], cases[c], b, u, t).status = b.status
    BY <1>1, PatchedColumns DEF Patched, Keep
  <2>2. /\ DOMAIN cases' = DOMAIN cases /\ cases'[c].status = b.status
        /\ \A d \in DOMAIN cases : d # c => cases'[d] = cases[d]
    BY <2>1 DEF Patched
  <2> QED
    BY <1>1, <2>2 DEF Stage
<1>7. n \in DOMAIN Trail'[c] /\ \A k \in DOMAIN Trail[c] : k < n
  <2>1. DOMAIN MovesIn(history[c]) \in SUBSET (1 .. Len(history[c])) /\ Len(history[c]) \in Nat
    BY <1>1, MovesAppended
  <2>2. DOMAIN MovesIn(history'[c]) = DOMAIN MovesIn(history[c]) \cup {n}
    BY <1>4 DEF Contract!Recorded
  <2>3. Trail'[c] = MovesIn(history'[c])
    BY <1>1 DEF Trail
  <2> HIDE DEF n
  <2>4. \A k \in 1 .. Len(history[c]) : k < n
    BY <2>1 DEF n
  <2> QED
    BY <1>3, <2>1, <2>2, <2>3, <2>4
<1> HIDE DEF n, move
<1>8. /\ <<Stage[c], b.status>> \in DocumentedMoves
      /\ Stage' = [Stage EXCEPT ![c] = b.status]
      /\ \E k \in DOMAIN Trail'[c] :
           /\ \A j \in DOMAIN Trail[c] : j < k
           /\ Trail' = [Trail EXCEPT ![c] = Contract!Recorded(Trail[c], k, <<Stage[c], b.status>>)]
  BY <1>2, <1>3, <1>5, <1>6, <1>7 DEF move
<1> QED
  BY <1>1, <1>2, <1>8 DEF Contract!Move, Stage, Trail, move

\* Cases move only as documented, one move at a time, and case_history holds every move, with
\* the status really left and the status really taken
THEOREM ContractIsKept ==
  ASSUME OneByOne, NoEscalations
  PROVE  Spec => ContractKept
<1>1. Init => Contract!Init
  <2> SUFFICES ASSUME Init PROVE Contract!Init
    OBVIOUS
  <2>1. MovesIn(<<>>) = [n \in {} |-> <<>>]
    BY DEF MovesIn
  <2>2. \A c \in Cases : history[c] = <<>> /\ c \notin DOMAIN cases
    BY DEF Init
  <2> QED
    BY <2>1, <2>2 DEF Contract!Init
<1>2. ASSUME CurrentInv, [Next]_vars
      PROVE  [Contract!Next]_<<Stage, Trail>>
  <2>0. TypeOK /\ TypeOK'
    BY <1>2, TypeStep DEF CurrentInv
  <2>1. CASE Unmoved
    <3>1. Stage' = Stage
      BY <2>1 DEF Unmoved, Stage
    <3>2. Trail' = Trail
      BY <2>1 DEF Unmoved, Trail
    <3> QED
      BY <3>1, <3>2
  <2>2. ASSUME NEW c \in Cases, Opened(c)
        PROVE  Contract!Next
    <3>1. Trail' = Trail
      BY <2>2 DEF Opened, Trail
    <3>2. Stage[c] = "none" /\ Stage' = [Stage EXCEPT ![c] = "open"]
      BY <2>2 DEF Opened, Stage
    <3>3. Contract!Open(c)
      BY <3>1, <3>2 DEF Contract!Open, Stage, Trail
    <3> QED
      BY <3>3 DEF Contract!Next
  <2>3. ASSUME NEW c \in DOMAIN cases, NEW b \in Body, NEW u \in Users, NEW t \in Nat, Patched(c, b, u, t)
        PROVE  [Contract!Next]_<<Stage, Trail>>
    <3>1. CASE b.status # Null
      <4>1. Contract!Move(c, b.status) /\ <<cases[c].status, b.status>> \in DocumentedMoves /\ c \in Cases
        BY <2>0, <2>3, <3>1, PatchIsMove
      <4>2. <<cases[c].status, b.status>>[2] = b.status
        OBVIOUS
      <4>3. PICK m \in DocumentedMoves : m[2] = b.status
        BY <4>1, <4>2
      <4>4. Contract!Move(c, m[2])
        BY <4>1, <4>3
      <4>5. Contract!Next
        BY <4>1, <4>4 DEF Contract!Next
      <4> QED
        BY <4>5
    <3>2. CASE b.status = Null
      <4>1. /\ c \in Cases /\ cases[c] \in CaseRow /\ history[c] \in Seq(Entry)
            /\ history \in [Cases -> Seq(Entry)]
        BY <2>0 DEF TypeOK
      <4>2. UpdatedRow(cases[c], cases[c], b, u, t).status = cases[c].status
        BY <2>3, <3>2, <4>1, PatchedColumns DEF Patched, Keep
      <4>3. /\ DOMAIN cases' = DOMAIN cases
            /\ \A d \in DOMAIN cases : cases'[d].status = cases[d].status
        BY <2>3, <4>2 DEF Patched
      <4>4. Stage' = Stage
        BY <4>3 DEF Stage
      <4>5. MovesIn(UpdatedHistory(history[c], cases[c], b, u, t)) = MovesIn(history[c])
        BY <3>2, <4>1, UpdateMoves
      <4>6. \A d \in Cases : MovesIn(history'[d]) = MovesIn(history[d])
        BY <2>3, <4>1, <4>5 DEF Patched
      <4>7. Trail' = Trail
        BY <4>6 DEF Trail
      <4> QED
        BY <4>4, <4>7
    <3> QED
      BY <3>1, <3>2
  <2> QED
    BY <1>2, <2>1, <2>2, <2>3, StepKinds
<1>3. CurrentInv /\ [Next]_vars => [Contract!Next]_<<Stage, Trail>>
  BY <1>2
<1> QED
  BY <1>1, <1>3, AlwaysCurrent, PTL DEF Spec, ContractKept, Contract!Spec, Stage, Trail

(* ----------------------- the time a case waited ----------------------- *)

\* The instants of all stays in pending_customer
PendingInstants(h) == UNION {Waited(h, i) : i \in 1 .. Len(h)}

\* Entry j is the last one about the status
LastMove(h, j) ==
  /\ j \in 1 .. Len(h) /\ h[j].field = "status"
  /\ \A k \in (j + 1) .. Len(h) : h[k].field # "status"

\* What an entry adds to the instants: those since the last move, if it ends a stay
LEMMA InstantsAppended ==
  ASSUME NEW h \in Seq(Entry), NEW e
  PROVE  /\ ~(e.field = "status" /\ e.old = "pending_customer") =>
              PendingInstants(Append(h, e)) = PendingInstants(h)
         /\ \A j : e.field = "status" /\ e.old = "pending_customer" /\ LastMove(h, j) =>
              PendingInstants(Append(h, e)) =
                PendingInstants(h) \cup ({Len(h) + 1} \X (h[j].at .. e.at - 1))
         /\ PendingInstants(h) \cap ({Len(h) + 1} \X Int) = {}
<1> DEFINE h2 == Append(h, e)
           n == Len(h)
<1>1. /\ Len(h2) = n + 1 /\ n \in Nat /\ h2[n + 1] = e
      /\ \A i \in 1 .. n : h2[i] = h[i]
  BY Appended
<1> HIDE DEF h2
<1>2. ASSUME NEW i \in 1 .. n
      PROVE  Waited(h2, i) = Waited(h, i)
  <2>1. ASSUME NEW j \in 1 .. (i - 1)
        PROVE  (Stay(h2, j, i) <=> Stay(h, j, i)) /\ h2[j].at = h[j].at /\ h2[i].at = h[i].at
    <3>1. h2[j] = h[j] /\ h2[i] = h[i] /\ \A k \in (j + 1) .. (i - 1) : h2[k] = h[k]
      BY <1>1
    <3>2. QED BY <3>1 DEF Stay
  <2>2. {k \in 1 .. (i - 1) : Stay(h2, k, i)} = {k \in 1 .. (i - 1) : Stay(h, k, i)}
    BY <2>1
  <2>3. {h2[j].at .. h2[i].at - 1 : j \in {k \in 1 .. (i - 1) : Stay(h2, k, i)}}
          = {h[j].at .. h[i].at - 1 : j \in {k \in 1 .. (i - 1) : Stay(h, k, i)}}
    BY <2>1
  <2>4. QED BY <2>3 DEF Waited
<1>3. PendingInstants(h2) = PendingInstants(h) \cup Waited(h2, n + 1)
  <2>1. 1 .. Len(h2) = (1 .. n) \cup {n + 1}
    BY <1>1
  <2>2. PendingInstants(h2) = UNION {Waited(h2, i) : i \in (1 .. n) \cup {n + 1}}
    BY <2>1 DEF PendingInstants
  <2>3. PendingInstants(h) = UNION {Waited(h, i) : i \in 1 .. n}
    BY DEF PendingInstants
  <2> HIDE DEF n
  <2>4. QED BY <1>2, <2>2, <2>3
<1>4. ASSUME ~(e.field = "status" /\ e.old = "pending_customer")
      PROVE  Waited(h2, n + 1) = {}
  <2>1. \A k : ~Stay(h2, k, n + 1)
    BY <1>1, <1>4 DEF Stay
  <2>2. QED BY <2>1 DEF Waited
<1>5. ASSUME NEW j, e.field = "status", e.old = "pending_customer", LastMove(h, j)
      PROVE  Waited(h2, n + 1) = {n + 1} \X (h[j].at .. e.at - 1)
  <2>1. j \in 1 .. n /\ h[j].field = "status" /\ \A k \in (j + 1) .. n : h[k].field # "status"
    BY <1>5 DEF LastMove
  <2>2. Stay(h2, j, n + 1)
    <3>1. \A k \in (j + 1) .. (n + 1 - 1) : h2[k].field # "status"
      BY <1>1, <2>1
    <3>2. QED BY <1>1, <1>5, <2>1, <3>1 DEF Stay
  <2>3. ASSUME NEW k \in 1 .. (n + 1 - 1), Stay(h2, k, n + 1)
        PROVE  k = j
    <3>1. k \in 1 .. n /\ h[k].field = "status"
      BY <1>1, <2>3 DEF Stay
    <3>2. ~(k > j)
      BY <1>1, <2>1, <3>1
    <3>3. ~(j > k)
      <4> SUFFICES ASSUME j > k PROVE FALSE
        OBVIOUS
      <4>1. j \in (k + 1) .. (n + 1 - 1)
        BY <1>1, <2>1, <3>1
      <4>2. h2[j].field # "status"
        BY <2>3, <4>1 DEF Stay
      <4>3. QED BY <1>1, <2>1, <4>2
    <3>4. QED BY <2>1, <3>1, <3>2, <3>3
  <2>4. {k \in 1 .. (n + 1 - 1) : Stay(h2, k, n + 1)} = {j}
    <3>1. j \in 1 .. (n + 1 - 1)
      BY <1>1, <2>1
    <3>2. QED BY <2>2, <2>3, <3>1
  <2>5. {h2[k].at .. h2[n + 1].at - 1 : k \in {k \in 1 .. (n + 1 - 1) : Stay(h2, k, n + 1)}}
          = {h[j].at .. e.at - 1}
    BY <1>1, <2>1, <2>4
  <2> DEFINE stays == {k \in 1 .. (n + 1 - 1) : Stay(h2, k, n + 1)}
             all == {h2[k].at .. h2[n + 1].at - 1 : k \in stays}
             stay == h[j].at .. e.at - 1
  <2>6. Waited(h2, n + 1) = {n + 1} \X UNION all
    BY DEF Waited
  <2>7. all = {stay}
    BY <2>5
  <2> HIDE DEF all, stay
  <2>8. UNION all = stay
    BY <2>7
  <2>9. QED BY <2>6, <2>8 DEF stay
<1>6. PendingInstants(h) \cap ({n + 1} \X Int) = {}
  <2> SUFFICES ASSUME NEW x \in PendingInstants(h), x \in {n + 1} \X Int PROVE FALSE
    OBVIOUS
  <2>1. PICK i \in 1 .. n : x \in Waited(h, i)
    BY DEF PendingInstants
  <2>2. x[1] = i /\ x[1] = n + 1
    BY <2>1 DEF Waited
  <2>3. QED BY <1>1, <2>1, <2>2
<1>7. QED BY <1>3, <1>4, <1>5, <1>6 DEF h2

\* The columns pending_seconds and pending_since of a case, and its history
Reconciled(h, status, since, secs) ==
  /\ IsFiniteSet(PendingInstants(h)) /\ secs = Cardinality(PendingInstants(h))
  /\ since \in Nat \cup {Null}
  /\ since # Null <=> status = "pending_customer"
  /\ status = "pending_customer" => \E j : LastMove(h, j) /\ h[j].at = since

\* An entry about another column changes nothing about the stays
LEMMA OtherReconciled ==
  ASSUME NEW h \in Seq(Entry), NEW status, NEW since, NEW secs, Reconciled(h, status, since, secs),
         NEW field, NEW old, NEW new, NEW by, NEW at, NEW changed \in BOOLEAN, field # "status"
  PROVE  Reconciled(Log(h, changed, field, old, new, by, at), status, since, secs)
<1> DEFINE e == [field |-> field, old |-> old, new |-> new, by |-> by, at |-> at]
           h2 == Append(h, e)
<1>1. Log(h, changed, field, old, new, by, at) = IF changed THEN h2 ELSE h
  BY DEF Log
<1>2. e.field # "status"
  OBVIOUS
<1> HIDE DEF e
<1>3. PendingInstants(h2) = PendingInstants(h)
  BY <1>2, InstantsAppended
<1>4. \A j : LastMove(h, j) => LastMove(h2, j) /\ h2[j].at = h[j].at
  <2>1. /\ Len(h2) = Len(h) + 1 /\ Len(h) \in Nat /\ h2[Len(h) + 1] = e
        /\ \A i \in 1 .. Len(h) : h2[i] = h[i]
    BY Appended
  <2> HIDE DEF h2
  <2> SUFFICES ASSUME NEW j, LastMove(h, j) PROVE LastMove(h2, j) /\ h2[j].at = h[j].at
    OBVIOUS
  <2>2. j \in 1 .. Len(h) /\ h[j].field = "status" /\ \A k \in (j + 1) .. Len(h) : h[k].field # "status"
    BY DEF LastMove
  <2>3. \A k \in (j + 1) .. Len(h2) : h2[k].field # "status"
    <3> SUFFICES ASSUME NEW k \in (j + 1) .. Len(h2) PROVE h2[k].field # "status"
      OBVIOUS
    <3>1. k \in (j + 1) .. Len(h) \/ k = Len(h) + 1
      BY <2>1, <2>2
    <3>2. k \in (j + 1) .. Len(h) => h2[k] = h[k]
      BY <2>1, <2>2
    <3>3. QED BY <1>2, <2>1, <2>2, <3>1, <3>2
  <2>4. QED BY <2>1, <2>2, <2>3 DEF LastMove
<1> HIDE DEF h2
<1>5. Reconciled(h2, status, since, secs)
  BY <1>3, <1>4 DEF Reconciled
<1>6. QED BY <1>1, <1>5

\* A move that update_case records keeps the books, if the request saw the case at the time it
\* entered pending_customer or later
LEMMA MoveReconciled ==
  ASSUME NEW h \in Seq(Entry), NEW row \in CaseRow,
         Reconciled(h, row.status, row.pendingSince, row.pendingSecs),
         NEW b \in Body, b.status # Null, NEW u \in Users, NEW t \in Nat, TransitionAllowed(row, b),
         row.pendingSince # Null => row.pendingSince <= t
  PROVE  LET new == UpdatedRow(row, row, b, u, t)
         IN  Reconciled(Log(h, TRUE, "status", row.status, b.status, u, t),
                        new.status, new.pendingSince, new.pendingSecs)
<1> DEFINE new == UpdatedRow(row, row, b, u, t)
           e == [field |-> "status", old |-> row.status, new |-> b.status, by |-> u, at |-> t]
           h2 == Append(h, e)
           n == Len(h)
           since == row.pendingSince
           secs == row.pendingSecs
<1>1. /\ new.status = b.status
      /\ new.pendingSecs = IF LeavesPending(row, b) THEN PausedFor(row, t) ELSE secs
      /\ new.pendingSince = IF b.status = "pending_customer" THEN t
                            ELSE IF LeavesPending(row, b) THEN Null ELSE since
  BY DEF UpdatedRow, CaseRow, Keep
<1> HIDE DEF new
<1>2. Log(h, TRUE, "status", row.status, b.status, u, t) = h2
  BY DEF Log
<1>3. e.field = "status" /\ e.old = row.status /\ e.at = t
  OBVIOUS
<1> HIDE DEF e
<1>4. /\ IsFiniteSet(PendingInstants(h)) /\ secs = Cardinality(PendingInstants(h))
      /\ since \in Nat \cup {Null} /\ (since # Null <=> row.status = "pending_customer")
      /\ row.status = "pending_customer" => \E j : LastMove(h, j) /\ h[j].at = since
  BY DEF Reconciled
<1>5. Null \notin Nat /\ t # Null
  BY NullAssumption
<1>6. LastMove(h2, n + 1) /\ h2[n + 1].at = t
  <2>1. /\ Len(h2) = n + 1 /\ n \in Nat /\ h2[n + 1] = e
    BY Appended
  <2> HIDE DEF h2
  <2>2. QED BY <1>3, <2>1 DEF LastMove
<1>7. CASE row.status # "pending_customer"
  <2>1. PendingInstants(h2) = PendingInstants(h)
    BY <1>3, <1>7, InstantsAppended
  <2>2. since = Null /\ ~LeavesPending(row, b)
    BY <1>4, <1>7 DEF LeavesPending
  <2>3. new.pendingSecs = secs /\ new.pendingSince = IF b.status = "pending_customer" THEN t ELSE Null
    BY <1>1, <2>2
  <2> HIDE DEF h2, n, since, secs
  <2>4. Reconciled(h2, new.status, new.pendingSince, new.pendingSecs)
    BY <1>1, <1>4, <1>5, <1>6, <2>1, <2>3 DEF Reconciled
  <2>5. QED BY <1>2, <2>4 DEF new
<1>8. CASE row.status = "pending_customer"
  <2>1. b.status # "pending_customer"
    BY <1>8 DEF TransitionAllowed, ValidNextStatuses, ValidTransitions
  <2>2. since \in Nat /\ since <= t
    BY <1>4, <1>8
  <2>3. LeavesPending(row, b) /\ PausedFor(row, t) = secs + (t - since)
    BY <1>4, <1>8, <2>1 DEF LeavesPending, PausedFor
  <2>4. PICK j : LastMove(h, j) /\ h[j].at = since
    BY <1>4, <1>8
  <2> DEFINE stay == since .. t - 1
             fresh == {n + 1} \X stay
  <2>5. PendingInstants(h2) = PendingInstants(h) \cup fresh
    BY <1>3, <1>8, <2>4, InstantsAppended
  <2>6. PendingInstants(h) \cap ({n + 1} \X Int) = {}
    BY InstantsAppended
  <2>7. PendingInstants(h) \cap fresh = {}
    BY <2>6
  <2>8. IsFiniteSet(stay) /\ Cardinality(stay) = t - since
    <3> HIDE DEF since
    <3>1. IsFiniteSet(stay) /\ Cardinality(stay) = IF since > t - 1 THEN 0 ELSE (t - 1) - since + 1
      BY <2>2, FS_Interval
    <3>2. (IF since > t - 1 THEN 0 ELSE (t - 1) - since + 1) = t - since
      BY <2>2
    <3>3. QED BY <3>1, <3>2
  <2> HIDE DEF stay, n, since, secs, h2
  <2>9. IsFiniteSet({n + 1}) /\ Cardinality({n + 1}) = 1
    BY FS_Singleton
  <2>10. IsFiniteSet(fresh) /\ Cardinality(fresh) = t - since
    <3>1. IsFiniteSet(fresh) /\ Cardinality(fresh) = Cardinality({n + 1}) * Cardinality(stay)
      BY <2>8, <2>9, FS_Product
    <3>2. \A x \in Int : 1 * x = x
      OBVIOUS
    <3>3. QED BY <2>2, <2>8, <2>9, <3>1, <3>2
  <2> HIDE DEF fresh
  <2>11. /\ IsFiniteSet(PendingInstants(h2))
         /\ Cardinality(PendingInstants(h2)) = secs + (t - since)
    <3>1. /\ IsFiniteSet(PendingInstants(h) \cup fresh)
          /\ Cardinality(PendingInstants(h) \cup fresh) =
               Cardinality(PendingInstants(h)) + Cardinality(fresh) - Cardinality(PendingInstants(h) \cap fresh)
      BY <1>4, <2>10, FS_Union
    <3>2. Cardinality(PendingInstants(h) \cap fresh) = 0
      BY <2>7, FS_EmptySet
    <3>3. Cardinality(PendingInstants(h)) \in Nat
      BY <1>4, FS_CardinalityType
    <3>4. QED BY <1>4, <2>2, <2>5, <2>10, <3>1, <3>2, <3>3
  <2>12. new.pendingSecs = secs + (t - since) /\ new.pendingSince = Null
    BY <1>1, <2>1, <2>3
  <2>13. Reconciled(h2, new.status, new.pendingSince, new.pendingSecs)
    BY <1>1, <2>1, <2>11, <2>12 DEF Reconciled
  <2>14. QED BY <1>2, <2>13 DEF new
<1>9. QED BY <1>7, <1>8

\* A PATCH decided on the row that is there keeps the books
LEMMA PatchReconciled ==
  ASSUME NEW h \in Seq(Entry), NEW row \in CaseRow,
         Reconciled(h, row.status, row.pendingSince, row.pendingSecs),
         NEW b \in Body, NEW u \in Users, NEW t \in Nat, TransitionAllowed(row, b),
         row.pendingSince # Null => row.pendingSince <= t
  PROVE  LET new == UpdatedRow(row, row, b, u, t)
         IN  Reconciled(UpdatedHistory(h, row, b, u, t), new.status, new.pendingSince, new.pendingSecs)
<1> DEFINE new == UpdatedRow(row, row, b, u, t)
           e == [field |-> "status", old |-> row.status, new |-> b.status, by |-> u, at |-> t]
           h1 == Log(h, b.status # Null, "status", row.status, b.status, u, t)
           h2 == Log(h1, b.priority # Null, "priority", row.priority, b.priority, u, t)
           h3 == Log(h2, b.code # Null, "code", row.code, b.code, u, t)
           h4 == Log(h3, PicksUp(row, b, u), "owner", row.owner, u, u, t)
           Fits(x) == Reconciled(x, new.status, new.pendingSince, new.pendingSecs)
<1>0. /\ PicksUp(row, b, u) \in BOOLEAN /\ (b.status # Null) \in BOOLEAN
      /\ (b.priority # Null) \in BOOLEAN /\ (b.code # Null) \in BOOLEAN
  BY DEF PicksUp
<1>1. UpdatedHistory(h, row, b, u, t) = h4
  BY DEF UpdatedHistory, h1, h2, h3
<1>2. h1 \in Seq(Entry) /\ h2 \in Seq(Entry) /\ h3 \in Seq(Entry)
  <2>1. b.status # Null => e \in Entry
    BY DEF Entry, Body, CaseRow
  <2>2. b.priority # Null => [field |-> "priority", old |-> row.priority, new |-> b.priority, by |-> u, at |-> t] \in Entry
    BY DEF Entry, Body, CaseRow
  <2>3. b.code # Null => [field |-> "code", old |-> row.code, new |-> b.code, by |-> u, at |-> t] \in Entry
    BY DEF Entry, Body, CaseRow
  <2>4. h1 \in Seq(Entry)
    BY <1>0, <2>1, LogType
  <2>5. h2 \in Seq(Entry)
    <3> HIDE DEF h1
    <3> QED BY <1>0, <2>2, <2>4, LogType
  <2>6. h3 \in Seq(Entry)
    <3> HIDE DEF h2
    <3> QED BY <1>0, <2>3, <2>5, LogType
  <2>7. QED BY <2>4, <2>5, <2>6
<1>3. Fits(h1)
  <2>1. CASE b.status # Null
    <3>1. h1 = Log(h, TRUE, "status", row.status, b.status, u, t)
      BY <2>1 DEF Log
    <3>2. Fits(Log(h, TRUE, "status", row.status, b.status, u, t))
      BY <2>1, MoveReconciled
    <3>3. QED BY <3>1, <3>2
  <2>2. CASE b.status = Null
    <3>1. h1 = h
      BY <2>2 DEF Log
    <3>2. ~LeavesPending(row, b) /\ b.status # "pending_customer"
      <4>1. Null # "pending_customer"
        BY NullAssumption DEF Statuses
      <4>2. QED BY <2>2, <4>1 DEF LeavesPending
    <3>3. /\ new.status = row.status /\ new.pendingSecs = row.pendingSecs
          /\ new.pendingSince = row.pendingSince
      BY <2>2, <3>2 DEF UpdatedRow, CaseRow, Keep
    <3> HIDE DEF new, h1
    <3>4. QED BY <3>1, <3>3
  <2>3. QED BY <2>1, <2>2
<1> HIDE DEF h1, new
<1>4. Fits(h2)
  <2> DEFINE changed == b.priority # Null
  <2>1. changed \in BOOLEAN /\ h2 = Log(h1, changed, "priority", row.priority, b.priority, u, t)
    BY <1>0
  <2> HIDE DEF changed, h2
  <2>2. QED BY <1>2, <1>3, <2>1, OtherReconciled
<1> HIDE DEF h2
<1>5. Fits(h3)
  <2> DEFINE changed == b.code # Null
  <2>1. changed \in BOOLEAN /\ h3 = Log(h2, changed, "code", row.code, b.code, u, t)
    BY <1>0
  <2> HIDE DEF changed, h3
  <2>2. QED BY <1>2, <1>4, <2>1, OtherReconciled
<1> HIDE DEF h3
<1>6. Fits(h4)
  BY <1>0, <1>2, <1>5, OtherReconciled
<1> HIDE DEF h4
<1>7. QED BY <1>1, <1>6 DEF new

\* No request that nobody overtakes saw a case before it entered pending_customer, and nothing
\* happens later than now
InTime(q, rows, now) ==
  q.pc \in {"checked", "selected"} /\ q.op = "update" =>
    /\ q.now <= now
    /\ rows[q.case].pendingSince # Null => rows[q.case].pendingSince <= q.now

\* The two columns of a case tell the time its history does
CaseReconciled(c) ==
  /\ Reconciled(history[c], cases[c].status, cases[c].pendingSince, cases[c].pendingSecs)
  /\ cases[c].pendingSince # Null => cases[c].pendingSince <= clock

\* What is inductive: no request is overtaken, and the times of all cases are in order
PendingInv ==
  /\ CurrentInv
  /\ HistoryInv
  /\ \A c \in DOMAIN cases : CaseReconciled(c)
  /\ \A r \in Slots : InTime(req[r], cases, clock)

\* A step that writes no case and no history keeps the books if the one request stays in time
LEMMA PendingUntouched ==
  ASSUME OneByOne, NoEscalations, PendingInv, [Next]_vars, UNCHANGED <<cases, history>>, clock' >= clock,
         NEW r \in Slots, InTime(req'[r], cases, clock')
  PROVE  PendingInv'
<1>1. CurrentInv' /\ HistoryInv'
  BY CurrentStep, HistoryStep DEF PendingInv
<1>2. ASSUME NEW s \in Slots PROVE InTime(req'[s], cases', clock')
  <2>1. s = r
    BY DEF OneByOne
  <2>2. QED BY <2>1
<1>3. clock \in Nat /\ clock' \in Nat
  BY <1>1 DEF PendingInv, CurrentInv, TypeOK
<1>4. ASSUME NEW c \in DOMAIN cases' PROVE CaseReconciled(c)'
  <2>1. Reconciled(history[c], cases[c].status, cases[c].pendingSince, cases[c].pendingSecs)'
    BY DEF PendingInv, CaseReconciled
  <2>2. cases[c].pendingSince \in Nat \cup {Null}
    BY DEF PendingInv, CaseReconciled, Reconciled
  <2>3. cases[c].pendingSince # Null => cases[c].pendingSince <= clock
    BY DEF PendingInv, CaseReconciled
  <2>4. QED BY <1>3, <2>1, <2>2, <2>3 DEF CaseReconciled
<1>5. QED BY <1>1, <1>2, <1>4 DEF PendingInv

\* A step that writes one case and after which no request waits for the database keeps the books
\* if it keeps those of that case
LEMMA PendingOneCase ==
  ASSUME OneByOne, NoEscalations, PendingInv, [Next]_vars, UNCHANGED clock,
         NEW r \in Slots, req'[r].pc \notin {"checked", "selected"},
         NEW c, \A d \in DOMAIN cases' : d # c => /\ d \in DOMAIN cases /\ cases'[d] = cases[d]
                                                  /\ history'[d] = history[d],
         c \in DOMAIN cases' => CaseReconciled(c)'
  PROVE  PendingInv'
<1>1. CurrentInv' /\ HistoryInv'
  BY CurrentStep, HistoryStep DEF PendingInv
<1>2. ASSUME NEW s \in Slots PROVE InTime(req'[s], cases', clock')
  <2>1. s = r
    BY DEF OneByOne
  <2>2. QED BY <2>1 DEF InTime
<1>3. ASSUME NEW d \in DOMAIN cases' PROVE CaseReconciled(d)'
  BY <1>3 DEF PendingInv, CaseReconciled
<1>4. QED BY <1>1, <1>2, <1>3 DEF PendingInv

\* Every step keeps the books
LEMMA PendingStep ==
  ASSUME OneByOne, NoEscalations, PendingInv, [Next]_vars
  PROVE  PendingInv'
<1>0. /\ TypeOK /\ TypeOK' /\ clock \in Nat /\ history \in [Cases -> Seq(Entry)]
      /\ cases \in [DOMAIN cases -> CaseRow] /\ DOMAIN cases \subseteq Cases
  <2>1. TypeOK
    BY DEF PendingInv, CurrentInv
  <2>2. TypeOK'
    BY <2>1, TypeStep
  <2>3. QED BY <2>1, <2>2 DEF TypeOK
<1>1. ASSUME NEW r \in Slots, NEW u \in Users, NEW c \in Cases, NEW i \in Investors \cup {Null},
             NEW p \in Priorities, Create(r, u, c, i, p)
      PROVE  PendingInv'
  <2>1. req'[r].pc = "committed"
    BY <1>0, <1>1 DEF Create, Idle, TypeOK
  <2>2. /\ c \notin DOMAIN cases /\ UNCHANGED <<clock, history>>
        /\ cases' = [d \in DOMAIN cases \cup {c} |-> IF d = c THEN NewRow(u, i, p) ELSE cases[d]]
    BY <1>1 DEF Create
  <2>3. history[c] = <<>>
    BY <2>2 DEF PendingInv, HistoryInv
  <2>4. PendingInstants(<<>>) = {}
    BY DEF PendingInstants
  <2>5. IsFiniteSet(PendingInstants(<<>>)) /\ Cardinality(PendingInstants(<<>>)) = 0
    BY <2>4, FS_EmptySet
  <2>6. /\ NewRow(u, i, p).status = "open" /\ NewRow(u, i, p).pendingSince = Null
        /\ NewRow(u, i, p).pendingSecs = 0
    BY DEF NewRow
  <2>7. cases'[c] = NewRow(u, i, p) /\ history'[c] = <<>>
    BY <2>2, <2>3
  <2>8. CaseReconciled(c)'
    BY <2>5, <2>6, <2>7 DEF CaseReconciled, Reconciled
  <2>9. \A d \in DOMAIN cases' : d # c => d \in DOMAIN cases /\ cases'[d] = cases[d] /\ history'[d] = history[d]
    BY <2>2
  <2>10. QED BY <2>1, <2>2, <2>8, <2>9, PendingOneCase
<1>2. ASSUME NEW r \in Slots, UpdateWrite(r)
      PROVE  PendingInv'
  <2>0. PICK c : c = req[r].case
    OBVIOUS
  <2> DEFINE q == req[r]
             row == cases[c]
  <2>1. q \in InFlight("selected", {"update"}, Body, {Null}, CaseRow) /\ c \in DOMAIN cases
    BY <1>0, <1>2, <2>0, InFlightType DEF UpdateWrite
  <2>2. /\ q.body \in Body /\ q.user \in Users /\ q.now \in Nat /\ q.pc = "selected" /\ q.op = "update"
        /\ row \in CaseRow /\ history[c] \in Seq(Entry)
    BY <1>0, <2>1 DEF InFlight
  <2>3. q.old = row /\ TransitionAllowed(row, q.body)
    BY <2>0, <2>2 DEF PendingInv, CurrentInv, Current
  <2>4. q.now <= clock /\ (row.pendingSince # Null => row.pendingSince <= q.now)
    BY <2>0, <2>2 DEF PendingInv, InTime
  <2>5. Reconciled(history[c], row.status, row.pendingSince, row.pendingSecs)
    BY <2>1 DEF PendingInv, CaseReconciled
  <2>6. /\ cases' = [cases EXCEPT ![c] = UpdatedRow(row, row, q.body, q.user, q.now)]
        /\ history' = [history EXCEPT ![c] = UpdatedHistory(history[c], row, q.body, q.user, q.now)]
        /\ clock' = clock
    BY <1>2, <2>0, <2>3 DEF UpdateWrite
  <2>7. req'[r].pc = "committed"
    BY <1>0, <1>2, <2>2, CommitType DEF UpdateWrite
  <2> DEFINE new == UpdatedRow(row, row, q.body, q.user, q.now)
             h2 == UpdatedHistory(history[c], row, q.body, q.user, q.now)
  <2>8. new.pendingSince = row.pendingSince \/ new.pendingSince \in {Null, q.now}
    BY <2>2 DEF UpdatedRow, CaseRow
  <2> HIDE DEF q, row
  <2>9. Reconciled(h2, new.status, new.pendingSince, new.pendingSecs)
    BY <2>2, <2>3, <2>4, <2>5, PatchReconciled
  <2> HIDE DEF new, h2
  <2>10. cases' = [cases EXCEPT ![c] = new] /\ history' = [history EXCEPT ![c] = h2]
    BY <2>6 DEF new, h2
  <2>11. c \in Cases /\ cases'[c] = new /\ history'[c] = h2
    BY <1>0, <2>1, <2>10
  <2>12. row.pendingSince \in Nat \cup {Null}
    BY <2>5 DEF Reconciled
  <2>13. new.pendingSince # Null => new.pendingSince <= clock
    BY <1>0, <2>2, <2>4, <2>8, <2>12
  <2>14. CaseReconciled(c)'
    BY <2>6, <2>9, <2>11, <2>13 DEF CaseReconciled
  <2>15. \A d \in DOMAIN cases' : d # c => d \in DOMAIN cases /\ cases'[d] = cases[d] /\ history'[d] = history[d]
    BY <1>0, <2>10
  <2>16. QED BY <2>6, <2>7, <2>14, <2>15, PendingOneCase
<1>3. ASSUME NEW r \in Slots, ReassignWrite(r)
      PROVE  PendingInv'
  <2>0. PICK c : c = req[r].case
    OBVIOUS
  <2> DEFINE q == req[r]
             row == cases[c]
             new == [row EXCEPT !.owner = q.target]
             h2 == Log(history[c], TRUE, "owner", q.old.owner, q.target, q.user, q.now)
  <2>1. q \in InFlight("selected", {"reassign"}, {Null}, Users, CaseRow) /\ c \in DOMAIN cases
    BY <1>0, <1>3, <2>0, InFlightType DEF ReassignWrite
  <2>2. q.pc = "selected" /\ row \in CaseRow /\ history[c] \in Seq(Entry)
    BY <1>0, <2>1 DEF InFlight
  <2>3. /\ cases' = [cases EXCEPT ![c] = new] /\ history' = [history EXCEPT ![c] = h2]
        /\ clock' = clock
    BY <1>3, <2>0, <2>1 DEF ReassignWrite
  <2>4. req'[r].pc = "committed"
    BY <1>0, <1>3, <2>2, CommitType DEF ReassignWrite
  <2>5. new.status = row.status /\ new.pendingSince = row.pendingSince /\ new.pendingSecs = row.pendingSecs
    BY <2>2 DEF CaseRow
  <2>6. /\ Reconciled(history[c], row.status, row.pendingSince, row.pendingSecs)
        /\ row.pendingSince # Null => row.pendingSince <= clock
    BY <2>1 DEF PendingInv, CaseReconciled
  <2> HIDE DEF q, row
  <2>7. Reconciled(h2, row.status, row.pendingSince, row.pendingSecs)
    BY <2>2, <2>6, OtherReconciled
  <2> HIDE DEF new, h2
  <2>8. c \in Cases /\ cases'[c] = new /\ history'[c] = h2
    BY <1>0, <2>1, <2>3
  <2>9. CaseReconciled(c)'
    BY <2>3, <2>5, <2>6, <2>7, <2>8 DEF CaseReconciled
  <2>10. \A d \in DOMAIN cases' : d # c => d \in DOMAIN cases /\ cases'[d] = cases[d] /\ history'[d] = history[d]
    BY <1>0, <2>3
  <2>11. QED BY <2>3, <2>4, <2>9, <2>10, PendingOneCase
<1>4. ASSUME NEW r \in Slots, LinkWrite(r)
      PROVE  PendingInv'
  <2>0. PICK c : c = req[r].case
    OBVIOUS
  <2> DEFINE q == req[r]
             row == cases[c]
             new == [row EXCEPT !.verification = q.target]
  <2>1. q.pc = "selected" /\ UNCHANGED <<clock, history>> /\ Commit(r)
    BY <1>4 DEF LinkWrite
  <2>2. req'[r].pc = "committed"
    BY <1>0, <2>1, CommitType
  <2>3. CASE c \in DOMAIN cases
    <3>1. cases' = [cases EXCEPT ![c] = new]
      BY <1>4, <2>0, <2>3 DEF LinkWrite
    <3>2. row \in CaseRow
      BY <1>0, <2>3
    <3>3. new.status = row.status /\ new.pendingSince = row.pendingSince /\ new.pendingSecs = row.pendingSecs
      BY <3>2 DEF CaseRow
    <3>4. CaseReconciled(c)
      BY <2>3 DEF PendingInv
    <3> HIDE DEF q, new
    <3>5. cases'[c] = new
      BY <2>3, <3>1
    <3>6. CaseReconciled(c)'
      BY <2>1, <3>3, <3>4, <3>5 DEF CaseReconciled
    <3>7. \A d \in DOMAIN cases' : d # c => d \in DOMAIN cases /\ cases'[d] = cases[d] /\ history'[d] = history[d]
      BY <1>0, <2>1, <3>1
    <3>8. QED BY <2>1, <2>2, <3>6, <3>7, PendingOneCase
  <2>4. CASE c \notin DOMAIN cases
    <3>1. cases' = cases
      BY <1>4, <2>0, <2>4 DEF LinkWrite
    <3>2. InTime(req'[r], cases, clock')
      BY <2>2 DEF InTime
    <3>3. QED BY <1>0, <2>1, <3>1, <3>2, PendingUntouched
  <2>5. QED BY <2>3, <2>4
<1>5. ASSUME NEW r \in Slots, UNCHANGED <<clock, cases, history>>, req'[r].pc \notin {"checked", "selected"}
      PROVE  PendingInv'
  <2>1. InTime(req'[r], cases, clock')
    BY <1>5 DEF InTime
  <2>2. QED BY <1>0, <1>5, <2>1, PendingUntouched
<1>6. ASSUME NEW r \in Slots, UNCHANGED <<clock, cases, history>>, req'[r].op # "update"
      PROVE  PendingInv'
  <2>1. InTime(req'[r], cases, clock')
    BY <1>6 DEF InTime
  <2>2. QED BY <1>0, <1>6, <2>1, PendingUntouched
<1>7. ASSUME NEW r \in Slots, NEW e \in AllEndpoints, NEW u \in Users, NEW c \in DOMAIN cases, NEW b, NEW t,
             Check(r, e, u, c, b, t), UNCHANGED <<clock, cases, history>>
      PROVE  PendingInv'
  <2>1. /\ req'[r].pc = "checked" /\ req'[r].case = c /\ req'[r].now = clock
    BY <1>0, <1>7 DEF Check, TypeOK
  <2>2. CaseReconciled(c)
    BY DEF PendingInv
  <2>3. InTime(req'[r], cases, clock')
    BY <1>0, <1>7, <2>1, <2>2 DEF InTime, CaseReconciled
  <2>4. QED BY <1>0, <1>7, <2>3, PendingUntouched
<1>8. ASSUME NEW r \in Slots, Receive(r)
      PROVE  PendingInv'
  <2>1. ASSUME NEW u \in Users, NEW c \in Cases, NEW v \in Sessions, LinkSelect(r, u, c, v)
        PROVE  PendingInv'
    <3>1. req'[r].op = "link" /\ UNCHANGED <<clock, cases, history>>
      BY <1>0, <2>1 DEF LinkSelect, Idle, TypeOK, tables
    <3>2. QED BY <1>6, <3>1
  <2>2. ASSUME NEW u \in Users, NEW c \in Cases,
               \/ \E b \in Bodies : UpdateCheck(r, u, c, b)
               \/ \E new \in Users : ReassignCheck(r, u, c, new)
               \/ EscalateCheck(r, u, c)
               \/ NoteCheck(r, u, c)
        PROVE  PendingInv'
    <3>1. /\ c \in DOMAIN cases /\ UNCHANGED <<clock, cases, history>>
          /\ \E e \in AllEndpoints : \E b, t : Check(r, e, u, c, b, t)
      BY <2>2 DEF UpdateCheck, ReassignCheck, EscalateCheck, NoteCheck, tables, AllEndpoints
    <3>2. QED BY <1>7, <3>1
  <2>3. QED BY <1>1, <1>8, <2>1, <2>2 DEF Receive
<1>9. ASSUME NEW r \in Slots, NEW t \in 0 .. clock, UpdateSelect(r, t)
      PROVE  PendingInv'
  <2> DEFINE q == req[r]
             o == cases[q.case]
  <2>1. /\ q.pc = "checked" /\ q.op = "update" /\ q.now \in Nat /\ UNCHANGED <<clock, cases, history>>
        /\ t >= q.now
    BY <1>0, <1>9, InFlightType DEF UpdateSelect, tables
  <2>2. CASE Select(r, t, o)
    <3>1. /\ req'[r].pc = "selected" /\ req'[r].op = "update" /\ req'[r].case = q.case /\ req'[r].now = t
      <4>1. q \in InFlight("checked", {"update"}, Body, {Null}, {Null})
        BY <1>0, <2>1, InFlightType
      <4>2. QED BY <1>0, <2>1, <2>2, <4>1 DEF Select, InFlight, TypeOK
    <3>2. InTime(q, cases, clock) /\ q.case \in DOMAIN cases
      BY <1>0, <2>1, InFlightType DEF PendingInv
    <3>3. cases[q.case].pendingSince \in Nat \cup {Null}
      BY <3>2 DEF PendingInv, CaseReconciled, Reconciled
    <3> HIDE DEF q
    <3>4. InTime(req'[r], cases, clock')
      BY <1>0, <2>1, <3>1, <3>2, <3>3 DEF InTime
    <3>5. QED BY <1>0, <2>1, <3>4, PendingUntouched
  <2>3. CASE Commit(r) \/ Answer(r)
    <3>1. req'[r].pc \in {"committed", "idle"}
      BY <1>0, <2>1, <2>3, CommitType, AnswerType
    <3>2. QED BY <1>5, <2>1, <3>1
  <2>4. QED BY <1>9, <2>2, <2>3 DEF UpdateSelect
<1>10. ASSUME NEW r \in Slots, NEW t \in 0 .. clock, ReassignSelect(r, t)
       PROVE  PendingInv'
  <2>1. req[r] \in InFlight("checked", {"reassign"}, {Null}, Users, {Null}) /\ UNCHANGED <<clock, cases, history>>
    BY <1>0, <1>10, InFlightType DEF ReassignSelect, tables
  <2>2. req'[r].pc = "committed" \/ req'[r].op = "reassign"
    <3>1. CASE Commit(r)
      BY <1>0, <2>1, <3>1, CommitType DEF InFlight
    <3>2. CASE Select(r, t, cases[req[r].case])
      BY <1>0, <2>1, <3>2 DEF Select, InFlight, TypeOK
    <3>3. QED BY <1>10, <3>1, <3>2 DEF ReassignSelect
  <2>3. QED BY <1>5, <1>6, <2>1, <2>2
<1>11. ASSUME NEW r \in Slots, NoteWrite(r) \/ Audit(r) \/ Abort(r)
       PROVE  PendingInv'
  <2>1. UNCHANGED <<clock, cases, history>>
    BY <1>11 DEF NoteWrite, Audit, Abort, tables
  <2>2. req'[r].pc \in {"committed", "idle"}
    BY <1>0, <1>11, CommitType, AnswerType DEF NoteWrite, Audit, Abort
  <2>3. QED BY <1>5, <2>1, <2>2
<1>12. ASSUME NEW r \in Slots, NEW t \in 0 .. clock, NEW to \in Users, EscalateWrite(r, t, to)
       PROVE  FALSE
  BY <1>12 DEF EscalateWrite, PendingInv, CurrentInv, Current
<1>13. ASSUME NEW r \in Slots, Serve(r) \/ Abort(r)
       PROVE  PendingInv'
  BY <1>2, <1>3, <1>4, <1>9, <1>10, <1>11, <1>12, <1>13 DEF Serve
<1>14. ASSUME UNCHANGED <<cases, history, req>>, clock' \in Nat, clock' >= clock
       PROVE  PendingInv'
  <2>1. CASE Slots = {}
    <3>1. CurrentInv' /\ HistoryInv'
      BY CurrentStep, HistoryStep DEF PendingInv
    <3>2. ASSUME NEW c \in DOMAIN cases' PROVE CaseReconciled(c)'
      <4>1. cases[c].pendingSince \in Nat \cup {Null}
        BY <1>14 DEF PendingInv, CaseReconciled, Reconciled
      <4>2. QED BY <1>0, <1>14, <4>1 DEF PendingInv, CaseReconciled
    <3>3. QED BY <2>1, <3>1, <3>2 DEF PendingInv
  <2>2. ASSUME NEW r \in Slots
        PROVE  PendingInv'
    <3>1. InTime(req[r], cases, clock)
      BY DEF PendingInv
    <3>2. req[r].pc \in {"checked", "selected"} => req[r].now \in Nat
      BY <1>0, InFlightType
    <3>3. InTime(req'[r], cases, clock')
      BY <1>0, <1>14, <3>1, <3>2 DEF InTime
    <3>4. QED BY <1>14, <3>3, PendingUntouched
  <2>3. QED BY <2>1, <2>2
<1>15. CASE Verify \/ Tick \/ UNCHANGED vars
  <2>1. UNCHANGED <<cases, history, req>>
    BY <1>15 DEF Verify, StartVerification, CompleteVerification, Tick, tables, vars
  <2>2. clock' = clock \/ clock' = clock + 1
    BY <1>15 DEF Verify, StartVerification, CompleteVerification, Tick, tables, vars
  <2>3. clock' \in Nat /\ clock' >= clock
    BY <1>0, <2>2
  <2>4. QED BY <1>14, <2>1, <2>3
<1>16. QED BY <1>8, <1>13, <1>15 DEF Next

\* pending_seconds is exactly the time the history shows, and pending_since is set during a stay
\* only, as long as requests follow one another and nothing is escalated
THEOREM PendingAlwaysReconciles ==
  ASSUME OneByOne, NoEscalations
  PROVE  Spec => []PendingReconciles
<1>1. Init => PendingInv
  <2> SUFFICES ASSUME Init PROVE PendingInv
    OBVIOUS
  <2>1. TypeOK /\ DOMAIN cases = {} /\ \A c \in Cases : history[c] = <<>>
    BY InitType DEF Init
  <2>2. \A r \in Slots : req[r].pc = "idle"
    BY DEF Init, Idle
  <2>3. CurrentInv
    BY <2>1, <2>2 DEF CurrentInv, Current
  <2>4. HistoryInv
    BY <2>1 DEF HistoryInv, HistoryAgrees
  <2>5. QED BY <2>1, <2>2, <2>3, <2>4 DEF PendingInv, InTime
<1>2. PendingInv /\ [Next]_vars => PendingInv'
  BY PendingStep
<1>3. PendingInv => PendingReconciles
  BY DEF PendingInv, CaseReconciled, Reconciled, PendingReconciles, PendingTime, PendingInstants
<1>4. QED BY <1>1, <1>2, <1>3, PTL DEF Spec

=============================================================================

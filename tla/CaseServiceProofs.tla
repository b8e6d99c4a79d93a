------------------------- MODULE CaseServiceProofs --------------------------
(***************************************************************************)
(* Proofs about the case workflow, for any staff, any number of cases and  *)
(* of requests in flight, any clock, any bounds, and crashes: its types,   *)
(* the history that agrees with the rows, the milestones, escalations that *)
(* are all in the history, and the audit log that never tells of more than *)
(* was done.                                                               *)
(***************************************************************************)
EXTENDS CaseProperties, FiniteSetTheorems, TLAPS

(* --------------------------- type correctness ------------------------- *)

\* A history that gets an entry of the right type, or none, keeps its type
LEMMA LogType ==
  ASSUME NEW h \in Seq(Entry), NEW changed \in BOOLEAN, NEW field, NEW old, NEW new, NEW by, NEW at,
         changed => [field |-> field, old |-> old, new |-> new, by |-> by, at |-> at] \in Entry
  PROVE  Log(h, changed, field, old, new, by, at) \in Seq(Entry)
BY DEF Log

\* What update_case makes of a row is a row
LEMMA UpdatedRowType ==
  ASSUME NEW row \in CaseRow, NEW o \in CaseRow, NEW b \in Body, NEW u \in Users, NEW t \in Nat
  PROVE  UpdatedRow(row, o, b, u, t) \in CaseRow
<1> DEFINE status == Keep(b.status, row.status)
           priority == Keep(b.priority, row.priority)
           code == Keep(b.code, row.code)
           owner == IF PicksUp(o, b, u) THEN u ELSE row.owner
           firstResponse == IF FirstResponds(o, b) THEN t ELSE row.firstResponse
           pendingSecs == IF LeavesPending(o, b) THEN PausedFor(o, t) ELSE row.pendingSecs
           pendingSince == IF b.status = "pending_customer" THEN t
                           ELSE IF LeavesPending(o, b) THEN Null ELSE row.pendingSince
           resolvedAt == IF Resolves(o, b) THEN t ELSE row.resolvedAt
           closedAt == IF Closes(o, b) THEN t ELSE row.closedAt
<1>1. status \in Statuses /\ priority \in Priorities /\ code \in Codes \cup {Null}
  BY DEF Keep, Body, CaseRow
<1>2. owner \in Users
  BY DEF CaseRow
<1>3. pendingSecs \in Int
  BY DEF LeavesPending, PausedFor, CaseRow, Time
<1>4. firstResponse \in Time /\ pendingSince \in Time /\ resolvedAt \in Time /\ closedAt \in Time
  BY DEF CaseRow, Time
<1>5. UpdatedRow(row, o, b, u, t) =
        [row EXCEPT !.status = status, !.priority = priority, !.code = code, !.owner = owner,
                    !.firstResponse = firstResponse, !.pendingSecs = pendingSecs,
                    !.pendingSince = pendingSince, !.resolvedAt = resolvedAt, !.closedAt = closedAt]
  BY DEF UpdatedRow
<1> HIDE DEF status, priority, code, owner, firstResponse, pendingSecs, pendingSince, resolvedAt, closedAt
<1>6. [row EXCEPT !.status = status, !.priority = priority, !.code = code, !.owner = owner,
                  !.firstResponse = firstResponse, !.pendingSecs = pendingSecs,
                  !.pendingSince = pendingSince, !.resolvedAt = resolvedAt, !.closedAt = closedAt]
        \in CaseRow
  BY <1>1, <1>2, <1>3, <1>4 DEF CaseRow
<1> QED
  BY <1>5, <1>6

\* The history update_case leaves is a history
LEMMA UpdatedHistoryType ==
  ASSUME NEW h \in Seq(Entry), NEW o \in CaseRow, NEW b \in Body, NEW u \in Users, NEW t \in Nat
  PROVE  UpdatedHistory(h, o, b, u, t) \in Seq(Entry)
<1> DEFINE h1 == Log(h, b.status # Null, "status", o.status, b.status, u, t)
           h2 == Log(h1, b.priority # Null, "priority", o.priority, b.priority, u, t)
           h3 == Log(h2, b.code # Null, "code", o.code, b.code, u, t)
           h4 == Log(h3, PicksUp(o, b, u), "owner", o.owner, u, u, t)
<1>1. h1 \in Seq(Entry)
  <2>1. b.status # Null => [field |-> "status", old |-> o.status, new |-> b.status, by |-> u, at |-> t] \in Entry
    BY DEF Entry, Body, CaseRow
  <2> QED BY <2>1, LogType
<1>2. h2 \in Seq(Entry)
  <2>1. b.priority # Null => [field |-> "priority", old |-> o.priority, new |-> b.priority, by |-> u, at |-> t] \in Entry
    BY DEF Entry, Body, CaseRow
  <2> HIDE DEF h1
  <2> QED BY <1>1, <2>1, LogType
<1>3. h3 \in Seq(Entry)
  <2>1. b.code # Null => [field |-> "code", old |-> o.code, new |-> b.code, by |-> u, at |-> t] \in Entry
    BY DEF Entry, Body, CaseRow
  <2> HIDE DEF h2
  <2> QED BY <1>2, <2>1, LogType
<1>4. h4 \in Seq(Entry)
  <2>1. [field |-> "owner", old |-> o.owner, new |-> u, by |-> u, at |-> t] \in Entry
    BY DEF Entry, CaseRow
  <2>2. PicksUp(o, b, u) \in BOOLEAN
    BY DEF PicksUp
  <2> HIDE DEF h3
  <2> QED BY <1>3, <2>1, <2>2, LogType
<1> QED BY <1>4 DEF UpdatedHistory

\* What a well-typed request carries, by how far it got
LEMMA InFlightType ==
  ASSUME TypeOK, NEW r \in Slots
  PROVE  /\ req[r].pc = "checked" =>
              /\ req[r].user \in Users /\ req[r].case \in Cases \cap DOMAIN cases /\ req[r].now \in Nat
              /\ req[r].op = "update" =>
                   req[r] \in InFlight("checked", {"update"}, Body, {Null}, {Null})
              /\ req[r].op = "reassign" =>
                   req[r] \in InFlight("checked", {"reassign"}, {Null}, Users, {Null})
              /\ req[r].op \in {"escalate", "add_note"} =>
                   req[r] \in InFlight("checked", {"escalate", "add_note"}, {Null}, {Null}, {Null})
         /\ req[r].pc = "selected" =>
              /\ req[r].user \in Users /\ req[r].case \in Cases /\ req[r].now \in Nat
              /\ req[r].op = "update" =>
                   /\ req[r] \in InFlight("selected", {"update"}, Body, {Null}, CaseRow)
                   /\ req[r].case \in DOMAIN cases
              /\ req[r].op = "reassign" =>
                   /\ req[r] \in InFlight("selected", {"reassign"}, {Null}, Users, CaseRow)
                   /\ req[r].case \in DOMAIN cases
              /\ req[r].op = "link" =>
                   req[r] \in InFlight("selected", {"link"}, {Null}, Sessions, {Null})
         /\ req[r].pc = "committed" =>
              req[r] \in InFlight("committed", AllEndpoints, Body \cup {Null},
                                  Users \cup Sessions \cup {Null}, {Null})
<1>1. req[r] \in Request
  BY DEF TypeOK
<1>2. req[r].pc \in {"checked", "selected"} /\ req[r].op # "link" => req[r].case \in DOMAIN cases
  BY DEF TypeOK
<1>3. req[r] = Idle => req[r].pc = "idle"
  BY DEF Idle
<1> QED
  BY <1>1, <1>2, <1>3 DEF Request, InFlight

\* A commit leaves a well-typed request, which no longer needs its case to exist
LEMMA CommitType ==
  ASSUME TypeOK, NEW r \in Slots, req[r].pc \in {"checked", "selected"}, Commit(r)
  PROVE  /\ req' \in [Slots -> Request]
         /\ \A s \in Slots : s # r => req'[s] = req[s]
         /\ req'[r].pc = "committed"
<1>1. req' = [req EXCEPT ![r] = [req[r] EXCEPT !.pc = "committed", !.old = Null]]
  BY DEF Commit
<1>2. [req[r] EXCEPT !.pc = "committed", !.old = Null] \in Request
  <2>1. req[r] \in [pc : {"checked", "selected"}, op : AllEndpoints, user : Users, case : Cases,
                    body : Body \cup {Null}, target : Users \cup Sessions \cup {Null}, now : Nat,
                    old : CaseRow \cup {Null}]
    BY DEF TypeOK, Request, InFlight, Idle, AllEndpoints
  <2>2. [req[r] EXCEPT !.pc = "committed", !.old = Null]
          \in InFlight("committed", AllEndpoints, Body \cup {Null},
                       Users \cup Sessions \cup {Null}, {Null})
    BY <2>1 DEF InFlight
  <2> QED
    BY <2>2 DEF Request
<1>3. [req[r] EXCEPT !.pc = "committed", !.old = Null].pc = "committed"
  BY DEF TypeOK, Request, InFlight, Idle
<1> QED
  BY <1>1, <1>2, <1>3 DEF TypeOK

\* An answered request leaves its slot idle
LEMMA AnswerType ==
  ASSUME TypeOK, NEW r \in Slots, Answer(r)
  PROVE  /\ req' \in [Slots -> Request]
         /\ \A s \in Slots : s # r => req'[s] = req[s]
         /\ req'[r].pc = "idle"
BY DEF TypeOK, Answer, Request, Idle

\* Every step keeps the types; in particular a case, once there, is there for good
LEMMA TypeStep ==
  ASSUME TypeOK, [Next]_vars
  PROVE  TypeOK'
<1> USE DEF tables
<1>1. ASSUME NEW r \in Slots, NEW u \in Users, NEW c \in Cases, NEW i \in Investors \cup {Null},
             NEW p \in Priorities, Create(r, u, c, i, p)
      PROVE  TypeOK'
  <2>1. NewRow(u, i, p) \in CaseRow
    BY DEF NewRow, CaseRow, Time, Statuses, TypeOK
  <2>2. cases' \in [DOMAIN cases' -> CaseRow] /\ DOMAIN cases' = DOMAIN cases \cup {c}
    BY <1>1, <2>1 DEF Create, TypeOK
  <2>3. [Idle EXCEPT !.pc = "committed", !.op = "create", !.user = u, !.case = c, !.now = clock] \in
          InFlight("committed", AllEndpoints, Body \cup {Null}, Users \cup Sessions \cup {Null}, {Null})
    BY DEF Idle, InFlight, AllEndpoints, TypeOK
  <2>4. req' \in [Slots -> Request] /\ req'[r].pc = "committed"
        /\ \A s \in Slots : s # r => req'[s] = req[s]
    BY <1>1, <2>3 DEF Create, TypeOK, Request, InFlight
  <2> QED
    BY <1>1, <2>2, <2>4 DEF Create, TypeOK
<1>2. ASSUME NEW r \in Slots, NEW u \in Users, NEW c \in Cases, NEW b \in Bodies, UpdateCheck(r, u, c, b)
      PROVE  TypeOK'
  <2>1. b \in Body
    BY BodiesAssumption
  <2> QED
    BY <1>2, <2>1 DEF UpdateCheck, Check, TypeOK, Request, InFlight
<1>3. ASSUME NEW r \in Slots, NEW u \in Users, NEW c \in Cases, NEW new \in Users, ReassignCheck(r, u, c, new)
      PROVE  TypeOK'
  BY <1>3 DEF ReassignCheck, Check, TypeOK, Request, InFlight
<1>4. ASSUME NEW r \in Slots, NEW u \in Users, NEW c \in Cases, EscalateCheck(r, u, c)
      PROVE  TypeOK'
  BY <1>4 DEF EscalateCheck, Check, TypeOK, Request, InFlight
<1>5. ASSUME NEW r \in Slots, NEW u \in Users, NEW c \in Cases, NoteCheck(r, u, c)
      PROVE  TypeOK'
  BY <1>5 DEF NoteCheck, Check, TypeOK, Request, InFlight
<1>6. ASSUME NEW r \in Slots, NEW u \in Users, NEW c \in Cases, NEW v \in Sessions, LinkSelect(r, u, c, v)
      PROVE  TypeOK'
  <2>1. [Idle EXCEPT !.pc = "selected", !.op = "link", !.user = u, !.case = c, !.target = v, !.now = clock]
          \in InFlight("selected", {"link"}, {Null}, Sessions, {Null})
    BY DEF Idle, InFlight, TypeOK
  <2>2. req' \in [Slots -> Request] /\ req'[r].op = "link"
        /\ \A s \in Slots : s # r => req'[s] = req[s]
    BY <1>6, <2>1 DEF LinkSelect, TypeOK, Request, InFlight
  <2> QED
    BY <1>6, <2>2 DEF LinkSelect, TypeOK
<1>7. ASSUME NEW r \in Slots, NEW t \in 0 .. clock, UpdateSelect(r, t)
      PROVE  TypeOK'
  <2>1. CASE Commit(r)
    BY <1>7, <2>1, CommitType DEF UpdateSelect, TypeOK
  <2>2. CASE Answer(r)
    BY <1>7, <2>2, AnswerType DEF UpdateSelect, TypeOK
  <2>3. CASE Select(r, t, cases[req[r].case])
    <3>1. req[r] \in InFlight("checked", {"update"}, Body, {Null}, {Null}) /\ req[r].case \in DOMAIN cases
      BY <1>7, InFlightType DEF UpdateSelect
    <3>2. cases[req[r].case] \in CaseRow /\ t \in Nat
      BY <3>1 DEF TypeOK
    <3>3. [req[r] EXCEPT !.pc = "selected", !.now = t, !.old = cases[req[r].case]]
            \in InFlight("selected", {"update"}, Body, {Null}, CaseRow)
      BY <3>1, <3>2 DEF InFlight
    <3>4. req' = [req EXCEPT ![r] = [req[r] EXCEPT !.pc = "selected", !.now = t, !.old = cases[req[r].case]]]
      BY <2>3 DEF Select
    <3>5. req' \in [Slots -> Request] /\ req'[r].case = req[r].case
          /\ \A s \in Slots : s # r => req'[s] = req[s]
      BY <3>1, <3>3, <3>4 DEF TypeOK, Request, InFlight
    <3> QED
      BY <1>7, <3>1, <3>5 DEF UpdateSelect, TypeOK
  <2> QED
    BY <1>7, <2>1, <2>2, <2>3 DEF UpdateSelect
<1>8. ASSUME NEW r \in Slots, UpdateWrite(r)
      PROVE  TypeOK'
  <2> DEFINE q == req[r]
  <2>1. q \in InFlight("selected", {"update"}, Body, {Null}, CaseRow)
        /\ q.case \in DOMAIN cases /\ q.case \in Cases /\ q.pc = "selected"
    BY <1>8, InFlightType DEF UpdateWrite
  <2>2. UpdatedRow(cases[q.case], q.old, q.body, q.user, q.now) \in CaseRow
    BY <2>1, UpdatedRowType DEF InFlight, TypeOK
  <2>3. UpdatedHistory(history[q.case], q.old, q.body, q.user, q.now) \in Seq(Entry)
    BY <2>1, UpdatedHistoryType DEF InFlight, TypeOK
  <2>4. cases' \in [DOMAIN cases' -> CaseRow] /\ DOMAIN cases' = DOMAIN cases
    BY <1>8, <2>2 DEF UpdateWrite, TypeOK
  <2>5. history' \in [Cases -> Seq(Entry)]
    BY <1>8, <2>3 DEF UpdateWrite, TypeOK
  <2>6. Commit(r)
    BY <1>8 DEF UpdateWrite
  <2> QED
    BY <1>8, <2>1, <2>4, <2>5, <2>6, CommitType DEF UpdateWrite, TypeOK
<1>9. ASSUME NEW r \in Slots, NEW t \in 0 .. clock, ReassignSelect(r, t)
      PROVE  TypeOK'
  <2>1. CASE Commit(r)
    BY <1>9, <2>1, CommitType DEF ReassignSelect, TypeOK
  <2>2. CASE Select(r, t, cases[req[r].case])
    <3>1. req[r] \in InFlight("checked", {"reassign"}, {Null}, Users, {Null}) /\ req[r].case \in DOMAIN cases
      BY <1>9, InFlightType DEF ReassignSelect
    <3>2. cases[req[r].case] \in CaseRow /\ t \in Nat
      BY <3>1 DEF TypeOK
    <3>3. [req[r] EXCEPT !.pc = "selected", !.now = t, !.old = cases[req[r].case]]
            \in InFlight("selected", {"reassign"}, {Null}, Users, CaseRow)
      BY <3>1, <3>2 DEF InFlight
    <3>4. req' = [req EXCEPT ![r] = [req[r] EXCEPT !.pc = "selected", !.now = t, !.old = cases[req[r].case]]]
      BY <2>2 DEF Select
    <3>5. req' \in [Slots -> Request] /\ req'[r].case = req[r].case
          /\ \A s \in Slots : s # r => req'[s] = req[s]
      BY <3>1, <3>3, <3>4 DEF TypeOK, Request, InFlight
    <3> QED
      BY <1>9, <3>1, <3>5 DEF ReassignSelect, TypeOK
  <2> QED
    BY <1>9, <2>1, <2>2 DEF ReassignSelect
<1>10. ASSUME NEW r \in Slots, ReassignWrite(r)
       PROVE  TypeOK'
  <2> DEFINE q == req[r]
  <2>1. q \in InFlight("selected", {"reassign"}, {Null}, Users, CaseRow)
        /\ q.case \in DOMAIN cases /\ q.case \in Cases /\ q.pc = "selected"
    BY <1>10, InFlightType DEF ReassignWrite
  <2>2. cases' \in [DOMAIN cases' -> CaseRow] /\ DOMAIN cases' = DOMAIN cases
    <3>1. cases[q.case] \in CaseRow /\ q.target \in Users
      BY <2>1 DEF TypeOK, InFlight
    <3>2. [cases[q.case] EXCEPT !.owner = q.target] \in CaseRow
      BY <3>1 DEF CaseRow
    <3> QED
      BY <1>10, <3>2 DEF ReassignWrite, TypeOK
  <2>3. history' \in [Cases -> Seq(Entry)]
    <3>1. [field |-> "owner", old |-> q.old.owner, new |-> q.target, by |-> q.user, at |-> q.now] \in Entry
      BY <2>1 DEF InFlight, CaseRow, Entry
    <3>2. Log(history[q.case], TRUE, "owner", q.old.owner, q.target, q.user, q.now) \in Seq(Entry)
      BY <2>1, <3>1, LogType DEF TypeOK
    <3> QED
      BY <1>10, <3>2 DEF ReassignWrite, TypeOK
  <2>4. Commit(r)
    BY <1>10 DEF ReassignWrite
  <2> QED
    BY <1>10, <2>1, <2>2, <2>3, <2>4, CommitType DEF ReassignWrite, TypeOK
<1>11. ASSUME NEW r \in Slots, NEW t \in 0 .. clock, NEW to \in Users, EscalateWrite(r, t, to)
       PROVE  TypeOK'
  <2> DEFINE q == req[r]
  <2>1. q.user \in Users /\ q.case \in DOMAIN cases /\ q.case \in Cases /\ q.pc = "checked" /\ t \in Nat
    BY <1>11, InFlightType DEF EscalateWrite, TypeOK
  <2>2. cases' \in [DOMAIN cases' -> CaseRow] /\ DOMAIN cases' = DOMAIN cases
    <3> HIDE DEF q
    <3>0. cases[q.case] \in CaseRow
      BY <2>1 DEF TypeOK
    <3>1. [cases[q.case] EXCEPT !.status = "escalated"] \in CaseRow
      BY <3>0 DEF CaseRow, Statuses
    <3> USE DEF q
    <3> QED
      BY <1>11, <3>1 DEF EscalateWrite, TypeOK
  <2>3. history' \in [Cases -> Seq(Entry)]
    <3>1. [field |-> "status", old |-> cases[q.case].status, new |-> "escalated", by |-> q.user, at |-> t] \in Entry
      BY <2>1 DEF TypeOK, CaseRow, Entry, Statuses
    <3>2. EscalatedHistory(history[q.case], cases[q.case].status, q.user, t) \in Seq(Entry)
      BY <2>1, <3>1, LogType DEF TypeOK, EscalatedHistory
    <3> QED
      BY <1>11, <3>2 DEF EscalateWrite, TypeOK
  <2>4. escalations' \in [Cases -> Seq(Escalation)]
    <3>1. [from |-> q.user, to |-> to, at |-> t] \in Escalation
      BY <2>1 DEF Escalation
    <3> QED
      BY <1>11, <2>1, <3>1 DEF EscalateWrite, TypeOK
  <2>5. Commit(r)
    BY <1>11 DEF EscalateWrite
  <2> QED
    BY <1>11, <2>1, <2>2, <2>3, <2>4, <2>5, CommitType DEF EscalateWrite, TypeOK
<1>12. ASSUME NEW r \in Slots, NoteWrite(r)
       PROVE  TypeOK'
  <2>1. req[r].user \in Users /\ req[r].pc = "checked" /\ Commit(r)
    BY <1>12, InFlightType DEF NoteWrite
  <2>2. notes' \in [Cases -> Seq(Users)]
    BY <1>12, <2>1 DEF NoteWrite, TypeOK
  <2> QED
    BY <1>12, <2>1, <2>2, CommitType DEF NoteWrite, TypeOK
<1>13. ASSUME NEW r \in Slots, LinkWrite(r)
       PROVE  TypeOK'
  <2>1. req[r].target \in Sessions /\ req[r].pc = "selected" /\ Commit(r)
    BY <1>13, InFlightType DEF LinkWrite, InFlight
  <2>2. cases' \in [DOMAIN cases' -> CaseRow] /\ DOMAIN cases' = DOMAIN cases
    <3>1. ASSUME req[r].case \in DOMAIN cases
          PROVE  [cases[req[r].case] EXCEPT !.verification = req[r].target] \in CaseRow
      <4>1. cases[req[r].case] \in CaseRow
        BY <3>1 DEF TypeOK
      <4> QED
        BY <2>1, <4>1 DEF CaseRow
    <3> QED
      BY <1>13, <3>1 DEF LinkWrite, TypeOK
  <2> QED
    BY <1>13, <2>1, <2>2, CommitType DEF LinkWrite, TypeOK
<1>14. ASSUME NEW r \in Slots, Audit(r)
       PROVE  TypeOK'
  <2>1. req[r].case \in Cases /\ req[r].op \in AllEndpoints /\ Answer(r)
    BY <1>14, InFlightType DEF Audit, InFlight
  <2>2. audit' \in [Cases -> [AllEndpoints -> Nat]]
    BY <1>14, <2>1 DEF Audit, TypeOK
  <2> QED
    BY <1>14, <2>1, <2>2, AnswerType DEF Audit, TypeOK
<1>15. ASSUME NEW r \in Slots, Abort(r)
       PROVE  TypeOK'
  BY <1>15, AnswerType DEF Abort, TypeOK
<1>16. ASSUME NEW v \in Sessions, NEW i \in Investors, StartVerification(v, i)
       PROVE  TypeOK'
  BY <1>16 DEF StartVerification, TypeOK, Session, Time
<1>17. ASSUME NEW v \in Sessions, NEW status \in {"passed", "failed", "skipped"}, CompleteVerification(v, status)
       PROVE  TypeOK'
  <2>1. [sessions[v] EXCEPT !.status = status] \in Session
    BY <1>17 DEF CompleteVerification, TypeOK, Session
  <2> QED
    BY <1>17, <2>1 DEF CompleteVerification, TypeOK
<1>18. CASE Tick
  BY <1>18 DEF Tick, TypeOK
<1>19. CASE UNCHANGED vars
  BY <1>19 DEF vars, TypeOK
<1> QED
  BY <1>1, <1>2, <1>3, <1>4, <1>5, <1>6, <1>7, <1>8, <1>9, <1>10, <1>11, <1>12, <1>13, <1>14,
     <1>15, <1>16, <1>17, <1>18, <1>19 DEF Next, Receive, Serve, Verify

\* The data generator's sessions and the empty tables are of their types
LEMMA InitType ==
  ASSUME Init
  PROVE  TypeOK
<1>1. sessions \in [DOMAIN sessions -> Session] /\ DOMAIN sessions \subseteq Sessions
  BY SeedAssumption DEF Init, SeededSession, Session, Time
<1>2. req \in [Slots -> Request] /\ \A r \in Slots : req[r].pc = "idle"
  BY DEF Init, Request, Idle
<1> QED
  BY <1>1, <1>2 DEF Init, TypeOK

\* The type invariant of the case workflow: whatever the requests in flight do to each other,
\* the tables hold rows of their declared types, and a request past its checks is about a
\* case that exists
THEOREM TypeCorrect == Spec => []TypeOK
<1>1. Init => TypeOK
  BY InitType
<1>2. TypeOK /\ [Next]_vars => TypeOK'
  BY TypeStep
<1> QED
  BY <1>1, <1>2, PTL DEF Spec

(* --------------------- the history agrees with the row ---------------- *)

Tracked == {"status", "priority", "code", "owner"}

\* Agreement is about the tracked columns only
LEMMA AgreesTracked ==
  ASSUME NEW h \in Seq(Entry), NEW row, NEW row2, AgreesWith(h, row),
         \A f \in Tracked : row2[f] = row[f]
  PROVE  AgreesWith(h, row2)
<1>1. \A i \in 1 .. Len(h) : h[i].field \in Tracked
  BY DEF Entry, Tracked
<1> QED
  BY <1>1 DEF AgreesWith

\* Logging the change of one column restores the agreement that the change broke
LEMMA LogAgrees ==
  ASSUME NEW h \in Seq(Entry), NEW row, NEW row2, NEW changed \in BOOLEAN,
         NEW field \in Tracked, NEW old, NEW new, NEW by, NEW at,
         AgreesWith(h, row),
         changed => row2[field] = new,
         ~changed => row2[field] = row[field],
         \A f \in Tracked \ {field} : row2[f] = row[f]
  PROVE  AgreesWith(Log(h, changed, field, old, new, by, at), row2)
<1>1. \A i \in 1 .. Len(h) : h[i].field \in Tracked
  BY DEF Entry, Tracked
<1>2. CASE ~changed
  <2>1. \A f \in Tracked : row2[f] = row[f]
    BY <1>2
  <2> QED
    BY <1>2, <2>1, AgreesTracked DEF Log
<1>3. CASE changed
  <2> DEFINE e == [field |-> field, old |-> old, new |-> new, by |-> by, at |-> at]
             h2 == Append(h, e)
  <2>1. Log(h, changed, field, old, new, by, at) = h2
    BY <1>3 DEF Log
  <2>2. e.field = field /\ e.new = new
    OBVIOUS
  <2> HIDE DEF e
  <2>3. Len(h2) = Len(h) + 1 /\ h2[Len(h) + 1] = e /\ \A i \in 1 .. Len(h) : h2[i] = h[i]
    OBVIOUS
  <2> HIDE DEF h2
  <2>4. ASSUME NEW i \in 1 .. Len(h2), LastEntry(h2, i)
        PROVE  h2[i].new = row2[h2[i].field]
    <3>1. CASE i = Len(h) + 1
      BY <1>3, <2>2, <2>3, <3>1
    <3>2. CASE i \in 1 .. Len(h)
      <4>1. Len(h) + 1 \in (i + 1) .. Len(h2)
        BY <2>3, <3>2
      <4>2. h2[Len(h) + 1].field # h2[i].field
        BY <2>4, <4>1 DEF LastEntry
      <4>3. LastEntry(h, i)
        BY <2>3, <2>4, <3>2 DEF LastEntry
      <4>4. h[i].new = row[h[i].field]
        BY <3>2, <4>3 DEF AgreesWith
      <4> QED
        BY <1>1, <2>2, <2>3, <3>2, <4>2, <4>4
    <3> QED
      BY <2>3, <3>1, <3>2
  <2> QED
    BY <2>1, <2>4 DEF AgreesWith
<1> QED
  BY <1>2, <1>3

\* The UPDATE of update_case and the history rows that go with it keep the agreement,
\* whatever the SELECT before it returned
LEMMA UpdateAgrees ==
  ASSUME NEW h \in Seq(Entry), NEW row \in CaseRow, NEW o \in CaseRow, NEW b \in Body,
         NEW u \in Users, NEW t \in Nat, AgreesWith(h, row)
  PROVE  AgreesWith(UpdatedHistory(h, o, b, u, t), UpdatedRow(row, o, b, u, t))
<1> DEFINE r1 == [row EXCEPT !.status = Keep(b.status, row.status)]
           r2 == [r1 EXCEPT !.priority = Keep(b.priority, row.priority)]
           r3 == [r2 EXCEPT !.code = Keep(b.code, row.code)]
           r4 == UpdatedRow(row, o, b, u, t)
           h1 == Log(h, b.status # Null, "status", o.status, b.status, u, t)
           h2 == Log(h1, b.priority # Null, "priority", o.priority, b.priority, u, t)
           h3 == Log(h2, b.code # Null, "code", o.code, b.code, u, t)
           h4 == Log(h3, PicksUp(o, b, u), "owner", o.owner, u, u, t)
<1>1. /\ r1["status"] = Keep(b.status, row.status)
      /\ \A f \in Tracked \ {"status"} : r1[f] = row[f]
  BY DEF CaseRow, Tracked
<1>2. /\ r2["priority"] = Keep(b.priority, row.priority)
      /\ \A f \in Tracked \ {"priority"} : r2[f] = r1[f]
  BY DEF CaseRow, Tracked
<1>3. /\ r3["code"] = Keep(b.code, row.code)
      /\ \A f \in Tracked \ {"code"} : r3[f] = r2[f]
  BY DEF CaseRow, Tracked
<1>4. /\ r4["owner"] = IF PicksUp(o, b, u) THEN u ELSE row.owner
      /\ \A f \in Tracked \ {"owner"} : r4[f] = r3[f]
  BY DEF UpdatedRow, CaseRow, Tracked
<1>5. r1["priority"] = row.priority /\ r2["code"] = row.code /\ r3["owner"] = row.owner
  BY DEF CaseRow
<1>6. PicksUp(o, b, u) \in BOOLEAN
  BY DEF PicksUp
<1>7. h1 \in Seq(Entry) /\ h2 \in Seq(Entry) /\ h3 \in Seq(Entry)
  <2>1. b.status # Null => [field |-> "status", old |-> o.status, new |-> b.status, by |-> u, at |-> t] \in Entry
    BY DEF Entry, Body, CaseRow
  <2>2. b.priority # Null => [field |-> "priority", old |-> o.priority, new |-> b.priority, by |-> u, at |-> t] \in Entry
    BY DEF Entry, Body, CaseRow
  <2>3. b.code # Null => [field |-> "code", old |-> o.code, new |-> b.code, by |-> u, at |-> t] \in Entry
    BY DEF Entry, Body, CaseRow
  <2>4. h1 \in Seq(Entry)
    BY <2>1, LogType
  <2>5. h2 \in Seq(Entry)
    <3> HIDE DEF h1
    <3> QED BY <2>2, <2>4, LogType
  <2>6. h3 \in Seq(Entry)
    <3> HIDE DEF h2
    <3> QED BY <2>3, <2>5, LogType
  <2> QED
    BY <2>4, <2>5, <2>6
<1> HIDE DEF r1, r2, r3, r4
<1>8. AgreesWith(h1, r1)
  BY <1>1, LogAgrees DEF Keep, Tracked
<1> HIDE DEF h1
<1>9. AgreesWith(h2, r2)
  BY <1>2, <1>5, <1>7, <1>8, LogAgrees DEF Keep, Tracked
<1> HIDE DEF h2
<1>10. AgreesWith(h3, r3)
  BY <1>3, <1>5, <1>7, <1>9, LogAgrees DEF Keep, Tracked
<1> HIDE DEF h3
<1>11. AgreesWith(h4, r4)
  BY <1>4, <1>5, <1>6, <1>7, <1>10, LogAgrees DEF Tracked
<1> QED
  BY <1>11 DEF h1, h2, h3, h4, r4, UpdatedHistory

\* The UPDATE and the history row of create_escalation keep the agreement
LEMMA EscalateAgrees ==
  ASSUME NEW h \in Seq(Entry), NEW row \in CaseRow, NEW old, NEW u, NEW t, AgreesWith(h, row)
  PROVE  AgreesWith(EscalatedHistory(h, old, u, t), [row EXCEPT !.status = "escalated"])
<1> DEFINE row2 == [row EXCEPT !.status = "escalated"]
<1>1. row2["status"] = "escalated" /\ \A f \in Tracked \ {"status"} : row2[f] = row[f]
  BY DEF CaseRow, Tracked
<1> HIDE DEF row2
<1>2. AgreesWith(Log(h, TRUE, "status", old, "escalated", u, t), row2)
  BY <1>1, LogAgrees DEF Tracked
<1> QED
  BY <1>2 DEF EscalatedHistory, row2

\* What is inductive: the agreement, and no history before the case exists
HistoryInv ==
  /\ TypeOK
  /\ HistoryAgrees
  /\ \A c \in Cases \ DOMAIN cases : history[c] = <<>>

\* A step that writes nothing to the two tables keeps the agreement
LEMMA HistoryUntouched ==
  ASSUME HistoryInv, TypeOK', UNCHANGED <<cases, history>>
  PROVE  HistoryInv'
BY DEF HistoryInv, HistoryAgrees, AgreesWith, LastEntry

\* A step that writes one case, its row and its history together, keeps the agreement if
\* what it wrote agrees
LEMMA HistoryOfOneCase ==
  ASSUME HistoryInv, TypeOK', NEW c \in DOMAIN cases, NEW h, NEW row,
         cases' = [cases EXCEPT ![c] = row], history' = [history EXCEPT ![c] = h],
         AgreesWith(h, row)
  PROVE  HistoryInv'
<1>1. c \in Cases /\ DOMAIN cases' = DOMAIN cases /\ cases'[c] = row /\ history'[c] = h
  BY DEF HistoryInv, TypeOK
<1>2. \A d \in Cases : d # c => history'[d] = history[d]
  BY DEF HistoryInv, TypeOK
<1>3. \A d \in DOMAIN cases : d # c => cases'[d] = cases[d]
  BY DEF HistoryInv, TypeOK
<1>4. ASSUME NEW d \in DOMAIN cases'
      PROVE  AgreesWith(history'[d], cases'[d])
  <2>1. CASE d = c
    BY <1>1, <2>1
  <2>2. CASE d # c
    <3>1. d \in Cases /\ history'[d] = history[d] /\ cases'[d] = cases[d]
      BY <1>1, <1>2, <1>3, <1>4, <2>2 DEF HistoryInv, TypeOK
    <3>2. AgreesWith(history[d], cases[d])
      BY <1>1, <1>4 DEF HistoryInv, HistoryAgrees
    <3> QED
      BY <3>1, <3>2
  <2> QED
    BY <2>1, <2>2
<1>5. HistoryAgrees'
  BY <1>4 DEF HistoryAgrees, AgreesWith, LastEntry
<1> QED
  BY <1>1, <1>2, <1>5 DEF HistoryInv

\* No step breaks the agreement
LEMMA HistoryStep ==
  ASSUME HistoryInv, [Next]_vars
  PROVE  HistoryInv'
<1>0. TypeOK /\ TypeOK'
  BY TypeStep DEF HistoryInv
<1>1. ASSUME NEW r \in Slots, NEW u \in Users, NEW c \in Cases, NEW i \in Investors \cup {Null},
             NEW p \in Priorities, Create(r, u, c, i, p)
      PROVE  HistoryInv'
  <2>1. c \notin DOMAIN cases /\ DOMAIN cases' = DOMAIN cases \cup {c} /\ history' = history
    BY <1>1 DEF Create
  <2>2. \A d \in DOMAIN cases : cases'[d] = cases[d]
    BY <1>1 DEF Create
  <2>3. history[c] = <<>>
    BY <2>1 DEF HistoryInv
  <2>4. ASSUME NEW d \in DOMAIN cases'
        PROVE  AgreesWith(history'[d], cases'[d])
    <3>1. CASE d = c
      BY <2>1, <2>3, <3>1 DEF AgreesWith
    <3>2. CASE d \in DOMAIN cases
      <4>1. AgreesWith(history[d], cases[d])
        BY <3>2 DEF HistoryInv, HistoryAgrees
      <4> QED
        BY <2>1, <2>2, <3>2, <4>1
    <3> QED
      BY <2>1, <2>4, <3>1, <3>2
  <2>5. HistoryAgrees'
    BY <2>4 DEF HistoryAgrees, AgreesWith, LastEntry
  <2> QED
    BY <1>0, <2>1, <2>5 DEF HistoryInv
<1>2. ASSUME NEW r \in Slots, UpdateWrite(r)
      PROVE  HistoryInv'
  <2> DEFINE q == req[r]
  <2>1. q \in InFlight("selected", {"update"}, Body, {Null}, CaseRow)
        /\ q.case \in DOMAIN cases /\ q.case \in Cases
    BY <1>0, <1>2, InFlightType DEF UpdateWrite
  <2>2. AgreesWith(history[q.case], cases[q.case])
    BY <2>1 DEF HistoryInv, HistoryAgrees
  <2>3. history[q.case] \in Seq(Entry) /\ cases[q.case] \in CaseRow /\ q.old \in CaseRow
        /\ q.body \in Body /\ q.user \in Users /\ q.now \in Nat
    BY <1>0, <2>1 DEF TypeOK, InFlight
  <2> DEFINE row == UpdatedRow(cases[q.case], q.old, q.body, q.user, q.now)
             h == UpdatedHistory(history[q.case], q.old, q.body, q.user, q.now)
  <2>4. AgreesWith(h, row)
    BY <2>2, <2>3, UpdateAgrees
  <2>5. cases' = [cases EXCEPT ![q.case] = row] /\ history' = [history EXCEPT ![q.case] = h]
    BY <1>2 DEF UpdateWrite
  <2> HIDE DEF row, h, q
  <2> QED
    BY <1>0, <2>1, <2>4, <2>5, HistoryOfOneCase
<1>3. ASSUME NEW r \in Slots, ReassignWrite(r)
      PROVE  HistoryInv'
  <2> DEFINE q == req[r]
             row == [cases[q.case] EXCEPT !.owner = q.target]
             h == Log(history[q.case], TRUE, "owner", q.old.owner, q.target, q.user, q.now)
  <2>1. q.case \in DOMAIN cases /\ q.case \in Cases
    BY <1>0, <1>3, InFlightType DEF ReassignWrite
  <2>2. AgreesWith(history[q.case], cases[q.case]) /\ history[q.case] \in Seq(Entry)
        /\ cases[q.case] \in CaseRow
    BY <1>0, <2>1 DEF HistoryInv, HistoryAgrees, TypeOK
  <2>3. cases' = [cases EXCEPT ![q.case] = row] /\ history' = [history EXCEPT ![q.case] = h]
    BY <1>3, <2>1 DEF ReassignWrite
  <2> HIDE DEF q
  <2>4. row["owner"] = q.target /\ \A f \in Tracked \ {"owner"} : row[f] = cases[q.case][f]
    BY <2>2 DEF CaseRow, Tracked
  <2> HIDE DEF row
  <2>5. AgreesWith(h, row)
    BY <2>2, <2>4, LogAgrees DEF Tracked
  <2> HIDE DEF h
  <2> QED
    BY <1>0, <2>1, <2>3, <2>5, HistoryOfOneCase
<1>4. ASSUME NEW r \in Slots, NEW t \in 0 .. clock, NEW to \in Users, EscalateWrite(r, t, to)
      PROVE  HistoryInv'
  <2> DEFINE q == req[r]
             row == [cases[q.case] EXCEPT !.status = "escalated"]
             h == EscalatedHistory(history[q.case], cases[q.case].status, q.user, t)
  <2>1. q.case \in DOMAIN cases /\ q.case \in Cases
    BY <1>0, <1>4, InFlightType DEF EscalateWrite
  <2>2. AgreesWith(history[q.case], cases[q.case]) /\ history[q.case] \in Seq(Entry)
        /\ cases[q.case] \in CaseRow
    BY <1>0, <2>1 DEF HistoryInv, HistoryAgrees, TypeOK
  <2>3. cases' = [cases EXCEPT ![q.case] = row] /\ history' = [history EXCEPT ![q.case] = h]
    BY <1>4, <2>1 DEF EscalateWrite
  <2>4. AgreesWith(h, row)
    BY <2>2, EscalateAgrees
  <2> HIDE DEF q, row, h
  <2> QED
    BY <1>0, <2>1, <2>3, <2>4, HistoryOfOneCase
<1>5. ASSUME NEW r \in Slots, LinkWrite(r)
      PROVE  HistoryInv'
  <2> DEFINE q == req[r]
             row == [cases[q.case] EXCEPT !.verification = q.target]
             h == history[q.case]
  <2>1. CASE q.case \in DOMAIN cases
    <3>1. q.case \in Cases /\ AgreesWith(h, cases[q.case]) /\ h \in Seq(Entry)
          /\ cases[q.case] \in CaseRow
      BY <1>0, <2>1 DEF HistoryInv, HistoryAgrees, TypeOK
    <3>2. cases' = [cases EXCEPT ![q.case] = row] /\ history' = [history EXCEPT ![q.case] = h]
      BY <1>0, <1>5, <2>1 DEF LinkWrite, TypeOK
    <3> HIDE DEF q
    <3>3. \A f \in Tracked : row[f] = cases[q.case][f]
      BY <3>1 DEF CaseRow, Tracked
    <3> HIDE DEF row, h
    <3>4. AgreesWith(h, row)
      BY <3>1, <3>3, AgreesTracked
    <3> QED
      BY <1>0, <2>1, <3>2, <3>4, HistoryOfOneCase
  <2>2. CASE q.case \notin DOMAIN cases
    BY <1>0, <1>5, <2>2, HistoryUntouched DEF LinkWrite
  <2> QED
    BY <2>1, <2>2
<1>6. ASSUME UNCHANGED <<cases, history>>
      PROVE  HistoryInv'
  BY <1>0, <1>6, HistoryUntouched
<1>7. CASE UNCHANGED vars
  BY <1>6, <1>7 DEF vars
<1>8. CASE Next
  <2>1. CASE Verify \/ Tick
    BY <1>6, <2>1 DEF Verify, StartVerification, CompleteVerification, Tick, tables
  <2>2. ASSUME NEW r \in Slots, Receive(r)
        PROVE  HistoryInv'
    BY <1>1, <1>6, <2>2 DEF Receive, UpdateCheck, ReassignCheck, EscalateCheck, NoteCheck, LinkSelect, tables
  <2>3. ASSUME NEW r \in Slots, Serve(r) \/ Abort(r)
        PROVE  HistoryInv'
    BY <1>2, <1>3, <1>4, <1>5, <1>6, <2>3
       DEF Serve, UpdateSelect, ReassignSelect, NoteWrite, Audit, Abort, tables
  <2> QED
    BY <1>8, <2>1, <2>2, <2>3 DEF Next
<1> QED
  BY <1>7, <1>8

\* case_history is neither behind nor ahead of the row, for any number of requests that
\* read the case before one another's writes
THEOREM HistoryAlwaysAgrees == Spec => []HistoryAgrees
<1>1. Init => HistoryInv
  <2> SUFFICES ASSUME Init PROVE HistoryInv
    OBVIOUS
  <2>1. TypeOK
    BY InitType
  <2> QED
    BY <2>1 DEF Init, HistoryInv, HistoryAgrees
<1>2. HistoryInv /\ [Next]_vars => HistoryInv'
  BY HistoryStep
<1>3. HistoryInv => HistoryAgrees
  BY DEF HistoryInv
<1> QED
  BY <1>1, <1>2, <1>3, PTL DEF Spec

(* ------------------ milestones and resolution codes ------------------- *)

\* What a row with each status has to carry
RowComplete(row) ==
  /\ row.status = "resolved" => row.code # Null /\ row.resolvedAt # Null
  /\ row.status = "closed" => row.closedAt # Null
  /\ row.status = "pending_customer" => row.pendingSince # Null

\* What a row never loses
NoLess(row, row2) ==
  /\ row.resolvedAt # Null => row2.resolvedAt # Null
  /\ row.closedAt # Null => row2.closedAt # Null

\* What is inductive: complete rows; and of a PATCH about to be written, that a resolution
\* brings its code and that the row still has the stamps its SELECT saw
CompleteInv ==
  /\ TypeOK
  /\ \A c \in DOMAIN cases : RowComplete(cases[c])
  /\ \A r \in Slots : req[r].pc = "selected" /\ req[r].op = "update" =>
       /\ ResolutionGate(req[r].old, req[r].body)
       /\ NoLess(req[r].old, cases[req[r].case])

\* The UPDATE of update_case leaves a complete row that lost no stamp
LEMMA UpdateCompletes ==
  ASSUME NEW row \in CaseRow, NEW o \in CaseRow, NEW b \in Body, NEW u \in Users, NEW t \in Nat,
         RowComplete(row), ResolutionGate(o, b), NoLess(o, row)
  PROVE  /\ RowComplete(UpdatedRow(row, o, b, u, t))
         /\ NoLess(row, UpdatedRow(row, o, b, u, t))
<1> DEFINE row2 == UpdatedRow(row, o, b, u, t)
<1>1. t # Null
  BY NullAssumption
<1>2. /\ row2.status = Keep(b.status, row.status)
      /\ row2.code = Keep(b.code, row.code)
      /\ row2.resolvedAt = IF Resolves(o, b) THEN t ELSE row.resolvedAt
      /\ row2.closedAt = IF Closes(o, b) THEN t ELSE row.closedAt
      /\ row2.pendingSince = IF b.status = "pending_customer" THEN t
                             ELSE IF LeavesPending(o, b) THEN Null ELSE row.pendingSince
  BY DEF UpdatedRow, CaseRow
<1> HIDE DEF row2
<1>3. NoLess(row, row2)
  BY <1>1, <1>2 DEF NoLess
<1>4. row2.status = "resolved" => row2.code # Null /\ row2.resolvedAt # Null
  <2>1. CASE b.status = Null
    BY <1>2, <1>3, <2>1 DEF RowComplete, NoLess, Keep
  <2>2. CASE b.status # Null
    BY <1>1, <1>2, <2>2 DEF NoLess, Keep, Resolves, ResolutionGate
  <2> QED
    BY <2>1, <2>2
<1>5. row2.status = "closed" => row2.closedAt # Null
  <2>1. CASE b.status = Null
    BY <1>2, <1>3, <2>1 DEF RowComplete, NoLess, Keep
  <2>2. CASE b.status # Null
    BY <1>1, <1>2, <2>2 DEF NoLess, Keep, Closes
  <2> QED
    BY <2>1, <2>2
<1>6. row2.status = "pending_customer" => row2.pendingSince # Null
  <2>1. CASE b.status = Null
    BY <1>1, <1>2, <2>1 DEF RowComplete, Keep, LeavesPending
  <2>2. CASE b.status # Null
    BY <1>1, <1>2, <2>2 DEF Keep
  <2> QED
    BY <2>1, <2>2
<1> QED
  BY <1>3, <1>4, <1>5, <1>6 DEF RowComplete, row2

\* A step that leaves the table of cases alone, and of the requests none that is about to
\* write a PATCH, keeps the invariant
LEMMA CompleteUntouched ==
  ASSUME CompleteInv, TypeOK', UNCHANGED cases,
         \A r \in Slots : req'[r].pc = "selected" /\ req'[r].op = "update" => req'[r] = req[r]
  PROVE  CompleteInv'
BY DEF CompleteInv, RowComplete, NoLess, ResolutionGate

\* A step that writes one case and ends the statement of one request keeps the invariant, if
\* the row it leaves is complete and lost no stamp
LEMMA CompleteOneCase ==
  ASSUME CompleteInv, TypeOK', NEW r \in Slots, NEW c \in DOMAIN cases, NEW row,
         cases' = [cases EXCEPT ![c] = row], Commit(r),
         RowComplete(row), NoLess(cases[c], row)
  PROVE  CompleteInv'
<1>1. DOMAIN cases' = DOMAIN cases /\ cases'[c] = row
      /\ \A d \in DOMAIN cases : d # c => cases'[d] = cases[d]
  BY DEF CompleteInv, TypeOK
<1>2. \A d \in DOMAIN cases : RowComplete(cases[d]) /\ RowComplete(cases'[d]) /\ NoLess(cases[d], cases'[d])
  BY <1>1 DEF CompleteInv, NoLess
<1>3. ASSUME NEW s \in Slots, req'[s].pc = "selected", req'[s].op = "update"
      PROVE  ResolutionGate(req'[s].old, req'[s].body) /\ NoLess(req'[s].old, cases'[req'[s].case])
  <2>1. req'[r].pc = "committed"
    <3>1. req[r] \in Request /\ req \in [Slots -> Request]
      BY DEF CompleteInv, TypeOK
    <3>2. req' = [req EXCEPT ![r] = [req[r] EXCEPT !.pc = "committed", !.old = Null]]
      BY DEF Commit
    <3>3. [req[r] EXCEPT !.pc = "committed", !.old = Null].pc = "committed"
      BY <3>1 DEF Request, Idle, InFlight
    <3> QED
      BY <3>1, <3>2, <3>3
  <2>2. s # r /\ req'[s] = req[s]
    BY <1>3, <2>1 DEF Commit, CompleteInv, TypeOK
  <2>3. req[s].case \in DOMAIN cases
    BY <1>3, <2>2 DEF CompleteInv, TypeOK
  <2> QED
    BY <1>2, <1>3, <2>2, <2>3 DEF CompleteInv, NoLess
<1>4. \A d \in DOMAIN cases' : RowComplete(cases'[d])
  BY <1>1, <1>2
<1> QED
  BY <1>3, <1>4 DEF CompleteInv, RowComplete, NoLess, ResolutionGate

\* No step breaks the invariant
LEMMA CompleteStep ==
  ASSUME CompleteInv, [Next]_vars
  PROVE  CompleteInv'
<1>0. TypeOK /\ TypeOK'
  BY TypeStep DEF CompleteInv
<1>1. ASSUME NEW r \in Slots, NEW u \in Users, NEW c \in Cases, NEW i \in Investors \cup {Null},
             NEW p \in Priorities, Create(r, u, c, i, p)
      PROVE  CompleteInv'
  <2>1. c \notin DOMAIN cases /\ DOMAIN cases' = DOMAIN cases \cup {c}
        /\ cases'[c] = NewRow(u, i, p) /\ \A d \in DOMAIN cases : cases'[d] = cases[d]
    BY <1>1 DEF Create
  <2>2. NewRow(u, i, p).status = "open"
    BY DEF NewRow
  <2>3. RowComplete(cases'[c])
    BY <2>1, <2>2 DEF RowComplete
  <2>4. \A d \in DOMAIN cases' : RowComplete(cases'[d])
    BY <2>1, <2>3 DEF CompleteInv
  <2>5. ASSUME NEW s \in Slots, req'[s].pc = "selected", req'[s].op = "update"
        PROVE  ResolutionGate(req'[s].old, req'[s].body) /\ NoLess(req'[s].old, cases'[req'[s].case])
    <3>1. req'[s] = req[s]
      BY <1>0, <1>1, <2>5 DEF Create, TypeOK, Idle
    <3>2. req[s].case \in DOMAIN cases
      BY <1>0, <2>5, <3>1 DEF TypeOK
    <3> QED
      BY <2>1, <2>5, <3>1, <3>2 DEF CompleteInv
  <2> QED
    BY <1>0, <2>4, <2>5 DEF CompleteInv, RowComplete, NoLess, ResolutionGate
<1>2. ASSUME NEW r \in Slots, NEW t \in 0 .. clock, UpdateSelect(r, t)
      PROVE  CompleteInv'
  <2> DEFINE q == req[r]
             o == cases[q.case]
  <2>1. q \in InFlight("checked", {"update"}, Body, {Null}, {Null}) /\ q.case \in DOMAIN cases
    BY <1>0, <1>2, InFlightType DEF UpdateSelect
  <2>2. CASE Select(r, t, o) /\ ResolutionGate(o, q.body)
    <3>1. /\ req'[r].old = o /\ req'[r].body = q.body /\ req'[r].case = q.case
          /\ \A s \in Slots : s # r => req'[s] = req[s]
      BY <1>0, <2>1, <2>2 DEF Select, InFlight, TypeOK
    <3>2. cases' = cases
      BY <1>2 DEF UpdateSelect, tables
    <3>3. NoLess(o, o)
      BY DEF NoLess
    <3>4. ASSUME NEW s \in Slots, req'[s].pc = "selected", req'[s].op = "update"
          PROVE  ResolutionGate(req'[s].old, req'[s].body) /\ NoLess(req'[s].old, cases'[req'[s].case])
      <4>1. CASE s = r
        BY <2>2, <3>1, <3>2, <3>3, <4>1
      <4>2. CASE s # r
        BY <3>1, <3>2, <3>4, <4>2 DEF CompleteInv
      <4> QED
        BY <4>1, <4>2
    <3> QED
      BY <1>0, <3>2, <3>4 DEF CompleteInv, RowComplete, NoLess, ResolutionGate
  <2>3. CASE Commit(r) \/ Answer(r)
    <3>1. \A s \in Slots : req'[s].pc = "selected" /\ req'[s].op = "update" => req'[s] = req[s]
      BY <1>0, <2>1, <2>3 DEF Commit, Answer, Idle, InFlight, TypeOK
    <3> QED
      BY <1>0, <1>2, <3>1, CompleteUntouched DEF UpdateSelect, tables
  <2> QED
    BY <1>2, <2>2, <2>3 DEF UpdateSelect
<1>3. ASSUME NEW r \in Slots, UpdateWrite(r)
      PROVE  CompleteInv'
  <2> DEFINE q == req[r]
             row == UpdatedRow(cases[q.case], q.old, q.body, q.user, q.now)
  <2>1. q \in InFlight("selected", {"update"}, Body, {Null}, CaseRow)
        /\ q.case \in DOMAIN cases /\ q.pc = "selected" /\ q.op = "update"
    BY <1>0, <1>3, InFlightType DEF UpdateWrite
  <2>2. /\ cases[q.case] \in CaseRow /\ q.old \in CaseRow
        /\ q.body \in Body /\ q.user \in Users /\ q.now \in Nat
    BY <1>0, <2>1 DEF TypeOK, InFlight
  <2>3. /\ RowComplete(cases[q.case]) /\ ResolutionGate(q.old, q.body)
        /\ NoLess(q.old, cases[q.case])
    BY <2>1 DEF CompleteInv
  <2>4. RowComplete(row) /\ NoLess(cases[q.case], row)
    BY <2>2, <2>3, UpdateCompletes
  <2>5. cases' = [cases EXCEPT ![q.case] = row] /\ Commit(r)
    BY <1>3 DEF UpdateWrite
  <2> HIDE DEF row, q
  <2> QED
    BY <1>0, <2>1, <2>4, <2>5, CompleteOneCase
<1>4. ASSUME NEW r \in Slots, ReassignWrite(r)
      PROVE  CompleteInv'
  <2> DEFINE q == req[r]
             row == [cases[q.case] EXCEPT !.owner = q.target]
  <2>1. q.case \in DOMAIN cases
    BY <1>0, <1>4, InFlightType DEF ReassignWrite
  <2>2. cases[q.case] \in CaseRow /\ RowComplete(cases[q.case])
    BY <1>0, <2>1 DEF TypeOK, CompleteInv
  <2>3. cases' = [cases EXCEPT ![q.case] = row] /\ Commit(r)
    BY <1>4 DEF ReassignWrite
  <2> HIDE DEF q
  <2>4. RowComplete(row) /\ NoLess(cases[q.case], row)
    BY <2>2 DEF RowComplete, NoLess, CaseRow
  <2> HIDE DEF row
  <2> QED
    BY <1>0, <2>1, <2>3, <2>4, CompleteOneCase
<1>5. ASSUME NEW r \in Slots, NEW t \in 0 .. clock, NEW to \in Users, EscalateWrite(r, t, to)
      PROVE  CompleteInv'
  <2> DEFINE q == req[r]
             row == [cases[q.case] EXCEPT !.status = "escalated"]
  <2>1. q.case \in DOMAIN cases
    BY <1>0, <1>5, InFlightType DEF EscalateWrite
  <2>2. cases[q.case] \in CaseRow /\ RowComplete(cases[q.case])
    BY <1>0, <2>1 DEF TypeOK, CompleteInv
  <2>3. cases' = [cases EXCEPT ![q.case] = row] /\ Commit(r)
    BY <1>5 DEF EscalateWrite
  <2> HIDE DEF q
  <2>4. RowComplete(row) /\ NoLess(cases[q.case], row)
    BY <2>2 DEF RowComplete, NoLess, CaseRow
  <2> HIDE DEF row
  <2> QED
    BY <1>0, <2>1, <2>3, <2>4, CompleteOneCase
<1>6. ASSUME NEW r \in Slots, LinkWrite(r)
      PROVE  CompleteInv'
  <2> DEFINE q == req[r]
             row == [cases[q.case] EXCEPT !.verification = q.target]
  <2>0. Commit(r)
    BY <1>6 DEF LinkWrite
  <2>1. CASE q.case \in DOMAIN cases
    <3>2. cases[q.case] \in CaseRow /\ RowComplete(cases[q.case])
      BY <1>0, <2>1 DEF TypeOK, CompleteInv
    <3>3. cases' = [cases EXCEPT ![q.case] = row]
      BY <1>6, <2>1 DEF LinkWrite
    <3> HIDE DEF q
    <3>4. RowComplete(row) /\ NoLess(cases[q.case], row)
      BY <3>2 DEF RowComplete, NoLess, CaseRow
    <3> HIDE DEF row
    <3> QED
      BY <1>0, <2>0, <2>1, <3>3, <3>4, CompleteOneCase
  <2>2. CASE q.case \notin DOMAIN cases
    <3>1. cases' = cases
      BY <1>6, <2>2 DEF LinkWrite
    <3>2. q \in InFlight("selected", {"link"}, {Null}, Sessions, {Null})
      BY <1>0, <1>6, InFlightType DEF LinkWrite
    <3>3. \A s \in Slots : req'[s].pc = "selected" /\ req'[s].op = "update" => req'[s] = req[s]
      BY <1>0, <2>0, <3>2 DEF Commit, InFlight, TypeOK
    <3> QED
      BY <1>0, <3>1, <3>3, CompleteUntouched
  <2> QED
    BY <2>1, <2>2
<1>7. ASSUME NEW r \in Slots, Receive(r)
      PROVE  CompleteInv'
  <2>1. CASE UNCHANGED cases /\ \A s \in Slots : req'[s].pc = "selected" /\ req'[s].op = "update" => req'[s] = req[s]
    BY <1>0, <2>1, CompleteUntouched
  <2>2. ASSUME NEW u \in Users, NEW c \in Cases,
               \/ \E b \in Bodies : UpdateCheck(r, u, c, b)
               \/ \E new \in Users : ReassignCheck(r, u, c, new)
               \/ EscalateCheck(r, u, c)
               \/ NoteCheck(r, u, c)
        PROVE  UNCHANGED cases /\ \A s \in Slots : req'[s].pc = "selected" /\ req'[s].op = "update" => req'[s] = req[s]
    BY <1>0, <2>2 DEF UpdateCheck, ReassignCheck, EscalateCheck, NoteCheck, Check, tables, TypeOK
  <2>3. ASSUME NEW u \in Users, NEW c \in Cases, NEW v \in Sessions, LinkSelect(r, u, c, v)
        PROVE  UNCHANGED cases /\ \A s \in Slots : req'[s].pc = "selected" /\ req'[s].op = "update" => req'[s] = req[s]
    BY <1>0, <2>3 DEF LinkSelect, Idle, tables, TypeOK
  <2> QED
    BY <1>1, <1>7, <2>1, <2>2, <2>3 DEF Receive
<1>8. ASSUME NEW r \in Slots, Abort(r) \/ Audit(r) \/ NoteWrite(r)
      PROVE  CompleteInv'
  <2>1. UNCHANGED cases /\ (Commit(r) \/ Answer(r)) /\ (req[r].pc # "selected" \/ Answer(r))
    BY <1>8 DEF Abort, Audit, NoteWrite, tables
  <2>2. req[r] \in Request
    BY <1>0 DEF TypeOK
  <2>3. \A s \in Slots : req'[s].pc = "selected" /\ req'[s].op = "update" => req'[s] = req[s]
    BY <1>0, <2>1, <2>2 DEF Commit, Answer, Idle, Request, InFlight, TypeOK
  <2> QED
    BY <1>0, <2>1, <2>3, CompleteUntouched
<1>9. ASSUME NEW r \in Slots, NEW t \in 0 .. clock, ReassignSelect(r, t)
      PROVE  CompleteInv'
  <2>1. req[r] \in InFlight("checked", {"reassign"}, {Null}, Users, {Null})
    BY <1>0, <1>9, InFlightType DEF ReassignSelect
  <2>2. \A s \in Slots : req'[s].pc = "selected" /\ req'[s].op = "update" => req'[s] = req[s]
    <3>1. CASE Commit(r)
      BY <1>0, <2>1, <3>1 DEF Commit, InFlight, TypeOK
    <3>2. ASSUME NEW row, Select(r, t, row)
          PROVE  \A s \in Slots : req'[s].pc = "selected" /\ req'[s].op = "update" => req'[s] = req[s]
      BY <1>0, <2>1, <3>2 DEF Select, InFlight, TypeOK
    <3> QED
      BY <1>9, <3>1, <3>2 DEF ReassignSelect
  <2> QED
    BY <1>0, <1>9, <2>2, CompleteUntouched DEF ReassignSelect, tables
<1>10. CASE Verify \/ Tick \/ UNCHANGED vars
  <2>1. UNCHANGED <<cases, req>>
    BY <1>10 DEF Verify, StartVerification, CompleteVerification, Tick, vars, tables
  <2> QED
    BY <1>0, <2>1, CompleteUntouched
<1> QED
  BY <1>2, <1>3, <1>4, <1>5, <1>6, <1>7, <1>8, <1>9, <1>10 DEF Next, Serve

\* What holds of the tables in every state: complete rows
LEMMA AlwaysComplete == Spec => []CompleteInv
<1>1. Init => CompleteInv
  <2> SUFFICES ASSUME Init PROVE CompleteInv
    OBVIOUS
  <2>1. \A r \in Slots : req[r].pc = "idle"
    BY DEF Init, Idle
  <2> QED
    BY <2>1, InitType DEF Init, CompleteInv
<1>2. CompleteInv /\ [Next]_vars => CompleteInv'
  BY CompleteStep
<1> QED
  BY <1>1, <1>2, PTL DEF Spec

\* A resolved case has a resolution code, whatever was changed between the check of the code
\* and the write of the status
THEOREM ResolvedAlwaysHasCode == Spec => []ResolvedHasCode
<1>1. CompleteInv => ResolvedHasCode
  BY DEF CompleteInv, RowComplete, ResolvedHasCode
<1> QED
  BY <1>1, AlwaysComplete, PTL

\* A closed case has closed_at, a resolved one resolved_at and a pending one pending_since,
\* for any number of requests deciding on rows they read earlier
THEOREM MilestonesAlwaysStamped == Spec => []MilestonesStamped
<1>1. CompleteInv => MilestonesStamped
  BY DEF CompleteInv, RowComplete, MilestonesStamped
<1> QED
  BY <1>1, AlwaysComplete, PTL

(* --------------------------- counting rows ---------------------------- *)

\* A set of row numbers grows by at most the new row
LEMMA OneMore ==
  ASSUME NEW n \in Nat, NEW A \in SUBSET (1 .. n), NEW B \in SUBSET (1 .. (n + 1)),
         \A i \in 1 .. n : i \in B <=> i \in A
  PROVE  /\ Cardinality(A) \in Nat
         /\ Cardinality(B) = IF n + 1 \in B THEN Cardinality(A) + 1 ELSE Cardinality(A)
<1>1. IsFiniteSet(1 .. n)
  BY FS_Interval
<1>2. IsFiniteSet(A)
  BY <1>1, FS_Subset
<1>0. /\ \A x : x \in 1 .. (n + 1) <=> x \in 1 .. n \/ x = n + 1
      /\ \A x : x \in A => x \in 1 .. n
      /\ \A x : x \in B => x \in 1 .. (n + 1)
      /\ n + 1 \notin A
  <2>1. \A x : x \in 1 .. (n + 1) <=> x \in 1 .. n \/ x = n + 1
    OBVIOUS
  <2>2. \A x : x \in A => x \in 1 .. n
    OBVIOUS
  <2>3. \A x : x \in B => x \in 1 .. (n + 1)
    OBVIOUS
  <2>4. n + 1 \notin 1 .. n
    OBVIOUS
  <2> QED
    BY <2>1, <2>2, <2>3, <2>4, Zenon
<1>3. CASE n + 1 \in B
  <2>0. \A x : x \in B <=> x \in A \/ x = n + 1
    BY <1>0, <1>3
  <2>1. B = A \cup {n + 1} /\ n + 1 \notin A
    BY <1>0, <2>0, Zenon
  <2> QED
    BY <1>2, <1>3, <2>1, FS_AddElement, FS_CardinalityType
<1>4. CASE n + 1 \notin B
  <2>0. \A x : x \in B <=> x \in A
    BY <1>0, <1>4
  <2>1. B = A
    BY <2>0, Zenon
  <2> QED
    BY <1>2, <1>4, <2>1, FS_CardinalityType
<1> QED
  BY <1>3, <1>4

\* The escalations of u at time t, and the entries of a history that show one
RowsBy(s, u, t) == {i \in 1 .. Len(s) : s[i].from = u /\ s[i].at = t}
EntriesBy(h, u, t) == {i \in 1 .. Len(h) : h[i].new = "escalated" /\ h[i].by = u /\ h[i].at = t}

\* Every escalation of s has an entry of its own in h
LoggedFor(s, h) ==
  \A u \in Users, t \in 0 .. MaxClock : Cardinality(RowsBy(s, u, t)) <= Cardinality(EntriesBy(h, u, t))

\* What EscalationsLogged says, in these terms
LEMMA LoggedMeans ==
  /\ EscalationsLogged <=> \A c \in Cases : LoggedFor(escalations[c], history[c])
  /\ EscalationsLogged' <=> \A c \in Cases : LoggedFor(escalations'[c], history'[c])
BY DEF EscalationsLogged, LoggedFor, Count, RowsBy, EntriesBy

\* A new escalation is one row more of its sender and its time
LEMMA RowAppended ==
  ASSUME NEW s \in Seq(Escalation), NEW e, NEW u, NEW t
  PROVE  /\ Cardinality(RowsBy(s, u, t)) \in Nat
         /\ Cardinality(RowsBy(Append(s, e), u, t)) =
              IF e.from = u /\ e.at = t THEN Cardinality(RowsBy(s, u, t)) + 1
                                        ELSE Cardinality(RowsBy(s, u, t))
<1> DEFINE s2 == Append(s, e)
<1>1. /\ Len(s) \in Nat /\ Len(s2) = Len(s) + 1 /\ s2[Len(s) + 1] = e
      /\ \A i \in 1 .. Len(s) : s2[i] = s[i]
  OBVIOUS
<1> HIDE DEF s2
<1> DEFINE A == RowsBy(s, u, t)
           B == RowsBy(s2, u, t)
<1>2. /\ A \in SUBSET (1 .. Len(s)) /\ B \in SUBSET (1 .. (Len(s) + 1))
      /\ \A i \in 1 .. Len(s) : i \in B <=> i \in A
      /\ Len(s) + 1 \in B <=> e.from = u /\ e.at = t
  BY <1>1 DEF RowsBy
<1> HIDE DEF A, B
<1>3. /\ Cardinality(A) \in Nat
      /\ Cardinality(B) = IF Len(s) + 1 \in B THEN Cardinality(A) + 1 ELSE Cardinality(A)
  BY <1>1, <1>2, OneMore
<1> QED
  BY <1>2, <1>3 DEF A, B, s2

\* A new entry of a history that shows an escalation is one more, any other changes nothing
LEMMA EntryAppended ==
  ASSUME NEW h \in Seq(Entry), NEW e, NEW u, NEW t
  PROVE  /\ Cardinality(EntriesBy(h, u, t)) \in Nat
         /\ Cardinality(EntriesBy(Append(h, e), u, t)) =
              IF e.new = "escalated" /\ e.by = u /\ e.at = t THEN Cardinality(EntriesBy(h, u, t)) + 1
                                                             ELSE Cardinality(EntriesBy(h, u, t))
<1> DEFINE h2 == Append(h, e)
<1>1. /\ Len(h) \in Nat /\ Len(h2) = Len(h) + 1 /\ h2[Len(h) + 1] = e
      /\ \A i \in 1 .. Len(h) : h2[i] = h[i]
  OBVIOUS
<1> HIDE DEF h2
<1> DEFINE A == EntriesBy(h, u, t)
           B == EntriesBy(h2, u, t)
<1>2. /\ A \in SUBSET (1 .. Len(h)) /\ B \in SUBSET (1 .. (Len(h) + 1))
      /\ \A i \in 1 .. Len(h) : i \in B <=> i \in A
      /\ Len(h) + 1 \in B <=> e.new = "escalated" /\ e.by = u /\ e.at = t
  BY <1>1 DEF EntriesBy
<1> HIDE DEF A, B
<1>3. /\ Cardinality(A) \in Nat
      /\ Cardinality(B) = IF Len(h) + 1 \in B THEN Cardinality(A) + 1 ELSE Cardinality(A)
  BY <1>1, <1>2, OneMore
<1> QED
  BY <1>2, <1>3 DEF A, B, h2

\* Writing history takes nothing away
LEMMA LogKeeps ==
  ASSUME NEW h \in Seq(Entry), NEW changed \in BOOLEAN, NEW field, NEW old, NEW new, NEW by, NEW at,
         NEW u, NEW t
  PROVE  Cardinality(EntriesBy(h, u, t)) <= Cardinality(EntriesBy(Log(h, changed, field, old, new, by, at), u, t))
<1> DEFINE e == [field |-> field, old |-> old, new |-> new, by |-> by, at |-> at]
<1>1. Log(h, changed, field, old, new, by, at) = IF changed THEN Append(h, e) ELSE h
  BY DEF Log
<1> HIDE DEF e
<1>2. /\ Cardinality(EntriesBy(h, u, t)) \in Nat
      /\ Cardinality(EntriesBy(h, u, t)) <= Cardinality(EntriesBy(Append(h, e), u, t))
  BY EntryAppended
<1> QED
  BY <1>1, <1>2

\* Neither does update_case
LEMMA UpdateKeeps ==
  ASSUME NEW h \in Seq(Entry), NEW o \in CaseRow, NEW b \in Body, NEW by \in Users, NEW at \in Nat,
         NEW u, NEW t
  PROVE  Cardinality(EntriesBy(h, u, t)) <= Cardinality(EntriesBy(UpdatedHistory(h, o, b, by, at), u, t))
<1> DEFINE h1 == Log(h, b.status # Null, "status", o.status, b.status, by, at)
           h2 == Log(h1, b.priority # Null, "priority", o.priority, b.priority, by, at)
           h3 == Log(h2, b.code # Null, "code", o.code, b.code, by, at)
           h4 == Log(h3, PicksUp(o, b, by), "owner", o.owner, by, by, at)
<1>0. /\ PicksUp(o, b, by) \in BOOLEAN /\ (b.status # Null) \in BOOLEAN
      /\ (b.priority # Null) \in BOOLEAN /\ (b.code # Null) \in BOOLEAN
  BY DEF PicksUp
<1>1. h1 \in Seq(Entry) /\ h2 \in Seq(Entry) /\ h3 \in Seq(Entry)
  <2>1. b.status # Null => [field |-> "status", old |-> o.status, new |-> b.status, by |-> by, at |-> at] \in Entry
    BY DEF Entry, Body, CaseRow
  <2>2. b.priority # Null => [field |-> "priority", old |-> o.priority, new |-> b.priority, by |-> by, at |-> at] \in Entry
    BY DEF Entry, Body, CaseRow
  <2>3. b.code # Null => [field |-> "code", old |-> o.code, new |-> b.code, by |-> by, at |-> at] \in Entry
    BY DEF Entry, Body, CaseRow
  <2>4. h1 \in Seq(Entry)
    BY <1>0, <2>1, LogType
  <2>5. h2 \in Seq(Entry)
    <3> HIDE DEF h1
    <3> QED BY <1>0, <2>2, <2>4, LogType
  <2>6. h3 \in Seq(Entry)
    <3> HIDE DEF h2
    <3> QED BY <1>0, <2>3, <2>5, LogType
  <2> QED
    BY <2>4, <2>5, <2>6
<1>2. UpdatedHistory(h, o, b, by, at) = h4
  BY DEF UpdatedHistory, h1, h2, h3
<1> DEFINE n(g) == Cardinality(EntriesBy(g, u, t))
<1>3. n(h) <= n(h1)
  BY <1>0, LogKeeps
<1>4. n(h1) <= n(h2)
  <2> HIDE DEF h1
  <2> QED BY <1>0, <1>1, LogKeeps
<1>5. n(h2) <= n(h3)
  <2> HIDE DEF h2
  <2> QED BY <1>0, <1>1, LogKeeps
<1>6. n(h3) <= n(h4)
  <2> HIDE DEF h3
  <2> QED BY <1>0, <1>1, LogKeeps
<1>7. n(h) \in Nat /\ n(h1) \in Nat /\ n(h2) \in Nat /\ n(h3) \in Nat /\ n(h4) \in Nat
  <2>1. h4 \in Seq(Entry)
    BY <1>2, UpdatedHistoryType
  <2> HIDE DEF h1, h2, h3, h4
  <2> QED BY <1>1, <2>1, EntryAppended
<1> HIDE DEF n, h4
<1> QED
  BY <1>2, <1>3, <1>4, <1>5, <1>6, <1>7 DEF n

(* ------------------------- escalations logged ------------------------- *)

LogInv == TypeOK /\ EscalationsLogged

\* Writing only history keeps the match
LEMMA LoggedMore ==
  ASSUME LogInv, TypeOK', UNCHANGED escalations, NEW c \in Cases, NEW h \in Seq(Entry),
         history' = [history EXCEPT ![c] = h],
         \A u \in Users, t \in Nat : Cardinality(EntriesBy(history[c], u, t)) <= Cardinality(EntriesBy(h, u, t))
  PROVE  LogInv'
<1>1. ASSUME NEW d \in Cases, NEW u \in Users, NEW t \in Nat,
             Cardinality(RowsBy(escalations[d], u, t)) <= Cardinality(EntriesBy(history[d], u, t))
      PROVE  Cardinality(RowsBy(escalations'[d], u, t)) <= Cardinality(EntriesBy(history'[d], u, t))
  <2>1. /\ escalations[d] \in Seq(Escalation) /\ history[d] \in Seq(Entry) /\ history \in [Cases -> Seq(Entry)]
        /\ escalations' = escalations
    BY DEF LogInv, TypeOK
  <2>2. /\ Cardinality(RowsBy(escalations[d], u, t)) \in Nat
        /\ Cardinality(EntriesBy(history[d], u, t)) \in Nat
        /\ Cardinality(EntriesBy(h, u, t)) \in Nat
    BY <2>1, RowAppended, EntryAppended
  <2>3. history'[d] = IF d = c THEN h ELSE history[d]
    BY <2>1
  <2> QED
    BY <1>1, <2>1, <2>2, <2>3
<1>2. \A t \in 0 .. MaxClock : t \in Nat
  OBVIOUS
<1> QED
  BY <1>1, <1>2, LoggedMeans DEF LogInv, LoggedFor

\* Every step keeps the match
LEMMA LoggedStep ==
  ASSUME LogInv, [Next]_vars
  PROVE  LogInv'
<1>0. TypeOK /\ TypeOK'
  BY TypeStep DEF LogInv
<1>1. ASSUME UNCHANGED <<escalations, history>>
      PROVE  LogInv'
  BY <1>0, <1>1, LoggedMeans DEF LogInv
<1>2. ASSUME NEW r \in Slots, UpdateWrite(r)
      PROVE  LogInv'
  <2> DEFINE q == req[r]
             h == UpdatedHistory(history[q.case], q.old, q.body, q.user, q.now)
  <2>1. q \in InFlight("selected", {"update"}, Body, {Null}, CaseRow) /\ q.case \in Cases
    BY <1>0, <1>2, InFlightType DEF UpdateWrite
  <2>2. history[q.case] \in Seq(Entry) /\ q.old \in CaseRow
        /\ q.body \in Body /\ q.user \in Users /\ q.now \in Nat
    BY <1>0, <2>1 DEF TypeOK, InFlight
  <2>3. history' = [history EXCEPT ![q.case] = h] /\ UNCHANGED escalations
    BY <1>2 DEF UpdateWrite
  <2> HIDE DEF q
  <2>4. h \in Seq(Entry)
    BY <2>2, UpdatedHistoryType
  <2>5. \A u \in Users, t \in Nat : Cardinality(EntriesBy(history[q.case], u, t)) <= Cardinality(EntriesBy(h, u, t))
    BY <2>2, UpdateKeeps
  <2> HIDE DEF h
  <2> QED
    BY <1>0, <2>1, <2>3, <2>4, <2>5, LoggedMore
<1>3. ASSUME NEW r \in Slots, ReassignWrite(r)
      PROVE  LogInv'
  <2> DEFINE q == req[r]
             h == Log(history[q.case], TRUE, "owner", q.old.owner, q.target, q.user, q.now)
  <2>1. q \in InFlight("selected", {"reassign"}, {Null}, Users, CaseRow) /\ q.case \in Cases
    BY <1>0, <1>3, InFlightType DEF ReassignWrite
  <2>2. /\ history[q.case] \in Seq(Entry)
        /\ [field |-> "owner", old |-> q.old.owner, new |-> q.target, by |-> q.user, at |-> q.now] \in Entry
    BY <1>0, <2>1 DEF TypeOK, InFlight, Entry, CaseRow
  <2>3. history' = [history EXCEPT ![q.case] = h] /\ UNCHANGED escalations
    BY <1>3 DEF ReassignWrite
  <2> HIDE DEF q
  <2>4. h \in Seq(Entry)
    BY <2>2, LogType
  <2>5. \A u \in Users, t \in Nat : Cardinality(EntriesBy(history[q.case], u, t)) <= Cardinality(EntriesBy(h, u, t))
    BY <2>2, LogKeeps
  <2> HIDE DEF h
  <2> QED
    BY <1>0, <2>1, <2>3, <2>4, <2>5, LoggedMore
<1>4. ASSUME NEW r \in Slots, NEW t \in 0 .. clock, NEW to \in Users, EscalateWrite(r, t, to)
      PROVE  LogInv'
  <2> DEFINE q == req[r]
             e == [field |-> "status", old |-> cases[q.case].status, new |-> "escalated", by |-> q.user, at |-> t]
             x == [from |-> q.user, to |-> to, at |-> t]
  <2>1. q.case \in Cases /\ history[q.case] \in Seq(Entry) /\ escalations[q.case] \in Seq(Escalation)
    BY <1>0, <1>4, InFlightType DEF EscalateWrite, TypeOK
  <2>2. /\ history' = [history EXCEPT ![q.case] = Append(history[q.case], e)]
        /\ escalations' = [escalations EXCEPT ![q.case] = Append(escalations[q.case], x)]
    BY <1>4 DEF EscalateWrite, EscalatedHistory, Log
  <2>3. e.new = "escalated" /\ e.by = q.user /\ e.at = t /\ x.from = q.user /\ x.at = t
    OBVIOUS
  <2>4. \A d \in Cases : LoggedFor(escalations[d], history[d])
    BY LoggedMeans DEF LogInv
  <2> HIDE DEF q, e, x
  <2>5. LoggedFor(Append(escalations[q.case], x), Append(history[q.case], e))
    <3>1. ASSUME NEW u \in Users, NEW s \in 0 .. MaxClock
          PROVE  Cardinality(RowsBy(Append(escalations[q.case], x), u, s))
                   <= Cardinality(EntriesBy(Append(history[q.case], e), u, s))
      <4>1. Cardinality(RowsBy(escalations[q.case], u, s)) <= Cardinality(EntriesBy(history[q.case], u, s))
        BY <2>1, <2>4 DEF LoggedFor
      <4>2. /\ Cardinality(RowsBy(escalations[q.case], u, s)) \in Nat
            /\ Cardinality(RowsBy(Append(escalations[q.case], x), u, s)) =
                 IF q.user = u /\ t = s THEN Cardinality(RowsBy(escalations[q.case], u, s)) + 1
                                        ELSE Cardinality(RowsBy(escalations[q.case], u, s))
        BY <2>1, <2>3, RowAppended
      <4>3. /\ Cardinality(EntriesBy(history[q.case], u, s)) \in Nat
            /\ Cardinality(EntriesBy(Append(history[q.case], e), u, s)) =
                 IF q.user = u /\ t = s THEN Cardinality(EntriesBy(history[q.case], u, s)) + 1
                                        ELSE Cardinality(EntriesBy(history[q.case], u, s))
        BY <2>1, <2>3, EntryAppended
      <4> QED
        BY <4>1, <4>2, <4>3
    <3> QED
      BY <3>1 DEF LoggedFor
  <2>6. ASSUME NEW d \in Cases
        PROVE  LoggedFor(escalations'[d], history'[d])
    <3>1. CASE d = q.case
      <4>1. /\ escalations'[d] = Append(escalations[q.case], x)
            /\ history'[d] = Append(history[q.case], e)
        BY <1>0, <2>2, <3>1 DEF TypeOK
      <4> QED
        BY <2>5, <4>1
    <3>2. CASE d # q.case
      <4>1. escalations'[d] = escalations[d] /\ history'[d] = history[d]
        BY <1>0, <2>2, <3>2 DEF TypeOK
      <4> QED
        BY <2>4, <4>1
    <3> QED
      BY <3>1, <3>2
  <2> QED
    BY <1>0, <2>6, LoggedMeans DEF LogInv
<1>5. CASE UNCHANGED vars
  BY <1>1, <1>5 DEF vars
<1>6. CASE Next
  <2>1. CASE Verify \/ Tick
    BY <1>1, <2>1 DEF Verify, StartVerification, CompleteVerification, Tick, tables
  <2>2. ASSUME NEW r \in Slots, Receive(r)
        PROVE  LogInv'
    BY <1>1, <2>2 DEF Receive, Create, UpdateCheck, ReassignCheck, EscalateCheck, NoteCheck, LinkSelect, tables
  <2>3. ASSUME NEW r \in Slots, Serve(r) \/ Abort(r)
        PROVE  LogInv'
    BY <1>1, <1>2, <1>3, <1>4, <2>3
       DEF Serve, UpdateSelect, ReassignSelect, NoteWrite, LinkWrite, Audit, Abort, tables
  <2> QED
    BY <1>6, <2>1, <2>2, <2>3 DEF Next
<1> QED
  BY <1>5, <1>6

\* Every row of escalations has an entry of case_history of its own, by the same agent at the
\* same time, for any number of escalations of a case in flight at once
THEOREM EscalationsAlwaysLogged == Spec => []EscalationsLogged
<1>1. Init => LogInv
  <2> SUFFICES ASSUME Init PROVE LogInv
    OBVIOUS
  <2>1. ASSUME NEW u, NEW t
        PROVE  Cardinality(RowsBy(<<>>, u, t)) <= Cardinality(EntriesBy(<<>>, u, t))
    <3>1. RowsBy(<<>>, u, t) = {} /\ EntriesBy(<<>>, u, t) = {}
      BY DEF RowsBy, EntriesBy
    <3> QED
      BY <3>1, FS_EmptySet
  <2>2. \A c \in Cases : LoggedFor(escalations[c], history[c])
    BY <2>1 DEF Init, LoggedFor
  <2> QED
    BY <2>2, InitType, LoggedMeans DEF LogInv
<1>2. LogInv /\ [Next]_vars => LogInv'
  BY LoggedStep
<1>3. LogInv => EscalationsLogged
  BY DEF LogInv
<1> QED
  BY <1>1, <1>2, <1>3, PTL DEF Spec

(* ------------------------- the explicit audit rows -------------------- *)

Counted == {"create", "escalate", "add_note"}

\* The requests whose effect is committed and whose audit row is not
Waiting(c, e) == {r \in Slots : req[r].pc = "committed" /\ req[r].op = e /\ req[r].case = c}

\* The numbers AuditNeverAhead compares
NeverAhead(c, e) == audit[c][e] + Cardinality(Waiting(c, e)) <= Effects(c, e)

AuditInv == TypeOK /\ \A c \in Cases, e \in Counted : NeverAhead(c, e)

\* Of a set of slots, fewer are fewer, and one more is one more
LEMMA Fewer ==
  ASSUME NEW A \in SUBSET Slots
  PROVE  /\ Cardinality(A) \in Nat
         /\ \A B \in SUBSET A : Cardinality(B) \in Nat /\ Cardinality(B) <= Cardinality(A)
         /\ \A B, r : B \in SUBSET (A \cup {r}) => Cardinality(B) \in Nat /\ Cardinality(B) <= Cardinality(A) + 1
         /\ \A r \in A : Cardinality(A \ {r}) = Cardinality(A) - 1
<1>1. IsFiniteSet(A)
  BY SlotsAssumption, FS_Subset
<1>2. ASSUME NEW r
      PROVE  IsFiniteSet(A \cup {r}) /\ Cardinality(A \cup {r}) <= Cardinality(A) + 1
  BY <1>1, FS_AddElement, FS_CardinalityType
<1>3. ASSUME NEW B, NEW r, B \in SUBSET (A \cup {r})
      PROVE  Cardinality(B) \in Nat /\ Cardinality(B) <= Cardinality(A) + 1
  <2> DEFINE C == A \cup {r}
  <2>1. IsFiniteSet(C) /\ Cardinality(C) <= Cardinality(A) + 1 /\ B \in SUBSET C
    BY <1>2, <1>3
  <2> HIDE DEF C
  <2>2. IsFiniteSet(B) /\ Cardinality(B) <= Cardinality(C)
    BY <2>1, FS_Subset
  <2>3. Cardinality(A) \in Nat /\ Cardinality(B) \in Nat /\ Cardinality(C) \in Nat
    BY <1>1, <2>1, <2>2, FS_CardinalityType
  <2> QED
    BY <2>1, <2>2, <2>3
<1>4. ASSUME NEW B \in SUBSET A
      PROVE  Cardinality(B) \in Nat /\ Cardinality(B) <= Cardinality(A)
  BY <1>1, FS_Subset, FS_CardinalityType
<1>5. \A r \in A : Cardinality(A \ {r}) = Cardinality(A) - 1
  BY <1>1, FS_RemoveElement
<1> QED
  BY <1>1, <1>3, <1>4, <1>5, FS_CardinalityType

\* Audit rows and effects are counts
LEMMA CountsType ==
  ASSUME TypeOK, NEW c \in Cases, NEW e \in Counted
  PROVE  audit[c][e] \in Nat /\ Effects(c, e) \in Nat
<1>1. Effects(c, e) \in Nat
  <2>1. escalations[c] \in Seq(Escalation) /\ notes[c] \in Seq(Users)
    BY DEF TypeOK
  <2>2. Len(escalations[c]) \in Nat /\ Len(notes[c]) \in Nat
    BY <2>1
  <2> QED
    BY <2>2 DEF Counted, Effects
<1> QED
  BY <1>1 DEF TypeOK, Counted, AllEndpoints

\* A step that commits no counted effect and undoes none keeps the order
LEMMA NoneCommitted ==
  ASSUME AuditInv, TypeOK', UNCHANGED audit,
         \A c \in Cases, e \in Counted : Effects(c, e)' \in Nat /\ Effects(c, e) <= Effects(c, e)',
         \A s \in Slots : \/ req'[s] = req[s]
                          \/ req'[s].pc # "committed"
                          \/ req'[s].op \notin Counted
  PROVE  AuditInv'
<1>1. ASSUME NEW c \in Cases, NEW e \in Counted
      PROVE  NeverAhead(c, e)'
  <2>1. Waiting(c, e) \in SUBSET Slots /\ Waiting(c, e)' \in SUBSET Waiting(c, e)
    BY DEF Waiting
  <2>2. /\ Cardinality(Waiting(c, e)) \in Nat /\ Cardinality(Waiting(c, e)') \in Nat
        /\ Cardinality(Waiting(c, e)') <= Cardinality(Waiting(c, e))
    BY <2>1, Fewer
  <2>3. audit[c][e] \in Nat /\ Effects(c, e) \in Nat
    BY CountsType DEF AuditInv
  <2>4. audit[c][e] + Cardinality(Waiting(c, e)) <= Effects(c, e)
    BY DEF AuditInv, NeverAhead
  <2>5. audit'[c][e] = audit[c][e] /\ Effects(c, e)' \in Nat /\ Effects(c, e) <= Effects(c, e)'
    OBVIOUS
  <2>6. audit'[c][e] + Cardinality(Waiting(c, e)') <= Effects(c, e)'
    BY <2>2, <2>3, <2>4, <2>5
  <2> QED
    BY <2>6 DEF NeverAhead
<1> QED
  BY <1>1 DEF AuditInv

\* A step that commits one counted effect counts it
LEMMA OneCommitted ==
  ASSUME AuditInv, TypeOK', UNCHANGED audit,
         NEW r \in Slots, NEW c \in Cases, NEW e \in Counted,
         \A s \in Slots : s # r => req'[s] = req[s],
         req'[r].op = e, req'[r].case = c,
         \A d \in Cases, f \in Counted :
           Effects(d, f)' = IF d = c /\ f = e THEN Effects(d, f) + 1 ELSE Effects(d, f)
  PROVE  AuditInv'
<1>1. ASSUME NEW d \in Cases, NEW f \in Counted
      PROVE  NeverAhead(d, f)'
  <2>1. /\ Waiting(d, f) \in SUBSET Slots
        /\ Waiting(d, f)' \in SUBSET (Waiting(d, f) \cup {r})
        /\ ~(d = c /\ f = e) => Waiting(d, f)' \in SUBSET Waiting(d, f)
    BY DEF Waiting
  <2>2. /\ Cardinality(Waiting(d, f)) \in Nat /\ Cardinality(Waiting(d, f)') \in Nat
        /\ Cardinality(Waiting(d, f)') <= Cardinality(Waiting(d, f)) + 1
        /\ ~(d = c /\ f = e) => Cardinality(Waiting(d, f)') <= Cardinality(Waiting(d, f))
    BY <2>1, Fewer
  <2>3. audit[d][f] \in Nat /\ Effects(d, f) \in Nat
    BY CountsType DEF AuditInv
  <2>4. audit[d][f] + Cardinality(Waiting(d, f)) <= Effects(d, f)
    BY DEF AuditInv, NeverAhead
  <2>5. /\ audit'[d][f] = audit[d][f]
        /\ Effects(d, f)' = IF d = c /\ f = e THEN Effects(d, f) + 1 ELSE Effects(d, f)
    OBVIOUS
  <2>6. audit'[d][f] + Cardinality(Waiting(d, f)') <= Effects(d, f)'
    BY <2>2, <2>3, <2>4, <2>5
  <2> QED
    BY <2>6 DEF NeverAhead
<1> QED
  BY <1>1 DEF AuditInv

\* An audit row is of one of those still to be written
LEMMA OneAudited ==
  ASSUME AuditInv, TypeOK', NEW r \in Slots, Audit(r)
  PROVE  AuditInv'
<1> DEFINE q == req[r]
<1>1. q.pc = "committed" /\ audit' = [audit EXCEPT ![q.case][q.op] = @ + 1]
      /\ UNCHANGED <<cases, escalations, notes>>
  BY DEF Audit
<1>2. q \in InFlight("committed", AllEndpoints, Body \cup {Null}, Users \cup Sessions \cup {Null}, {Null})
  BY <1>1, InFlightType DEF AuditInv
<1>3. q.case \in Cases /\ q.op \in AllEndpoints
  BY <1>2 DEF InFlight
<1>4. \A s \in Slots : s # r => req'[s] = req[s]
  BY AnswerType DEF AuditInv, Audit
<1>5. req'[r].pc = "idle"
  BY AnswerType DEF AuditInv, Audit
<1>6. ASSUME NEW c \in Cases, NEW e \in Counted
      PROVE  NeverAhead(c, e)'
  <2>1. Waiting(c, e) \in SUBSET Slots /\ Waiting(c, e)' \in SUBSET (Waiting(c, e) \ {r})
    BY <1>4, <1>5 DEF Waiting
  <2>2. audit[c][e] \in Nat /\ Effects(c, e) \in Nat
    BY CountsType DEF AuditInv
  <2>3. audit[c][e] + Cardinality(Waiting(c, e)) <= Effects(c, e)
    BY DEF AuditInv, NeverAhead
  <2>4. Effects(c, e)' = Effects(c, e)
    BY <1>1 DEF Effects
  <2>5. audit \in [Cases -> [AllEndpoints -> Nat]] /\ e \in AllEndpoints
    BY DEF AuditInv, TypeOK, Counted, AllEndpoints
  <2>6. audit'[c][e] = IF c = q.case /\ e = q.op THEN audit[c][e] + 1 ELSE audit[c][e]
    BY <1>1, <1>3, <2>5
  <2>7. CASE c = q.case /\ e = q.op
    <3>1. r \in Waiting(c, e)
      BY <1>1, <2>7 DEF Waiting
    <3> DEFINE B == Waiting(c, e) \ {r}
    <3>2. B \in SUBSET Slots
      BY <2>1
    <3>3. /\ Cardinality(Waiting(c, e)) \in Nat
          /\ Cardinality(B) = Cardinality(Waiting(c, e)) - 1
      BY <2>1, <3>1, Fewer
    <3> HIDE DEF B
    <3>4. Cardinality(Waiting(c, e)') \in Nat /\ Cardinality(Waiting(c, e)') <= Cardinality(B)
          /\ Cardinality(B) \in Nat
      BY <2>1, <3>2, Fewer DEF B
    <3>5. audit'[c][e] + Cardinality(Waiting(c, e)') <= Effects(c, e)'
      BY <2>2, <2>3, <2>4, <2>6, <2>7, <3>3, <3>4
    <3> QED
      BY <3>5 DEF NeverAhead
  <2>8. CASE ~(c = q.case /\ e = q.op)
    <3>1. Waiting(c, e)' \in SUBSET Waiting(c, e)
      BY <2>1
    <3>2. /\ Cardinality(Waiting(c, e)) \in Nat /\ Cardinality(Waiting(c, e)') \in Nat
          /\ Cardinality(Waiting(c, e)') <= Cardinality(Waiting(c, e))
      BY <2>1, <3>1, Fewer
    <3>3. audit'[c][e] + Cardinality(Waiting(c, e)') <= Effects(c, e)'
      BY <2>2, <2>3, <2>4, <2>6, <2>8, <3>2
    <3> QED
      BY <3>3 DEF NeverAhead
  <2> QED
    BY <2>7, <2>8
<1> QED
  BY <1>6 DEF AuditInv

\* Every step keeps the audit log behind the effects
LEMMA AuditStep ==
  ASSUME AuditInv, [Next]_vars
  PROVE  AuditInv'
<1>0. TypeOK /\ TypeOK'
  BY TypeStep DEF AuditInv
<1>1. \A c \in Cases, e \in Counted : Effects(c, e) \in Nat /\ Effects(c, e)' \in Nat
  <2>1. \A c \in Cases, e \in Counted : Effects(c, e) \in Nat
    BY <1>0, CountsType
  <2>2. ASSUME NEW c \in Cases, NEW e \in Counted
        PROVE  Effects(c, e)' \in Nat
    <3>1. escalations'[c] \in Seq(Escalation) /\ notes'[c] \in Seq(Users)
      BY <1>0 DEF TypeOK
    <3>2. Len(escalations'[c]) \in Nat /\ Len(notes'[c]) \in Nat
      BY <3>1
    <3> QED
      BY <3>2 DEF Counted, Effects
  <2> QED
    BY <2>1, <2>2
<1>2. ASSUME UNCHANGED <<escalations, notes, audit>>, DOMAIN cases' = DOMAIN cases,
             \A s \in Slots : \/ req'[s] = req[s]
                              \/ req'[s].pc # "committed"
                              \/ req'[s].op \notin Counted
      PROVE  AuditInv'
  <2>1. \A c \in Cases, e \in Counted : Effects(c, e)' = Effects(c, e)
    BY <1>2 DEF Effects
  <2> QED
    BY <1>0, <1>1, <1>2, <2>1, NoneCommitted
<1>3. ASSUME NEW r \in Slots, NEW u \in Users, NEW c \in Cases, NEW i \in Investors \cup {Null},
             NEW p \in Priorities, Create(r, u, c, i, p)
      PROVE  AuditInv'
  <2>1. /\ c \notin DOMAIN cases /\ DOMAIN cases' = DOMAIN cases \cup {c}
        /\ UNCHANGED <<escalations, notes, audit>>
        /\ \A s \in Slots : s # r => req'[s] = req[s]
    BY <1>0, <1>3 DEF Create, TypeOK
  <2>2. req'[r].op = "create" /\ req'[r].case = c
    BY <1>0, <1>3 DEF Create, TypeOK, Idle
  <2>3. \A d \in Cases, f \in Counted :
          Effects(d, f)' = IF d = c /\ f = "create" THEN Effects(d, f) + 1 ELSE Effects(d, f)
    BY <2>1 DEF Effects, Counted
  <2> QED
    BY <1>0, <2>1, <2>2, <2>3, OneCommitted DEF Counted
<1>4. ASSUME NEW r \in Slots, NEW t \in 0 .. clock, NEW to \in Users, EscalateWrite(r, t, to)
      PROVE  AuditInv'
  <2> DEFINE q == req[r]
             x == [from |-> q.user, to |-> to, at |-> t]
  <2>1. /\ q.pc = "checked" /\ q.op = "escalate" /\ Commit(r) /\ UNCHANGED <<notes, audit>>
        /\ escalations' = [escalations EXCEPT ![q.case] = Append(escalations[q.case], x)]
        /\ DOMAIN cases' = DOMAIN cases
    BY <1>4 DEF EscalateWrite
  <2>2. q.case \in Cases /\ q \in InFlight("checked", {"escalate", "add_note"}, {Null}, {Null}, {Null})
    BY <1>0, <2>1, InFlightType
  <2>3. /\ \A s \in Slots : s # r => req'[s] = req[s]
        /\ req'[r].op = "escalate" /\ req'[r].case = q.case
    BY <1>0, <2>1, <2>2 DEF Commit, InFlight, TypeOK
  <2>4. \A d \in Cases : Len(escalations'[d]) = IF d = q.case THEN Len(escalations[d]) + 1 ELSE Len(escalations[d])
    BY <1>0, <2>1 DEF TypeOK
  <2> HIDE DEF q
  <2>5. \A d \in Cases, f \in Counted :
          Effects(d, f)' = IF d = q.case /\ f = "escalate" THEN Effects(d, f) + 1 ELSE Effects(d, f)
    BY <2>1, <2>4 DEF Effects, Counted
  <2> QED
    BY <1>0, <2>1, <2>2, <2>3, <2>5, OneCommitted DEF Counted
<1>5. ASSUME NEW r \in Slots, NoteWrite(r)
      PROVE  AuditInv'
  <2> DEFINE q == req[r]
  <2>1. /\ q.pc = "checked" /\ q.op = "add_note" /\ Commit(r) /\ UNCHANGED <<escalations, audit>>
        /\ notes' = [notes EXCEPT ![q.case] = Append(notes[q.case], q.user)]
        /\ DOMAIN cases' = DOMAIN cases
    BY <1>5 DEF NoteWrite
  <2>2. q.case \in Cases /\ q \in InFlight("checked", {"escalate", "add_note"}, {Null}, {Null}, {Null})
    BY <1>0, <2>1, InFlightType
  <2>3. /\ \A s \in Slots : s # r => req'[s] = req[s]
        /\ req'[r].op = "add_note" /\ req'[r].case = q.case
    BY <1>0, <2>1, <2>2 DEF Commit, InFlight, TypeOK
  <2>4. \A d \in Cases : Len(notes'[d]) = IF d = q.case THEN Len(notes[d]) + 1 ELSE Len(notes[d])
    BY <1>0, <2>1 DEF TypeOK
  <2> HIDE DEF q
  <2>5. \A d \in Cases, f \in Counted :
          Effects(d, f)' = IF d = q.case /\ f = "add_note" THEN Effects(d, f) + 1 ELSE Effects(d, f)
    BY <2>1, <2>4 DEF Effects, Counted
  <2> QED
    BY <1>0, <2>1, <2>2, <2>3, <2>5, OneCommitted DEF Counted
<1>6. ASSUME NEW r \in Slots, UpdateWrite(r) \/ ReassignWrite(r) \/ LinkWrite(r)
      PROVE  AuditInv'
  <2> DEFINE q == req[r]
  <2>1. /\ q.pc = "selected" /\ q.op \in {"update", "reassign", "link"} /\ Commit(r)
        /\ UNCHANGED <<escalations, notes, audit>> /\ DOMAIN cases' = DOMAIN cases
    BY <1>6 DEF UpdateWrite, ReassignWrite, LinkWrite
  <2>2. \A s \in Slots : s # r => req'[s] = req[s]
    BY <1>0, <2>1, CommitType
  <2>3. req'[r].op \notin Counted
    <3>1. \/ q \in InFlight("selected", {"update"}, Body, {Null}, CaseRow)
          \/ q \in InFlight("selected", {"reassign"}, {Null}, Users, CaseRow)
          \/ q \in InFlight("selected", {"link"}, {Null}, Sessions, {Null})
      BY <1>0, <2>1, InFlightType
    <3>2. req'[r].op = q.op
      BY <1>0, <2>1, <3>1 DEF Commit, InFlight, TypeOK
    <3> QED
      BY <2>1, <3>2 DEF Counted
  <2> QED
    BY <1>2, <2>1, <2>2, <2>3
<1>7. ASSUME NEW r \in Slots, NEW t \in 0 .. clock, UpdateSelect(r, t) \/ ReassignSelect(r, t)
      PROVE  AuditInv'
  <2> DEFINE q == req[r]
  <2>1. /\ q.pc = "checked" /\ q.op \in {"update", "reassign"} /\ UNCHANGED tables
        /\ Commit(r) \/ Answer(r) \/ \E row : Select(r, t, row)
    BY <1>7 DEF UpdateSelect, ReassignSelect
  <2>2. \/ q \in InFlight("checked", {"update"}, Body, {Null}, {Null})
        \/ q \in InFlight("checked", {"reassign"}, {Null}, Users, {Null})
    BY <1>0, <2>1, InFlightType
  <2>3. /\ \A s \in Slots : s # r => req'[s] = req[s]
        /\ req'[r].pc # "committed" \/ req'[r].op \notin Counted
    <3>1. CASE Commit(r)
      <4>1. req'[r].op = q.op /\ \A s \in Slots : s # r => req'[s] = req[s]
        BY <1>0, <2>2, <3>1 DEF Commit, InFlight, TypeOK
      <4> QED
        BY <2>1, <4>1 DEF Counted
    <3>2. CASE Answer(r)
      BY <1>0, <3>2, AnswerType
    <3>3. ASSUME NEW row, Select(r, t, row)
          PROVE  /\ \A s \in Slots : s # r => req'[s] = req[s]
                 /\ req'[r].pc # "committed"
      BY <1>0, <2>2, <3>3 DEF Select, InFlight, TypeOK
    <3> QED
      BY <2>1, <3>1, <3>2, <3>3
  <2> QED
    BY <1>2, <2>1, <2>3 DEF tables
<1>8. ASSUME NEW r \in Slots, Receive(r)
      PROVE  AuditInv'
  <2>1. ASSUME UNCHANGED tables, \A s \in Slots : s # r => req'[s] = req[s], req'[r].pc # "committed"
        PROVE  AuditInv'
    BY <1>2, <2>1 DEF tables
  <2>2. ASSUME NEW u \in Users, NEW c \in Cases, NEW b \in Bodies, UpdateCheck(r, u, c, b)
        PROVE  AuditInv'
    BY <1>0, <2>1, <2>2 DEF UpdateCheck, Check, TypeOK
  <2>3. ASSUME NEW u \in Users, NEW c \in Cases, NEW new \in Users, ReassignCheck(r, u, c, new)
        PROVE  AuditInv'
    BY <1>0, <2>1, <2>3 DEF ReassignCheck, Check, TypeOK
  <2>4. ASSUME NEW u \in Users, NEW c \in Cases, EscalateCheck(r, u, c) \/ NoteCheck(r, u, c)
        PROVE  AuditInv'
    BY <1>0, <2>1, <2>4 DEF EscalateCheck, NoteCheck, Check, TypeOK
  <2>5. ASSUME NEW u \in Users, NEW c \in Cases, NEW v \in Sessions, LinkSelect(r, u, c, v)
        PROVE  AuditInv'
    BY <1>0, <2>1, <2>5 DEF LinkSelect, Idle, TypeOK
  <2> QED
    BY <1>3, <1>8, <2>2, <2>3, <2>4, <2>5 DEF Receive
<1>9. ASSUME NEW r \in Slots, Abort(r)
      PROVE  AuditInv'
  BY <1>0, <1>2, <1>9, AnswerType DEF Abort, tables
<1>10. CASE UNCHANGED vars
  BY <1>2, <1>10 DEF vars
<1>11. CASE Verify \/ Tick
  BY <1>2, <1>11 DEF Verify, StartVerification, CompleteVerification, Tick, tables
<1>12. ASSUME NEW r \in Slots, Serve(r)
       PROVE  AuditInv'
  BY <1>0, <1>4, <1>5, <1>6, <1>7, <1>12, OneAudited DEF Serve
<1> QED
  BY <1>8, <1>9, <1>10, <1>11, <1>12 DEF Next

\* The audit log never tells of a case, an escalation or a note that was not committed, for
\* any number of requests in flight and whatever of them crash
THEOREM AuditIsNeverAhead == Spec => []AuditNeverAhead
<1>1. Init => AuditInv
  <2> SUFFICES ASSUME Init PROVE AuditInv
    OBVIOUS
  <2>1. TypeOK
    BY InitType
  <2>2. ASSUME NEW c \in Cases, NEW e \in Counted
        PROVE  NeverAhead(c, e)
    <3>1. Waiting(c, e) = {}
      BY DEF Waiting, Init, Idle
    <3>2. audit[c][e] = 0
      BY DEF Init, Counted, AllEndpoints
    <3>3. Effects(c, e) \in Nat
      BY <2>1, CountsType
    <3> QED
      BY <3>1, <3>2, <3>3, FS_EmptySet DEF NeverAhead
  <2> QED
    BY <2>1, <2>2 DEF AuditInv
<1>2. AuditInv /\ [Next]_vars => AuditInv'
  BY AuditStep
<1>3. AuditInv => AuditNeverAhead
  BY DEF AuditInv, NeverAhead, AuditNeverAhead, Unaudited, Waiting, Counted
<1> QED
  BY <1>1, <1>2, <1>3, PTL DEF Spec

=============================================================================

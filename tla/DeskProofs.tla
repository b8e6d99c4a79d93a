----------------------------- MODULE DeskProofs ------------------------------
(***************************************************************************)
(* Proofs about approvals, outbound tasks, presence and their logs, for    *)
(* any staff, any number of approvals and tasks, and any number of requests *)
(* in flight.                                                              *)
(***************************************************************************)
EXTENDS DeskProperties, FiniteSetTheorems, TLAPS

(* ----------------------------- invariants ----------------------------- *)

\* Nobody's decision on the approval was written
Undecided(a) == a \notin DOMAIN approvals \/ approvals[a].status = "pending"

\* Before the first decision is written none is recorded or about to be, and after it the
\* requests that may still decide are among those that read the approval as pending
DecisionInv ==
  \A a \in Approvals :
    /\ Undecided(a) => Recorded(a) = {} /\ Flying("committed", "review", a) = {}
    /\ a \notin DOMAIN approvals => Flying("selected", "review", a) = {}
    /\ ~Undecided(a) => Cardinality(Recorded(a)) + Cardinality(Flying("committed", "review", a))
                          + Cardinality(Flying("selected", "review", a)) <= Cardinality(Slots)

\* The answers that were collisions, and the requests that will get one
Duplicates == {i \in DOMAIN answers : answers[i].status = "duplicate"}
Doomed == {r \in Slots : req[r].pc = "selected" /\ req[r].row.op = "set_presence" /\ Collides(req[r])}

\* Who has a row that the generator did not make
Newcomers == DOMAIN presence \ Present

\* Collisions come with a newcomer's first row
PresenceInv ==
  /\ Present \subseteq DOMAIN presence
  /\ IsFiniteSet(Newcomers)
  /\ Cardinality(Duplicates) + Cardinality(Doomed) <= (Cardinality(Slots) - 1) * Cardinality(Newcomers)

\* Rows of the two logs, and the requests that will add to the request log
OkRows(op) == {i \in DOMAIN log : log[i] = [op |-> op, status |-> "ok"]}
AuditRows(op) == {i \in DOMAIN audit : audit[i].op = op}
Succeeded(op) == {r \in Slots : req[r].pc = "answered" /\ req[r].told = [op |-> op, status |-> "ok"]}

\* Who is about to be told of a success has an audit row that the request log does not know yet
AuditedInv ==
  \A op \in Ops : Cardinality(OkRows(op)) + Cardinality(Succeeded(op)) <= Cardinality(AuditRows(op))

\* The three parts are independent of each other and inductive together with the types
DeskInv == TypeOK /\ DecisionInv /\ PresenceInv /\ AuditedInv


(* ------------------------------- types -------------------------------- *)

\* What an update makes of a task
LEMMA UpdatedType ==
  ASSUME NEW row \in Task, NEW status \in (Wanted \cap TaskStatuses) \cup {Null}, NEW u
  PROVE  Updated(row, status, u) \in Task /\ Updated(row, status, u).owner = row.owner
<1> DEFINE s == IF status = Null THEN row.status ELSE status
           a == row.attempted \/ status = "in_progress"
           c == row.completed \/ status \in {"completed", "failed"}
<1>1. /\ row = [status |-> row.status, owner |-> row.owner, attempted |-> row.attempted, completed |-> row.completed]
      /\ row.status \in TaskStatuses /\ row.owner \in Users /\ row.attempted \in BOOLEAN /\ row.completed \in BOOLEAN
  BY DEF Task
<1>2. s \in TaskStatuses
  BY <1>1
<1>3. a \in BOOLEAN /\ c \in BOOLEAN
  OBVIOUS
<1>4. Updated(row, status, u) = [row EXCEPT !.status = s, !.attempted = a, !.completed = c]
  BY Zenon DEF Updated
<1> HIDE DEF s, a, c
<1>5. [row EXCEPT !.status = s, !.attempted = a, !.completed = c] \in Task
  BY <1>1, <1>2, <1>3 DEF Task
<1>6. [row EXCEPT !.status = s, !.attempted = a, !.completed = c].owner = row.owner
  BY <1>1
<1>7. QED BY <1>4, <1>5, <1>6

\* What a request carries at each of its steps
LEMMA StageIs ==
  ASSUME TypeOK, NEW r \in Slots
  PROVE  \/ req[r] = Idle /\ req[r].pc = "idle"
         \/ /\ req[r].pc = "selected" /\ req[r].row.op = "review"
            /\ req[r].row = [op |-> "review", id |-> req[r].row.id]
            /\ req[r].row.id \in Approvals /\ req[r].value \in Decisions /\ req[r].user \in Users
         \/ /\ req[r].pc = "selected" /\ req[r].row.op = "set_presence"
            /\ req[r].row.id \in Users /\ req[r].value \in PresenceStatuses /\ req[r].found \in BOOLEAN
         \/ /\ req[r].pc = "committed" /\ req[r].row \in AuditRow
            /\ req[r].row.op \in Ops /\ req[r].row.id \in Approvals \cup Tasks \cup Users
            /\ req[r].row = [op |-> req[r].row.op, id |-> req[r].row.id]
         \/ /\ req[r].pc = "answered" /\ req[r].told \in Told /\ req[r].told.op \in Ops
            /\ req[r].told.status \in {"ok", "refused"}
            /\ req[r].told = [op |-> req[r].told.op, status |-> req[r].told.status]
<1> DEFINE q == req[r]
<1>1. q \in InFlight \cup {Idle}
  BY DEF TypeOK
<1> HIDE DEF q
<1>2. CASE q = Idle
  BY <1>2 DEF q, Idle
<1>3. CASE q \in [pc : {"selected"}, row : [op : {"review"}, id : Approvals], user : Users,
                  value : Decisions, found : {TRUE}]
  <2>1. q.pc = "selected" /\ q.row \in [op : {"review"}, id : Approvals] /\ q.user \in Users /\ q.value \in Decisions
    BY <1>3
  <2>2. q.row.op = "review" /\ q.row.id \in Approvals /\ q.row = [op |-> "review", id |-> q.row.id]
    BY <2>1
  <2>3. QED BY <2>1, <2>2 DEF q
<1>4. CASE q \in [pc : {"selected"}, row : [op : {"set_presence"}, id : Users], user : Users,
                  value : PresenceStatuses, found : BOOLEAN]
  <2>1. /\ q.pc = "selected" /\ q.row \in [op : {"set_presence"}, id : Users]
        /\ q.value \in PresenceStatuses /\ q.found \in BOOLEAN
    BY <1>4
  <2>2. q.row.op = "set_presence" /\ q.row.id \in Users
    BY <2>1
  <2>3. QED BY <2>1, <2>2 DEF q
<1>5. CASE q \in [pc : {"committed"}, row : AuditRow]
  <2>1. q.pc = "committed" /\ q.row \in AuditRow
    BY <1>5
  <2>2. q.row.op \in Ops /\ q.row.id \in Approvals \cup Tasks \cup Users /\ q.row = [op |-> q.row.op, id |-> q.row.id]
    BY <2>1 DEF AuditRow
  <2>3. QED BY <2>1, <2>2 DEF q
<1>6. CASE q \in [pc : {"answered"}, told : [op : Ops, status : {"ok", "refused"}]]
  <2>1. q.pc = "answered" /\ q.told \in [op : Ops, status : {"ok", "refused"}]
    BY <1>6
  <2>2. /\ q.told.op \in Ops /\ q.told.status \in {"ok", "refused"}
        /\ q.told = [op |-> q.told.op, status |-> q.told.status]
    BY <2>1
  <2>3. q.told \in Told
    BY <2>2 DEF Told
  <2>4. QED BY <2>1, <2>2, <2>3 DEF q
<1>7. QED BY <1>1, <1>2, <1>3, <1>4, <1>5, <1>6 DEF InFlight

\* Whatever a request does next, it carries what its step needs
LEMMA RequestTypes ==
  ASSUME TypeOK, NEW r \in Slots, NEW q \in InFlight \cup {Idle}, req' = [req EXCEPT ![r] = q]
  PROVE  req' \in [Slots -> InFlight \cup {Idle}]
BY DEF TypeOK

\* Every step keeps the types
LEMMA TypeStep == TypeOK /\ [Next]_vars => TypeOK'
<1> SUFFICES ASSUME TypeOK, [Next]_vars PROVE TypeOK'
  OBVIOUS
<1>1. CASE UNCHANGED vars
  BY <1>1 DEF vars, tables, TypeOK
<1>2. ASSUME NEW op \in Ops, NEW status \in {"ok", "refused", "busy", "duplicate", "none"}
      PROVE  /\ [op |-> op, status |-> status] \in Told
             /\ status \in {"ok", "refused"} =>
                  [pc |-> "answered", told |-> [op |-> op, status |-> status]] \in InFlight
  BY DEF Told, InFlight
<1>3. ASSUME NEW op \in Ops, NEW id \in Approvals \cup Tasks \cup Users
      PROVE  [pc |-> "committed", row |-> [op |-> op, id |-> id]] \in InFlight
  BY DEF InFlight, AuditRow
<1>4. ASSUME NEW r \in Slots, NEW op \in Ops, Refuse(r, op)
      PROVE  req' \in [Slots -> InFlight \cup {Idle}]
  BY <1>2, <1>4, RequestTypes DEF Refuse, TypeOK
<1>5. ASSUME NEW r \in Slots, NEW op \in Ops, NEW id \in Approvals \cup Tasks \cup Users, Commit(r, op, id)
      PROVE  req' \in [Slots -> InFlight \cup {Idle}]
  BY <1>3, <1>5 DEF Commit, TypeOK
<1>6. ASSUME NEW r \in Slots, NEW op \in Ops,
             NEW status \in {"ok", "refused", "busy", "duplicate", "none"}, Raise(r, op, status)
      PROVE  answers' \in Seq(Told) /\ req' \in [Slots -> InFlight \cup {Idle}]
  <2>1. [op |-> op, status |-> status] \in Told
    BY <1>2
  <2>2. answers' = Append(answers, [op |-> op, status |-> status]) /\ req' = [req EXCEPT ![r] = Idle]
    BY <1>6 DEF Raise
  <2>3. answers' \in Seq(Told)
    BY <2>1, <2>2 DEF TypeOK
  <2>4. QED BY <2>2, <2>3 DEF TypeOK
<1>7. /\ "request_approval" \in Ops /\ "review" \in Ops /\ "create_task" \in Ops /\ "update_task" \in Ops
      /\ "set_presence" \in Ops
  BY DEF Ops
<1>8. ASSUME NEW r \in Slots, NEW u \in Users, NEW a \in Approvals, RequestApproval(r, u, a)
      PROVE  TypeOK'
  <2>1. CASE HasPermission(RoleOf[u], "approval", "create")
    <3> DEFINE row == [status |-> "pending", by |-> u, reviewer |-> Null]
    <3>1. row \in Approval
      BY DEF Approval
    <3>2. approvals' = Insert(approvals, a, row) /\ Commit(r, "request_approval", a)
      BY <1>8, <2>1 DEF RequestApproval
    <3> HIDE DEF row
    <3>3. approvals' \in [DOMAIN approvals' -> Approval] /\ DOMAIN approvals' \subseteq Approvals
      <4>1. approvals \in [DOMAIN approvals -> Approval] /\ DOMAIN approvals \subseteq Approvals
        BY DEF TypeOK
      <4>2. /\ Insert(approvals, a, row) \in [DOMAIN approvals \cup {a} -> Approval]
            /\ DOMAIN Insert(approvals, a, row) = DOMAIN approvals \cup {a}
        BY <3>1, <4>1 DEF Insert
      <4>3. QED BY <3>2, <4>1, <4>2
    <3>4. req' \in [Slots -> InFlight \cup {Idle}]
      BY <1>5, <1>7, <3>2
    <3>5. QED BY <1>8, <3>3, <3>4 DEF RequestApproval, TypeOK
  <2>2. CASE ~HasPermission(RoleOf[u], "approval", "create")
    BY <1>4, <1>7, <1>8, <2>2 DEF RequestApproval, TypeOK
  <2>3. QED BY <2>1, <2>2
<1>9. ASSUME NEW r \in Slots, NEW u \in Users, NEW a \in Approvals, NEW decision \in Decisions,
             ReviewSelect(r, u, a, decision)
      PROVE  TypeOK'
  <2> DEFINE next == [pc |-> "selected", row |-> [op |-> "review", id |-> a], user |-> u,
                      value |-> decision, found |-> TRUE]
  <2>1. next \in InFlight
    BY DEF InFlight
  <2>2. req' = [req EXCEPT ![r] = next] \/ Refuse(r, "review")
    BY <1>9 DEF ReviewSelect, Select
  <2>3. req' \in [Slots -> InFlight \cup {Idle}]
    BY <1>4, <1>7, <2>1, <2>2 DEF TypeOK
  <2>4. QED BY <1>9, <2>3 DEF ReviewSelect, tables, TypeOK
<1>10. ASSUME NEW r \in Slots, ReviewWrite(r) PROVE TypeOK'
  <2> DEFINE q == req[r]
  <2>1. q.row.id \in Approvals /\ q.value \in Decisions /\ q.user \in Users
    BY <1>10, StageIs DEF ReviewWrite
  <2>2. \A a \in DOMAIN approvals : [approvals[a] EXCEPT !.status = q.value, !.reviewer = q.user] \in Approval
    BY <2>1 DEF TypeOK, Approval
  <2>3. approvals' = [approvals EXCEPT ![q.row.id] = [approvals[q.row.id] EXCEPT !.status = q.value, !.reviewer = q.user]]
    BY <1>10 DEF ReviewWrite
  <2>4. approvals' \in [DOMAIN approvals -> Approval] /\ DOMAIN approvals' = DOMAIN approvals
    BY <2>2, <2>3 DEF TypeOK
  <2>5. req' \in [Slots -> InFlight \cup {Idle}]
    BY <1>5, <1>7, <1>10, <2>1 DEF ReviewWrite
  <2>6. QED BY <1>10, <2>4, <2>5 DEF ReviewWrite, TypeOK
<1>11. ASSUME NEW r \in Slots, NEW u \in Users, NEW t \in Tasks, CreateTask(r, u, t)
       PROVE  TypeOK'
  <2>1. CASE HasPermission(RoleOf[u], "case", "create")
    <3> DEFINE row == [status |-> "pending", owner |-> u, attempted |-> FALSE, completed |-> FALSE]
    <3>1. row \in Task
      BY DEF Task, TaskStatuses
    <3>2. tasks' = Insert(tasks, t, row) /\ Commit(r, "create_task", t)
      BY <1>11, <2>1 DEF CreateTask
    <3> HIDE DEF row
    <3>3. tasks' \in [DOMAIN tasks' -> Task] /\ DOMAIN tasks' \subseteq Tasks
      <4>1. tasks \in [DOMAIN tasks -> Task] /\ DOMAIN tasks \subseteq Tasks
        BY DEF TypeOK
      <4>2. /\ Insert(tasks, t, row) \in [DOMAIN tasks \cup {t} -> Task]
            /\ DOMAIN Insert(tasks, t, row) = DOMAIN tasks \cup {t}
        BY <3>1, <4>1 DEF Insert
      <4>3. QED BY <3>2, <4>1, <4>2
    <3>4. req' \in [Slots -> InFlight \cup {Idle}]
      BY <1>5, <1>7, <3>2
    <3>5. QED BY <1>11, <3>3, <3>4 DEF CreateTask, TypeOK
  <2>2. CASE ~HasPermission(RoleOf[u], "case", "create")
    BY <1>4, <1>7, <1>11, <2>2 DEF CreateTask, TypeOK
  <2>3. QED BY <2>1, <2>2
<1>12. ASSUME NEW r \in Slots, NEW u \in Users, NEW t \in Tasks,
              NEW status \in (Wanted \cap TaskStatuses) \cup {Null}, UpdateTask(r, u, t, status)
       PROVE  TypeOK'
  <2>1. CASE HasPermission(RoleOf[u], "case", "update") /\ t \in DOMAIN tasks
    <3>1. tasks' = [tasks EXCEPT ![t] = Updated(tasks[t], status, u)] /\ Commit(r, "update_task", t)
      BY <1>12, <2>1 DEF UpdateTask
    <3>2. Updated(tasks[t], status, u) \in Task
      BY <2>1, UpdatedType DEF TypeOK
    <3>3. tasks' \in [DOMAIN tasks -> Task] /\ DOMAIN tasks' = DOMAIN tasks
      BY <3>1, <3>2 DEF TypeOK
    <3>4. req' \in [Slots -> InFlight \cup {Idle}]
      BY <1>5, <1>7, <3>1
    <3>5. QED BY <1>12, <3>3, <3>4 DEF UpdateTask, TypeOK
  <2>2. CASE ~(HasPermission(RoleOf[u], "case", "update") /\ t \in DOMAIN tasks)
    BY <1>4, <1>7, <1>12, <2>2 DEF UpdateTask, TypeOK
  <2>3. QED BY <2>1, <2>2
<1>13. ASSUME NEW r \in Slots, NEW u \in Users, NEW agent \in Users,
              NEW status \in Wanted \cap PresenceStatuses, PresenceSelect(r, u, agent, status)
       PROVE  TypeOK'
  <2> DEFINE found == agent \in DOMAIN presence
             next == [pc |-> "selected", row |-> [op |-> "set_presence", id |-> agent], user |-> u,
                      value |-> status, found |-> found]
  <2>1. found \in BOOLEAN
    OBVIOUS
  <2>2. req' = [req EXCEPT ![r] = next] \/ Refuse(r, "set_presence")
    BY <1>13 DEF PresenceSelect, Select
  <2> HIDE DEF found
  <2>3. next \in InFlight
    BY <2>1 DEF InFlight
  <2> HIDE DEF next
  <2>4. req' \in [Slots -> InFlight \cup {Idle}]
    BY <1>4, <1>7, <2>2, <2>3 DEF TypeOK
  <2>5. QED BY <1>13, <2>4 DEF PresenceSelect, tables, TypeOK
<1>14. ASSUME NEW r \in Slots, PresenceWrite(r) PROVE TypeOK'
  <2> DEFINE q == req[r]
  <2>1. q.row.id \in Users /\ q.value \in PresenceStatuses
    BY <1>14, StageIs DEF PresenceWrite
  <2>2. CASE Collides(q)
    <3>1. Raise(r, "set_presence", "duplicate")
      BY <1>14, <2>2 DEF PresenceWrite
    <3>2. answers' \in Seq(Told) /\ req' \in [Slots -> InFlight \cup {Idle}]
      BY <1>6, <1>7, <3>1
    <3>3. QED BY <1>14, <2>2, <3>2 DEF PresenceWrite, TypeOK
  <2>3. CASE ~Collides(q)
    <3>1. presence' = Insert(presence, q.row.id, q.value) /\ Commit(r, "set_presence", q.row.id)
      BY <1>14, <2>3 DEF PresenceWrite
    <3>2. presence' \in [DOMAIN presence' -> PresenceStatuses] /\ DOMAIN presence' \subseteq Users
      <4>1. presence \in [DOMAIN presence -> PresenceStatuses] /\ DOMAIN presence \subseteq Users
        BY DEF TypeOK
      <4> DEFINE id == q.row.id
                 value == q.value
      <4>2. id \in Users /\ value \in PresenceStatuses
        BY <2>1
      <4> HIDE DEF id, value
      <4>3. /\ Insert(presence, id, value) \in [DOMAIN presence \cup {id} -> PresenceStatuses]
            /\ DOMAIN Insert(presence, id, value) = DOMAIN presence \cup {id}
        BY <4>1, <4>2 DEF Insert
      <4>4. presence' = Insert(presence, id, value)
        BY <3>1 DEF id, value
      <4>5. QED BY <4>1, <4>2, <4>3, <4>4
    <3>3. req' \in [Slots -> InFlight \cup {Idle}]
      BY <1>5, <1>7, <2>1, <3>1
    <3>4. QED BY <1>14, <2>3, <3>2, <3>3 DEF PresenceWrite, TypeOK
  <2>4. QED BY <2>2, <2>3
<1>15. ASSUME NEW r \in Slots, req[r].pc = "committed" PROVE req[r].row \in AuditRow /\ req[r].row.op \in Ops
  BY <1>15, StageIs
<1>16. ASSUME NEW r \in Slots, req[r].pc = "answered" PROVE req[r].told \in Told /\ req[r].told.op \in Ops
  BY <1>16, StageIs
<1>17. ASSUME NEW r \in Slots, req[r].pc = "selected" PROVE req[r].row.op \in Ops
  BY <1>7, <1>17, StageIs
<1>18. ASSUME NEW r \in Slots, Audit(r) PROVE TypeOK'
  <2>1. req' \in [Slots -> InFlight \cup {Idle}]
    BY <1>2, <1>15, <1>18, RequestTypes DEF Audit, TypeOK
  <2>2. audit' \in Seq(AuditRow)
    BY <1>15, <1>18 DEF Audit, TypeOK
  <2>3. QED BY <1>18, <2>1, <2>2 DEF Audit, tables, TypeOK
<1>19. ASSUME NEW r \in Slots, LogRequest(r) PROVE TypeOK'
  <2>1. req' \in [Slots -> InFlight \cup {Idle}]
    BY <1>19 DEF LogRequest, TypeOK
  <2>2. log' \in Seq(Told) /\ answers' \in Seq(Told)
    BY <1>16, <1>19 DEF LogRequest, TypeOK
  <2>3. QED BY <1>19, <2>1, <2>2 DEF LogRequest, tables, TypeOK
<1>20. ASSUME NEW r \in Slots, Busy(r) \/ Die(r) PROVE TypeOK'
  <2>1. PICK op \in Ops, status \in {"ok", "refused", "busy", "duplicate", "none"} : Raise(r, op, status)
    <3>1. CASE req[r].pc \in {"selected", "committed"}
      BY <1>15, <1>17, <1>20, <3>1 DEF Busy, Die
    <3>2. CASE req[r].pc = "answered"
      <4>1. req[r].told.status \in {"ok", "refused", "busy", "duplicate", "none"}
        BY <3>2, StageIs
      <4>2. QED BY <1>16, <1>20, <3>2, <4>1 DEF Busy, Die
    <3>3. req[r] # Idle => req[r].pc \in {"selected", "committed", "answered"}
      BY StageIs
    <3>4. req[r].pc \in {"selected", "committed", "answered"}
      BY <1>20, <3>3 DEF Busy, Die, Idle
    <3>5. QED BY <3>1, <3>2, <3>4
  <2>2. answers' \in Seq(Told) /\ req' \in [Slots -> InFlight \cup {Idle}]
    BY <1>6, <2>1
  <2>3. QED BY <1>20, <2>2 DEF Busy, Die, tables, TypeOK
<1>21. QED BY <1>1, <1>8, <1>9, <1>10, <1>11, <1>12, <1>13, <1>14, <1>18, <1>19, <1>20 DEF Next, Receive


(* ------------------------------ counting ------------------------------ *)

\* Two sets that differ in one element at most
LEMMA OneApart ==
  ASSUME NEW Base, IsFiniteSet(Base), NEW A \in SUBSET Base, NEW B \in SUBSET Base, NEW x \in Base,
         \A y \in Base : y # x => (y \in A <=> y \in B)
  PROVE  /\ IsFiniteSet(A) /\ IsFiniteSet(B)
         /\ Cardinality(A) \in Nat /\ Cardinality(B) \in Nat
         /\ (x \in A <=> x \in B) => A = B
         /\ x \in A /\ x \notin B => Cardinality(A) = Cardinality(B) + 1
         /\ x \notin A /\ x \in B => Cardinality(B) = Cardinality(A) + 1
<1>1. IsFiniteSet(A) /\ IsFiniteSet(B)
  BY FS_Subset
<1>2. Cardinality(A) \in Nat /\ Cardinality(B) \in Nat
  BY <1>1, FS_CardinalityType
<1>3. (x \in A <=> x \in B) => A = B
  OBVIOUS
<1>4. x \in A /\ x \notin B => Cardinality(A) = Cardinality(B) + 1
  <2>1. x \in A /\ x \notin B => A = B \cup {x}
    OBVIOUS
  <2>2. QED BY <1>1, <2>1, FS_AddElement
<1>5. x \notin A /\ x \in B => Cardinality(B) = Cardinality(A) + 1
  <2>1. x \notin A /\ x \in B => B = A \cup {x}
    OBVIOUS
  <2>2. QED BY <1>1, <2>1, FS_AddElement
<1>6. QED BY <1>1, <1>2, <1>3, <1>4, <1>5

\* A new row comes after the others
LEMMA OneLonger ==
  ASSUME NEW S, NEW s \in Seq(S), NEW row \in S
  PROVE  /\ Len(s) + 1 \in Nat /\ DOMAIN s = 1..Len(s)
         /\ DOMAIN Append(s, row) = 1..(Len(s) + 1)
         /\ Append(s, row)[Len(s) + 1] = row
         /\ \A i \in 1..(Len(s) + 1) : i # Len(s) + 1 => i \in DOMAIN s /\ Append(s, row)[i] = s[i]
OBVIOUS

\* The request of one slot makes a step, the others stay where they are
OnlyMoves(r) == \A o \in Slots : o # r => req'[o] = req[o]

\* The requests at a step of an operation, when one request makes a step
LEMMA FlyingMoves ==
  ASSUME NEW r \in Slots, OnlyMoves(r), NEW pc, NEW op, NEW id
  PROVE  /\ Cardinality(Flying(pc, op, id)) \in Nat /\ Cardinality(Flying(pc, op, id)') \in Nat
         /\ r \notin Flying(pc, op, id) /\ r \notin Flying(pc, op, id)' => Flying(pc, op, id)' = Flying(pc, op, id)
         /\ r \in Flying(pc, op, id) /\ r \notin Flying(pc, op, id)' =>
              Cardinality(Flying(pc, op, id)) = Cardinality(Flying(pc, op, id)') + 1
         /\ r \notin Flying(pc, op, id) /\ r \in Flying(pc, op, id)' =>
              Cardinality(Flying(pc, op, id)') = Cardinality(Flying(pc, op, id)) + 1
<1> DEFINE A == Flying(pc, op, id)
           B == Flying(pc, op, id)'
<1>1. A \in SUBSET Slots /\ B \in SUBSET Slots
  BY DEF Flying
<1>2. \A o \in Slots : o # r => (o \in A <=> o \in B)
  BY DEF Flying, OnlyMoves
<1> HIDE DEF A, B
<1>3. /\ Cardinality(A) \in Nat /\ Cardinality(B) \in Nat
      /\ (r \in A <=> r \in B) => A = B
      /\ r \in A /\ r \notin B => Cardinality(A) = Cardinality(B) + 1
      /\ r \notin A /\ r \in B => Cardinality(B) = Cardinality(A) + 1
  BY <1>1, <1>2, OneApart, SlotsAssumption
<1>4. QED BY <1>3 DEF A, B

\* The rows of a log that are among some
Rows(s, T) == {i \in DOMAIN s : s[i] \in T}

\* There is a number of them
LEMMA RowsType ==
  ASSUME NEW S, NEW s \in Seq(S), NEW T
  PROVE  IsFiniteSet(Rows(s, T)) /\ Cardinality(Rows(s, T)) \in Nat
<1>1. Rows(s, T) \subseteq 1..Len(s) /\ Len(s) \in Nat
  BY DEF Rows
<1>2. IsFiniteSet(1..Len(s))
  BY <1>1, FS_Interval
<1>3. QED BY <1>1, <1>2, FS_Subset, FS_CardinalityType

\* A new row adds itself
LEMMA RowsGrow ==
  ASSUME NEW S, NEW s \in Seq(S), NEW row \in S, NEW T
  PROVE  /\ row \notin T => Rows(Append(s, row), T) = Rows(s, T)
         /\ row \in T => Cardinality(Rows(Append(s, row), T)) = Cardinality(Rows(s, T)) + 1
<1> DEFINE longer == Append(s, row)
           A == Rows(s, T)
           B == Rows(longer, T)
           last == Len(s) + 1
           Base == 1..last
<1>1. /\ last \in Nat /\ DOMAIN s = 1..Len(s) /\ DOMAIN longer = Base /\ longer[last] = row
      /\ \A i \in Base : i # last => i \in DOMAIN s /\ longer[i] = s[i]
      /\ Len(s) \in Nat
  BY OneLonger
<1>2. last \in Base /\ last \notin DOMAIN s /\ DOMAIN s \subseteq Base
  BY <1>1
<1> HIDE DEF longer, Base, last
<1>3. A \in SUBSET Base /\ B \in SUBSET Base
  BY <1>1, <1>2 DEF Rows
<1>4. last \notin A /\ (last \in B <=> row \in T)
  BY <1>1, <1>2 DEF Rows
<1>5. \A i \in Base : i # last => (i \in A <=> i \in B)
  BY <1>1, <1>2 DEF Rows
<1>6. IsFiniteSet(Base)
  BY <1>1, FS_Interval DEF Base
<1> HIDE DEF A, B
<1>7. /\ (last \in A <=> last \in B) => A = B
      /\ last \notin A /\ last \in B => Cardinality(B) = Cardinality(A) + 1
  BY <1>2, <1>3, <1>5, <1>6, OneApart
<1>8. QED BY <1>4, <1>7 DEF A, B, longer

\* The rows the invariants count
LEMMA RowsAre ==
  ASSUME TypeOK
  PROVE  /\ \A a : Recorded(a) = Rows(audit, {[op |-> "review", id |-> a]})
         /\ \A op : AuditRows(op) = Rows(audit, {row \in AuditRow : row.op = op})
         /\ \A op : OkRows(op) = Rows(log, {[op |-> op, status |-> "ok"]})
         /\ Duplicates = Rows(answers, {told \in Told : told.status = "duplicate"})
BY DEF TypeOK, Recorded, AuditRows, OkRows, Duplicates, Rows

(* ------------------------------ decisions ----------------------------- *)

\* The decisions on record, when an audit row is written
LEMMA RecordedGrows ==
  ASSUME TypeOK, TypeOK', NEW row \in AuditRow, audit' = Append(audit, row), NEW a
  PROVE  /\ row # [op |-> "review", id |-> a] => Recorded(a)' = Recorded(a)
         /\ row = [op |-> "review", id |-> a] => Cardinality(Recorded(a)') = Cardinality(Recorded(a)) + 1
<1> DEFINE T == {[op |-> "review", id |-> a]}
<1>1. Recorded(a) = Rows(audit, T)
  BY RowsAre
<1>2. Recorded(a)' = Rows(audit', T)
  BY DEF Recorded, Rows
<1>3. audit \in Seq(AuditRow)
  BY DEF TypeOK
<1>4. row \in T <=> row = [op |-> "review", id |-> a]
  OBVIOUS
<1> HIDE DEF T
<1>5. /\ row \notin T => Rows(Append(audit, row), T) = Rows(audit, T)
      /\ row \in T => Cardinality(Rows(Append(audit, row), T)) = Cardinality(Rows(audit, T)) + 1
  BY <1>3, RowsGrow
<1>6. QED BY <1>1, <1>2, <1>4, <1>5

\* A request that is not, or no longer, on its way to a decision leaves the decisions as they are
LEMMA NoDecision ==
  ASSUME TypeOK, DecisionInv, NEW r \in Slots, OnlyMoves(r), audit' = audit,
         \A a \in Approvals : /\ Undecided(a)' <=> Undecided(a)
                              /\ a \in DOMAIN approvals => a \in DOMAIN approvals'
                              /\ r \notin Flying("committed", "review", a)'
                              /\ a \in DOMAIN approvals \/ r \notin Flying("selected", "review", a)'
                              /\ Undecided(a) \/ r \notin Flying("selected", "review", a)'
  PROVE  DecisionInv'
<1> SUFFICES ASSUME NEW a \in Approvals
             PROVE  /\ Undecided(a)' => Recorded(a)' = {} /\ Flying("committed", "review", a)' = {}
                    /\ a \notin DOMAIN approvals' => Flying("selected", "review", a)' = {}
                    /\ ~Undecided(a)' => Cardinality(Recorded(a)') + Cardinality(Flying("committed", "review", a)')
                                           + Cardinality(Flying("selected", "review", a)') <= Cardinality(Slots)
  BY DEF DecisionInv
<1>1. Recorded(a)' = Recorded(a) /\ Cardinality(Recorded(a)) \in Nat
  <2>1. Recorded(a) = Rows(audit, {[op |-> "review", id |-> a]}) /\ audit \in Seq(AuditRow)
    BY RowsAre DEF TypeOK
  <2>2. Cardinality(Recorded(a)) \in Nat
    BY <2>1, RowsType
  <2>3. QED BY <2>2 DEF Recorded
<1>2. /\ Cardinality(Flying("committed", "review", a)) \in Nat
      /\ Flying("committed", "review", a)' = Flying("committed", "review", a) \/
           /\ Flying("committed", "review", a) # {}
           /\ Cardinality(Flying("committed", "review", a)) = Cardinality(Flying("committed", "review", a)') + 1
  BY FlyingMoves
<1>3. Undecided(a) \/ Flying("selected", "review", a)' = Flying("selected", "review", a)
        \/ Cardinality(Flying("selected", "review", a)) = Cardinality(Flying("selected", "review", a)') + 1
  BY FlyingMoves
<1>4. a \notin DOMAIN approvals => Flying("selected", "review", a) = {} /\ r \notin Flying("selected", "review", a)'
  BY DEF DecisionInv
<1>5. a \notin DOMAIN approvals => Flying("selected", "review", a)' = {}
  BY <1>4, FlyingMoves
<1>6. /\ Cardinality(Flying("committed", "review", a)) \in Nat /\ Cardinality(Flying("committed", "review", a)') \in Nat
      /\ Cardinality(Flying("selected", "review", a)) \in Nat /\ Cardinality(Flying("selected", "review", a)') \in Nat
      /\ Cardinality(Slots) \in Nat
  BY FlyingMoves, SlotsAssumption, FS_CardinalityType
<1>7. Undecided(a)' => Recorded(a)' = {} /\ Flying("committed", "review", a)' = {}
  BY <1>1, <1>2 DEF DecisionInv
<1>8. ~Undecided(a)' => Cardinality(Recorded(a)') + Cardinality(Flying("committed", "review", a)')
                          + Cardinality(Flying("selected", "review", a)') <= Cardinality(Slots)
  BY <1>1, <1>2, <1>3, <1>6 DEF DecisionInv
<1>9. QED BY <1>5, <1>7, <1>8

\* A step of a slot leaves the others alone, and where the request is then is what it was sent to
LEMMA Sent ==
  ASSUME TypeOK, NEW r \in Slots, NEW q, req' = [req EXCEPT ![r] = q]
  PROVE  OnlyMoves(r) /\ req'[r] = q
BY DEF TypeOK, OnlyMoves

\* A decision is written by a request that read the approval as pending
LEMMA WrittenDecision ==
  ASSUME TypeOK, TypeOK', DecisionInv, NEW r \in Slots, ReviewWrite(r)
  PROVE  DecisionInv'
<1>0. PICK b \in Approvals : b = req[r].row.id
  BY StageIs DEF ReviewWrite
<1>1. /\ req[r].pc = "selected" /\ req[r].row = [op |-> "review", id |-> b] /\ b \in Approvals
      /\ req[r].value \in Decisions
  BY <1>0, StageIs DEF ReviewWrite
<1>2. OnlyMoves(r) /\ req'[r] = [pc |-> "committed", row |-> [op |-> "review", id |-> b]]
  BY <1>0, Sent DEF ReviewWrite, Commit
<1>3. /\ approvals' = [approvals EXCEPT ![b] = [approvals[b] EXCEPT !.status = req[r].value, !.reviewer = req[r].user]]
      /\ audit' = audit
  BY <1>0 DEF ReviewWrite
<1>4. r \in Flying("selected", "review", b) /\ r \notin Flying("committed", "review", b)
  BY <1>1 DEF Flying
<1>5. r \notin Flying("selected", "review", b)' /\ r \in Flying("committed", "review", b)'
  BY <1>2 DEF Flying
<1>6. b \in DOMAIN approvals
  BY <1>1, <1>4 DEF DecisionInv
<1>7. approvals[b] \in Approval
  BY <1>6 DEF TypeOK
<1>8. DOMAIN approvals' = DOMAIN approvals /\ approvals'[b].status = req[r].value
  BY <1>3, <1>6, <1>7 DEF Approval
<1>9. ~Undecided(b)'
  BY <1>1, <1>6, <1>8 DEF Undecided, Decisions
<1>10. ASSUME NEW a \in Approvals, a # b
       PROVE  /\ Undecided(a)' <=> Undecided(a)
              /\ Flying("selected", "review", a)' = Flying("selected", "review", a)
              /\ Flying("committed", "review", a)' = Flying("committed", "review", a)
  <2>1. approvals'[a] = approvals[a] \/ a \notin DOMAIN approvals
    BY <1>3, <1>10
  <2>2. [op |-> "review", id |-> a] # [op |-> "review", id |-> b]
    BY <1>10
  <2>3. /\ r \notin Flying("selected", "review", a) /\ r \notin Flying("selected", "review", a)'
        /\ r \notin Flying("committed", "review", a) /\ r \notin Flying("committed", "review", a)'
    BY <1>1, <1>2, <2>2 DEF Flying
  <2>4. QED BY <1>2, <1>8, <2>1, <2>3, FlyingMoves DEF Undecided
<1>11. \A a : Recorded(a)' = Recorded(a)
  BY <1>3 DEF Recorded
<1>12. Cardinality(Recorded(b)) + Cardinality(Flying("committed", "review", b)')
         + Cardinality(Flying("selected", "review", b)') <= Cardinality(Slots)
  <2> DEFINE rec == Cardinality(Recorded(b))
             com == Cardinality(Flying("committed", "review", b))
             sel == Cardinality(Flying("selected", "review", b))
             com2 == Cardinality(Flying("committed", "review", b)')
             sel2 == Cardinality(Flying("selected", "review", b)')
             all == Cardinality(Slots)
  <2>1. com2 = com + 1 /\ sel = sel2 + 1 /\ com \in Nat /\ sel \in Nat /\ com2 \in Nat /\ sel2 \in Nat
    BY <1>2, <1>4, <1>5, FlyingMoves
  <2>2. rec \in Nat
    <3>1. Recorded(b) = Rows(audit, {[op |-> "review", id |-> b]}) /\ audit \in Seq(AuditRow)
      BY RowsAre DEF TypeOK
    <3>2. QED BY <3>1, RowsType
  <2>3. all \in Nat
    BY SlotsAssumption, FS_CardinalityType
  <2>4. CASE Undecided(b)
    <3>1. rec = 0 /\ com = 0
      BY <1>1, <2>4, FS_EmptySet DEF DecisionInv
    <3>2. Flying("selected", "review", b) \subseteq Slots
      BY DEF Flying
    <3>3. sel <= all
      BY <3>2, SlotsAssumption, FS_Subset
    <3> HIDE DEF rec, com, sel, com2, sel2, all
    <3>4. rec + com2 + sel2 <= all
      BY <2>1, <2>2, <2>3, <3>1, <3>3
    <3>5. QED BY <3>4 DEF rec, com2, sel2, all
  <2>5. CASE ~Undecided(b)
    <3>1. rec + com + sel <= all
      BY <1>1, <2>5 DEF DecisionInv
    <3> HIDE DEF rec, com, sel, com2, sel2, all
    <3>2. rec + com2 + sel2 <= all
      BY <2>1, <2>2, <2>3, <3>1
    <3>3. QED BY <3>2 DEF rec, com2, sel2, all
  <2>6. QED BY <2>4, <2>5
<1>13. ASSUME NEW a \in Approvals
       PROVE  /\ Undecided(a)' => Recorded(a)' = {} /\ Flying("committed", "review", a)' = {}
              /\ a \notin DOMAIN approvals' => Flying("selected", "review", a)' = {}
              /\ ~Undecided(a)' => Cardinality(Recorded(a)') + Cardinality(Flying("committed", "review", a)')
                                     + Cardinality(Flying("selected", "review", a)') <= Cardinality(Slots)
  <2>1. CASE a = b
    BY <1>6, <1>8, <1>9, <1>11, <1>12, <2>1
  <2>2. CASE a # b
    BY <1>8, <1>10, <1>11, <2>2 DEF DecisionInv
  <2>3. QED BY <2>1, <2>2
<1>14. QED BY <1>13 DEF DecisionInv

\* The audit row of a decision takes the place of the request that wrote the decision
LEMMA AuditedDecision ==
  ASSUME TypeOK, TypeOK', DecisionInv, NEW r \in Slots, Audit(r)
  PROVE  DecisionInv'
<1>1. PICK row \in AuditRow : row = req[r].row
  BY StageIs DEF Audit
<1>2. req[r].pc = "committed" /\ req[r].row = row /\ audit' = Append(audit, row) /\ approvals' = approvals
  BY <1>1 DEF Audit, tables
<1>3. OnlyMoves(r) /\ req'[r].pc = "answered"
  <2> DEFINE q == [pc |-> "answered", told |-> [op |-> row.op, status |-> "ok"]]
  <2>1. req' = [req EXCEPT ![r] = q] /\ q.pc = "answered"
    BY <1>1 DEF Audit
  <2> HIDE DEF q
  <2>2. QED BY <2>1, Sent
<1>4. ASSUME NEW a \in Approvals
      PROVE  /\ Undecided(a)' => Recorded(a)' = {} /\ Flying("committed", "review", a)' = {}
             /\ a \notin DOMAIN approvals' => Flying("selected", "review", a)' = {}
             /\ ~Undecided(a)' => Cardinality(Recorded(a)') + Cardinality(Flying("committed", "review", a)')
                                    + Cardinality(Flying("selected", "review", a)') <= Cardinality(Slots)
  <2>1. (Undecided(a)' <=> Undecided(a)) /\ DOMAIN approvals' = DOMAIN approvals
    BY <1>2 DEF Undecided
  <2>2. r \notin Flying("selected", "review", a) /\ r \notin Flying("selected", "review", a)'
    BY <1>2, <1>3 DEF Flying
  <2>3. Flying("selected", "review", a)' = Flying("selected", "review", a)
    BY <1>3, <2>2, FlyingMoves
  <2>4. r \notin Flying("committed", "review", a)'
    BY <1>3 DEF Flying
  <2>5. CASE row = [op |-> "review", id |-> a]
    <3>1. r \in Flying("committed", "review", a)
      BY <1>2, <2>5 DEF Flying
    <3>2. ~Undecided(a)
      BY <3>1 DEF DecisionInv
    <3>3. Cardinality(Recorded(a)') = Cardinality(Recorded(a)) + 1
      BY <1>2, <2>5, RecordedGrows
    <3>4. /\ Cardinality(Flying("committed", "review", a)) = Cardinality(Flying("committed", "review", a)') + 1
          /\ Cardinality(Flying("committed", "review", a)') \in Nat
          /\ Cardinality(Flying("selected", "review", a)) \in Nat
      BY <1>3, <2>4, <3>1, FlyingMoves
    <3>5. Cardinality(Recorded(a)) \in Nat
      <4>1. Recorded(a) = Rows(audit, {[op |-> "review", id |-> a]}) /\ audit \in Seq(AuditRow)
        BY RowsAre DEF TypeOK
      <4>2. QED BY <4>1, RowsType
    <3>6. Cardinality(Slots) \in Nat
      BY SlotsAssumption, FS_CardinalityType
    <3>7. Cardinality(Recorded(a)) + Cardinality(Flying("committed", "review", a))
            + Cardinality(Flying("selected", "review", a)) <= Cardinality(Slots)
      BY <3>2 DEF DecisionInv
    <3>8. Cardinality(Recorded(a)') + Cardinality(Flying("committed", "review", a)')
            + Cardinality(Flying("selected", "review", a)') <= Cardinality(Slots)
      BY <2>3, <3>3, <3>4, <3>5, <3>6, <3>7
    <3>9. QED BY <2>1, <2>3, <3>2, <3>8 DEF DecisionInv
  <2>6. CASE row # [op |-> "review", id |-> a]
    <3>1. r \notin Flying("committed", "review", a)
      BY <1>2, <2>6 DEF Flying
    <3>2. Flying("committed", "review", a)' = Flying("committed", "review", a)
      BY <1>3, <2>4, <3>1, FlyingMoves
    <3>3. Recorded(a)' = Recorded(a)
      BY <1>2, <2>6, RecordedGrows
    <3>4. QED BY <2>1, <2>3, <3>2, <3>3 DEF DecisionInv
  <2>7. QED BY <2>5, <2>6
<1>5. QED BY <1>4 DEF DecisionInv

\* Requests that are refused, broken off or answered decide nothing
LEMMA NoDecisionLeft ==
  ASSUME TypeOK, DecisionInv, NEW r \in Slots, NEW q, req' = [req EXCEPT ![r] = q], audit' = audit,
         q.pc \in {"idle", "answered"} \/ (q.pc \in {"selected", "committed"} /\ q.row.op # "review"),
         \A a \in Approvals : /\ Undecided(a)' <=> Undecided(a)
                              /\ a \in DOMAIN approvals => a \in DOMAIN approvals'
  PROVE  DecisionInv'
<1>1. OnlyMoves(r) /\ req'[r] = q
  BY Sent
<1>2. \A a : r \notin Flying("committed", "review", a)' /\ r \notin Flying("selected", "review", a)'
  BY <1>1 DEF Flying
<1>3. QED BY <1>1, <1>2, NoDecision

\* Every step of every request keeps the bound on the decisions
LEMMA DecisionStep == TypeOK /\ TypeOK' /\ DecisionInv /\ [Next]_vars => DecisionInv'
<1> SUFFICES ASSUME TypeOK, TypeOK', DecisionInv, [Next]_vars PROVE DecisionInv'
  OBVIOUS
<1>1. CASE UNCHANGED vars
  BY <1>1 DEF vars, tables, DecisionInv, Undecided, Recorded, Flying
<1>2. ASSUME approvals' = approvals
      PROVE  \A a \in Approvals : /\ Undecided(a)' <=> Undecided(a)
                                  /\ a \in DOMAIN approvals => a \in DOMAIN approvals'
  BY <1>2 DEF Undecided
<1>3. ASSUME NEW r \in Slots, NEW op, Refuse(r, op), audit' = audit, approvals' = approvals
      PROVE  DecisionInv'
  <2> DEFINE q == [pc |-> "answered", told |-> [op |-> op, status |-> "refused"]]
  <2>1. req' = [req EXCEPT ![r] = q] /\ q.pc = "answered"
    BY <1>3 DEF Refuse
  <2> HIDE DEF q
  <2>2. QED BY <1>2, <1>3, <2>1, NoDecisionLeft
<1>4. ASSUME NEW r \in Slots, NEW op, NEW id, Commit(r, op, id), op # "review", audit' = audit,
             \A a \in Approvals : /\ Undecided(a)' <=> Undecided(a)
                                  /\ a \in DOMAIN approvals => a \in DOMAIN approvals'
      PROVE  DecisionInv'
  <2> DEFINE q == [pc |-> "committed", row |-> [op |-> op, id |-> id]]
  <2>1. req' = [req EXCEPT ![r] = q] /\ q.pc = "committed" /\ q.row.op # "review"
    BY <1>4 DEF Commit
  <2> HIDE DEF q
  <2>2. QED BY <1>4, <2>1, NoDecisionLeft
<1>5. ASSUME NEW r \in Slots, NEW op, NEW status, Raise(r, op, status), audit' = audit, approvals' = approvals
      PROVE  DecisionInv'
  <2>1. req' = [req EXCEPT ![r] = Idle] /\ Idle.pc = "idle"
    BY <1>5 DEF Raise, Idle
  <2>2. QED BY <1>2, <1>5, <2>1, NoDecisionLeft
<1>6. ASSUME NEW r \in Slots, NEW u \in Users, NEW a \in Approvals, RequestApproval(r, u, a)
      PROVE  DecisionInv'
  <2>1. CASE HasPermission(RoleOf[u], "approval", "create")
    <3> DEFINE row == [status |-> "pending", by |-> u, reviewer |-> Null]
    <3>1. /\ approvals' = Insert(approvals, a, row) /\ Commit(r, "request_approval", a) /\ audit' = audit
          /\ a \notin DOMAIN approvals /\ row.status = "pending"
      BY <1>6, <2>1 DEF RequestApproval
    <3> HIDE DEF row
    <3>2. \A b \in Approvals : /\ Undecided(b)' <=> Undecided(b)
                               /\ b \in DOMAIN approvals => b \in DOMAIN approvals'
      BY <3>1 DEF Insert, Undecided
    <3>3. QED BY <1>4, <3>1, <3>2
  <2>2. CASE ~HasPermission(RoleOf[u], "approval", "create")
    BY <1>3, <1>6, <2>2 DEF RequestApproval
  <2>3. QED BY <2>1, <2>2
<1>7. ASSUME NEW r \in Slots, NEW u \in Users, NEW b \in Approvals, NEW decision \in Decisions,
             ReviewSelect(r, u, b, decision)
      PROVE  DecisionInv'
  <2>1. audit' = audit /\ approvals' = approvals
    BY <1>7 DEF ReviewSelect, tables
  <2>2. CASE Reviewable(b) /\ Select(r, "review", u, b, decision, TRUE)
    <3> DEFINE q == [pc |-> "selected", row |-> [op |-> "review", id |-> b], user |-> u,
                     value |-> decision, found |-> TRUE]
    <3>1. OnlyMoves(r) /\ req'[r] = q
      BY <2>2, Sent DEF Select
    <3>2. q.pc = "selected" /\ q.row = [op |-> "review", id |-> b]
      OBVIOUS
    <3> HIDE DEF q
    <3>3. ASSUME NEW a \in Approvals
          PROVE  /\ r \notin Flying("committed", "review", a)'
                 /\ r \in Flying("selected", "review", a)' => a = b
      BY <3>1, <3>2 DEF Flying
    <3>4. b \in DOMAIN approvals /\ Undecided(b)
      BY <2>2 DEF Reviewable, Undecided
    <3>5. QED BY <1>2, <2>1, <3>1, <3>3, <3>4, NoDecision
  <2>3. CASE Refuse(r, "review")
    BY <1>3, <2>1, <2>3
  <2>4. QED BY <1>7, <2>2, <2>3 DEF ReviewSelect
<1>8. ASSUME NEW r \in Slots, NEW u \in Users, NEW t \in Tasks, CreateTask(r, u, t) PROVE DecisionInv'
  <2>1. audit' = audit /\ approvals' = approvals
    BY <1>8 DEF CreateTask
  <2>2. Commit(r, "create_task", t) \/ Refuse(r, "create_task")
    BY <1>8 DEF CreateTask
  <2>3. QED BY <1>2, <1>3, <1>4, <2>1, <2>2
<1>9. ASSUME NEW r \in Slots, NEW u \in Users, NEW t \in Tasks, NEW status, UpdateTask(r, u, t, status)
      PROVE  DecisionInv'
  <2>1. audit' = audit /\ approvals' = approvals
    BY <1>9 DEF UpdateTask
  <2>2. Commit(r, "update_task", t) \/ Refuse(r, "update_task")
    BY <1>9 DEF UpdateTask
  <2>3. QED BY <1>2, <1>3, <1>4, <2>1, <2>2
<1>10. ASSUME NEW r \in Slots, NEW u \in Users, NEW agent \in Users, NEW status, PresenceSelect(r, u, agent, status)
       PROVE  DecisionInv'
  <2>1. audit' = audit /\ approvals' = approvals
    BY <1>10 DEF PresenceSelect, tables
  <2>2. CASE Select(r, "set_presence", u, agent, status, agent \in DOMAIN presence)
    <3> DEFINE q == [pc |-> "selected", row |-> [op |-> "set_presence", id |-> agent], user |-> u,
                     value |-> status, found |-> agent \in DOMAIN presence]
    <3>1. req' = [req EXCEPT ![r] = q] /\ q.pc = "selected" /\ q.row.op # "review"
      BY <2>2 DEF Select
    <3> HIDE DEF q
    <3>2. QED BY <1>2, <2>1, <3>1, NoDecisionLeft
  <2>3. CASE Refuse(r, "set_presence")
    BY <1>3, <2>1, <2>3
  <2>4. QED BY <1>10, <2>2, <2>3 DEF PresenceSelect
<1>11. ASSUME NEW r \in Slots, PresenceWrite(r) PROVE DecisionInv'
  <2>1. audit' = audit /\ approvals' = approvals
    BY <1>11 DEF PresenceWrite
  <2>2. Raise(r, "set_presence", "duplicate") \/ \E id : Commit(r, "set_presence", id)
    BY <1>11 DEF PresenceWrite
  <2>3. QED BY <1>2, <1>4, <1>5, <2>1, <2>2
<1>12. ASSUME NEW r \in Slots, LogRequest(r) PROVE DecisionInv'
  <2>1. audit' = audit /\ approvals' = approvals /\ req' = [req EXCEPT ![r] = Idle] /\ Idle.pc = "idle"
    BY <1>12 DEF LogRequest, tables, Idle
  <2>2. QED BY <1>2, <2>1, NoDecisionLeft
<1>13. ASSUME NEW r \in Slots, Busy(r) \/ Die(r) PROVE DecisionInv'
  <2>1. audit' = audit /\ approvals' = approvals
    BY <1>13 DEF Busy, Die, tables
  <2>2. \E op, status : Raise(r, op, status)
    BY <1>13 DEF Busy, Die
  <2>3. QED BY <1>5, <2>1, <2>2
<1>14. QED BY <1>1, <1>6, <1>7, <1>8, <1>9, <1>10, <1>11, <1>12, <1>13, WrittenDecision, AuditedDecision
       DEF Next, Receive

(* ------------------------------ presence ------------------------------ *)

\* Who will collide after a step of one request: nobody new unless a row was added, and then
\* the others at most
LEMMA DoomedMoves ==
  ASSUME NEW r \in Slots, OnlyMoves(r)
  PROVE  /\ IsFiniteSet(Doomed) /\ Cardinality(Doomed) \in Nat /\ Cardinality(Doomed') \in Nat
         /\ r \notin Doomed' => Cardinality(Doomed') <= Cardinality(Doomed) + (Cardinality(Slots) - 1)
         /\ presence' = presence /\ r \notin Doomed' => Cardinality(Doomed') <= Cardinality(Doomed)
         /\ presence' = presence /\ r \in Doomed /\ r \notin Doomed' =>
              Cardinality(Doomed) = Cardinality(Doomed') + 1
<1> DEFINE A == Doomed
           B == Doomed'
           Others == Slots \ {r}
<1>1. A \in SUBSET Slots /\ B \in SUBSET Slots
  BY DEF Doomed
<1>2. presence' = presence => \A o \in Slots : o # r => (o \in A <=> o \in B)
  <2> SUFFICES ASSUME presence' = presence, NEW o \in Slots, o # r PROVE o \in A <=> o \in B
    OBVIOUS
  <2>1. req'[o] = req[o]
    BY DEF OnlyMoves
  <2>2. Collides(req[o])' <=> Collides(req[o])
    BY <2>1, Zenon DEF Collides
  <2>3. QED BY <2>1, <2>2 DEF Doomed
<1>3. IsFiniteSet(Slots) /\ IsFiniteSet(Others) /\ Cardinality(Others) = Cardinality(Slots) - 1
  BY SlotsAssumption, FS_RemoveElement
<1> HIDE DEF A, B
<1>4. IsFiniteSet(A) /\ IsFiniteSet(B) /\ Cardinality(A) \in Nat /\ Cardinality(B) \in Nat
  BY <1>1, <1>3, FS_Subset, FS_CardinalityType
<1>5. r \notin B => Cardinality(B) <= Cardinality(A) + (Cardinality(Slots) - 1)
  <2>1. r \notin B => B \subseteq Others
    BY <1>1
  <2>2. Cardinality(Slots) - 1 \in Nat
    BY <1>3, FS_CardinalityType
  <2> HIDE DEF Others
  <2>3. r \notin B => Cardinality(B) <= Cardinality(Others)
    BY <1>3, <2>1, FS_Subset
  <2>4. QED BY <1>3, <1>4, <2>2, <2>3
<1>6. presence' = presence =>
        /\ (r \in A <=> r \in B) => A = B
        /\ r \in A /\ r \notin B => Cardinality(A) = Cardinality(B) + 1
  <2> SUFFICES ASSUME presence' = presence
               PROVE  /\ (r \in A <=> r \in B) => A = B
                      /\ r \in A /\ r \notin B => Cardinality(A) = Cardinality(B) + 1
    OBVIOUS
  <2>1. \A o \in Slots : o # r => (o \in A <=> o \in B)
    BY <1>2
  <2>2. /\ Cardinality(A) \in Nat /\ Cardinality(B) \in Nat
        /\ (r \in A <=> r \in B) => A = B
        /\ r \in A /\ r \notin B => Cardinality(A) = Cardinality(B) + 1
    BY <1>1, <2>1, OneApart, SlotsAssumption
  <2>3. QED BY <2>2
<1>7. presence' = presence /\ r \notin B => Cardinality(B) <= Cardinality(A)
  BY <1>4, <1>6
<1>8. QED BY <1>4, <1>5, <1>6, <1>7 DEF A, B

\* The collisions that clients were told of, when one more is answered
LEMMA DuplicatesGrow ==
  ASSUME TypeOK, TypeOK', NEW told \in Told, answers' = Append(answers, told)
  PROVE  /\ Cardinality(Duplicates) \in Nat
         /\ told.status # "duplicate" => Duplicates' = Duplicates
         /\ told.status = "duplicate" => Cardinality(Duplicates') = Cardinality(Duplicates) + 1
<1> DEFINE T == {t \in Told : t.status = "duplicate"}
<1>1. Duplicates = Rows(answers, T)
  BY RowsAre
<1>2. Duplicates' = Rows(answers', T)
  BY DEF TypeOK, Duplicates, Rows
<1>3. answers \in Seq(Told)
  BY DEF TypeOK
<1>4. told \in T <=> told.status = "duplicate"
  OBVIOUS
<1> HIDE DEF T
<1>5. /\ told \notin T => Rows(Append(answers, told), T) = Rows(answers, T)
      /\ told \in T => Cardinality(Rows(Append(answers, told), T)) = Cardinality(Rows(answers, T)) + 1
      /\ Cardinality(Rows(answers, T)) \in Nat
  BY <1>3, RowsGrow, RowsType
<1>6. QED BY <1>1, <1>2, <1>4, <1>5

\* The bound, when neither the presences nor the collisions told change
LEMMA NoCollision ==
  ASSUME TypeOK, PresenceInv, NEW r \in Slots, OnlyMoves(r), r \notin Doomed',
         presence' = presence, Duplicates' = Duplicates
  PROVE  PresenceInv'
<1> DEFINE dup == Cardinality(Duplicates)
           bound == (Cardinality(Slots) - 1) * Cardinality(Newcomers)
<1>1. Newcomers' = Newcomers
  BY DEF Newcomers
<1>2. Present \subseteq DOMAIN presence' /\ IsFiniteSet(Newcomers')
  BY <1>1 DEF PresenceInv
<1>3. dup \in Nat
  <2>1. answers \in Seq(Told) /\ Duplicates = Rows(answers, {t \in Told : t.status = "duplicate"})
    BY RowsAre DEF TypeOK
  <2>2. QED BY <2>1, RowsType
<1>4. Cardinality(Doomed') <= Cardinality(Doomed) /\ Cardinality(Doomed) \in Nat /\ Cardinality(Doomed') \in Nat
  BY DoomedMoves
<1>5. dup + Cardinality(Doomed) <= bound
  BY DEF PresenceInv
<1>6. bound \in Int
  <2>1. Cardinality(Slots) \in Nat /\ Cardinality(Newcomers) \in Nat
    BY SlotsAssumption, FS_CardinalityType DEF PresenceInv
  <2>2. QED BY <2>1
<1>7. (Cardinality(Slots) - 1) * Cardinality(Newcomers') = bound /\ Cardinality(Duplicates') = dup
  BY <1>1
<1> HIDE DEF dup, bound
<1>8. dup + Cardinality(Doomed') <= bound
  BY <1>3, <1>4, <1>5, <1>6
<1>9. QED BY <1>2, <1>7, <1>8 DEF PresenceInv

\* A request that does not answer a collision leaves their number as it is
LEMMA OtherAnswers ==
  ASSUME TypeOK, TypeOK', NEW told, answers' = answers \/ answers' = Append(answers, told),
         told \in Told /\ told.status # "duplicate"
  PROVE  Duplicates' = Duplicates
<1>1. CASE answers' = answers
  BY <1>1 DEF Duplicates
<1>2. CASE answers' = Append(answers, told)
  BY <1>2, DuplicatesGrow
<1>3. QED BY <1>1, <1>2

\* A request that leaves the presences alone, and does not wait to add one that is there
LEMMA NoCollisionLeft ==
  ASSUME TypeOK, TypeOK', PresenceInv, NEW r \in Slots, NEW q, req' = [req EXCEPT ![r] = q],
         presence' = presence, NEW told, answers' = answers \/ answers' = Append(answers, told),
         told \in Told /\ told.status # "duplicate",
         q.pc # "selected" \/ q.row.op # "set_presence" \/ ~Collides(q)
  PROVE  PresenceInv'
<1>1. OnlyMoves(r) /\ req'[r] = q
  BY Sent
<1>2. r \notin Doomed'
  <2>1. Collides(req[r])' <=> Collides(q)
    BY <1>1, Zenon DEF Collides
  <2>2. QED BY <1>1, <2>1 DEF Doomed
<1>3. Duplicates' = Duplicates
  BY OtherAnswers
<1>4. QED BY <1>1, <1>2, <1>3, NoCollision

\* A collision was counted when the row it collides with was added
LEMMA CollisionTold ==
  ASSUME TypeOK, TypeOK', PresenceInv, NEW r \in Slots, PresenceWrite(r), Collides(req[r])
  PROVE  PresenceInv'
<1> DEFINE told == [op |-> "set_presence", status |-> "duplicate"]
<1>1. answers' = Append(answers, told) /\ req' = [req EXCEPT ![r] = Idle] /\ presence' = presence
  BY DEF PresenceWrite, Raise
<1>2. told \in Told /\ told.status = "duplicate"
  BY DEF Told, Ops
<1> HIDE DEF told
<1>3. OnlyMoves(r) /\ req'[r] = Idle
  BY <1>1, Sent
<1>4. r \in Doomed /\ r \notin Doomed'
  <2>1. r \in Doomed
    BY DEF PresenceWrite, Doomed
  <2>2. r \notin Doomed'
    BY <1>3 DEF Doomed, Idle
  <2>3. QED BY <2>1, <2>2
<1>5. Cardinality(Doomed) = Cardinality(Doomed') + 1 /\ Cardinality(Doomed') \in Nat
  BY <1>1, <1>3, <1>4, DoomedMoves
<1>6. Cardinality(Duplicates') = Cardinality(Duplicates) + 1 /\ Cardinality(Duplicates) \in Nat
  BY <1>1, <1>2, DuplicatesGrow
<1>7. Newcomers' = Newcomers
  BY <1>1 DEF Newcomers
<1> DEFINE bound == (Cardinality(Slots) - 1) * Cardinality(Newcomers)
<1>8. (Cardinality(Slots) - 1) * Cardinality(Newcomers') = bound
  BY <1>7
<1>9. Cardinality(Duplicates) + Cardinality(Doomed) <= bound /\ Present \subseteq DOMAIN presence /\ IsFiniteSet(Newcomers)
  BY DEF PresenceInv
<1>10. bound \in Int
  BY <1>9, SlotsAssumption, FS_CardinalityType
<1> HIDE DEF bound
<1>11. Cardinality(Duplicates') + Cardinality(Doomed') <= bound
  BY <1>5, <1>6, <1>9, <1>10
<1>12. QED BY <1>1, <1>7, <1>8, <1>9, <1>11 DEF PresenceInv

\* With a newcomer's row the other requests may collide, once each
LEMMA NewcomerAdded ==
  ASSUME TypeOK, TypeOK', PresenceInv, NEW r \in Slots, PresenceWrite(r), ~Collides(req[r])
  PROVE  PresenceInv'
<1>1. PICK u \in Users : u = req[r].row.id
  BY StageIs DEF PresenceWrite
<1>2. presence' = Insert(presence, u, req[r].value) /\ Commit(r, "set_presence", u) /\ answers' = answers
  BY <1>1 DEF PresenceWrite
<1> DEFINE q == [pc |-> "committed", row |-> [op |-> "set_presence", id |-> u]]
<1>3. req' = [req EXCEPT ![r] = q] /\ q.pc = "committed"
  BY <1>2 DEF Commit
<1> HIDE DEF q
<1>4. OnlyMoves(r) /\ req'[r].pc = "committed"
  BY <1>3, Sent
<1>5. r \notin Doomed'
  BY <1>4 DEF Doomed
<1>6. Duplicates' = Duplicates
  BY <1>2 DEF Duplicates
<1>7. DOMAIN presence' = DOMAIN presence \cup {u}
  BY <1>2 DEF Insert
<1>8. CASE u \in DOMAIN presence
  <2>1. DOMAIN presence' = DOMAIN presence
    BY <1>7, <1>8
  <2>2. Newcomers' = Newcomers /\ Present \subseteq DOMAIN presence'
    BY <2>1 DEF Newcomers, PresenceInv
  <2>3. Doomed' \subseteq Doomed
    <3>1. ASSUME NEW o \in Slots, o \in Doomed' PROVE o \in Doomed
      <4>1. o # r /\ req'[o] = req[o]
        BY <1>4, <1>5, <3>1 DEF OnlyMoves
      <4>2. Collides(req[o])' <=> Collides(req[o])
        BY <2>1, <4>1, Zenon DEF Collides
      <4>3. QED BY <3>1, <4>1, <4>2 DEF Doomed
    <3>2. QED BY <3>1 DEF Doomed
  <2>4. Cardinality(Doomed') <= Cardinality(Doomed) /\ Cardinality(Doomed) \in Nat /\ Cardinality(Doomed') \in Nat
    BY <1>4, <2>3, DoomedMoves, FS_Subset
  <2>5. Cardinality(Duplicates) \in Nat
    <3>1. answers \in Seq(Told) /\ Duplicates = Rows(answers, {t \in Told : t.status = "duplicate"})
      BY RowsAre DEF TypeOK
    <3>2. QED BY <3>1, RowsType
  <2> DEFINE bound == (Cardinality(Slots) - 1) * Cardinality(Newcomers)
  <2>6. Cardinality(Duplicates) + Cardinality(Doomed) <= bound /\ IsFiniteSet(Newcomers)
    BY DEF PresenceInv
  <2>7. bound \in Int
    BY <2>6, SlotsAssumption, FS_CardinalityType
  <2>8. (Cardinality(Slots) - 1) * Cardinality(Newcomers') = bound
    BY <2>2
  <2> HIDE DEF bound
  <2>9. Cardinality(Duplicates') + Cardinality(Doomed') <= bound
    BY <1>6, <2>4, <2>5, <2>6, <2>7
  <2>10. QED BY <2>2, <2>6, <2>8, <2>9 DEF PresenceInv
<1>9. CASE u \notin DOMAIN presence
  <2>1. u \notin Present /\ Present \subseteq DOMAIN presence' /\ u \notin Newcomers
    BY <1>7, <1>9 DEF PresenceInv, Newcomers
  <2>2. Newcomers' = Newcomers \cup {u}
    BY <1>7, <2>1 DEF Newcomers
  <2>3. IsFiniteSet(Newcomers) /\ Cardinality(Newcomers) \in Nat
    BY FS_CardinalityType DEF PresenceInv
  <2>4. IsFiniteSet(Newcomers') /\ Cardinality(Newcomers') = Cardinality(Newcomers) + 1
    BY <2>1, <2>2, <2>3, FS_AddElement
  <2>5. /\ Cardinality(Doomed') <= Cardinality(Doomed) + (Cardinality(Slots) - 1)
        /\ Cardinality(Doomed) \in Nat /\ Cardinality(Doomed') \in Nat
    BY <1>4, <1>5, DoomedMoves
  <2>6. Cardinality(Duplicates) \in Nat
    <3>1. answers \in Seq(Told) /\ Duplicates = Rows(answers, {t \in Told : t.status = "duplicate"})
      BY RowsAre DEF TypeOK
    <3>2. QED BY <3>1, RowsType
  <2> DEFINE others == Cardinality(Slots) - 1
             bound == others * Cardinality(Newcomers)
  <2>7. others \in Int
    BY SlotsAssumption, FS_CardinalityType
  <2>8. Cardinality(Duplicates) + Cardinality(Doomed) <= bound
    BY DEF PresenceInv
  <2> HIDE DEF others
  <2>9. others * Cardinality(Newcomers') = bound + others /\ bound \in Int
    <3>1. \A s \in Int, n \in Nat : s * (n + 1) = s * n + s /\ s * n \in Int
      OBVIOUS
    <3>2. QED BY <2>3, <2>4, <2>7, <3>1
  <2> HIDE DEF bound
  <2>10. Cardinality(Doomed') <= Cardinality(Doomed) + others
    BY <2>5 DEF others
  <2>11. Cardinality(Duplicates') + Cardinality(Doomed') <= others * Cardinality(Newcomers')
    BY <1>6, <2>5, <2>6, <2>7, <2>8, <2>9, <2>10
  <2>12. QED BY <2>1, <2>4, <2>11 DEF PresenceInv, others
<1>10. QED BY <1>8, <1>9

\* Every step keeps the bound on the collisions
LEMMA PresenceStep == TypeOK /\ TypeOK' /\ PresenceInv /\ [Next]_vars => PresenceInv'
<1> SUFFICES ASSUME TypeOK, TypeOK', PresenceInv, [Next]_vars PROVE PresenceInv'
  OBVIOUS
<1>1. CASE UNCHANGED vars
  BY <1>1, Zenon DEF vars, tables, PresenceInv, Newcomers, Duplicates, Doomed, Collides
<1>2. PICK some \in Told : some.status = "refused"
  <2>1. [op |-> "review", status |-> "refused"] \in Told
    BY DEF Told, Ops
  <2>2. QED BY <2>1
<1>3. ASSUME NEW r \in Slots, NEW op, Refuse(r, op), presence' = presence, answers' = answers
      PROVE  PresenceInv'
  <2> DEFINE q == [pc |-> "answered", told |-> [op |-> op, status |-> "refused"]]
  <2>1. req' = [req EXCEPT ![r] = q] /\ q.pc # "selected"
    BY <1>3 DEF Refuse
  <2> HIDE DEF q
  <2>2. QED BY <1>2, <1>3, <2>1, NoCollisionLeft
<1>4. ASSUME NEW r \in Slots, NEW op, NEW id, Commit(r, op, id), presence' = presence, answers' = answers
      PROVE  PresenceInv'
  <2> DEFINE q == [pc |-> "committed", row |-> [op |-> op, id |-> id]]
  <2>1. req' = [req EXCEPT ![r] = q] /\ q.pc # "selected"
    BY <1>4 DEF Commit
  <2> HIDE DEF q
  <2>2. QED BY <1>2, <1>4, <2>1, NoCollisionLeft
<1>5. ASSUME NEW r \in Slots, NEW op \in Ops, NEW status \in {"ok", "refused", "busy", "none"},
             Raise(r, op, status), presence' = presence
      PROVE  PresenceInv'
  <2> DEFINE told == [op |-> op, status |-> status]
  <2>1. req' = [req EXCEPT ![r] = Idle] /\ Idle.pc # "selected" /\ answers' = Append(answers, told)
    BY <1>5 DEF Raise, Idle
  <2>2. told \in Told /\ told.status # "duplicate"
    BY DEF Told
  <2> HIDE DEF told
  <2>3. QED BY <1>5, <2>1, <2>2, NoCollisionLeft
<1>6. ASSUME NEW r \in Slots, NEW u \in Users, NEW a \in Approvals, RequestApproval(r, u, a)
      PROVE  PresenceInv'
  <2>1. presence' = presence /\ answers' = answers
    BY <1>6 DEF RequestApproval
  <2>2. Commit(r, "request_approval", a) \/ Refuse(r, "request_approval")
    BY <1>6 DEF RequestApproval
  <2>3. QED BY <1>3, <1>4, <2>1, <2>2
<1>7. ASSUME NEW r \in Slots, NEW u \in Users, NEW a \in Approvals, NEW decision, ReviewSelect(r, u, a, decision)
      PROVE  PresenceInv'
  <2>1. presence' = presence /\ answers' = answers
    BY <1>7 DEF ReviewSelect, tables
  <2>2. CASE Select(r, "review", u, a, decision, TRUE)
    <3> DEFINE q == [pc |-> "selected", row |-> [op |-> "review", id |-> a], user |-> u,
                     value |-> decision, found |-> TRUE]
    <3>1. req' = [req EXCEPT ![r] = q] /\ q.row.op # "set_presence"
      BY <2>2 DEF Select
    <3> HIDE DEF q
    <3>2. QED BY <1>2, <2>1, <3>1, NoCollisionLeft
  <2>3. CASE Refuse(r, "review")
    BY <1>3, <2>1, <2>3
  <2>4. QED BY <1>7, <2>2, <2>3 DEF ReviewSelect
<1>8. ASSUME NEW r \in Slots, ReviewWrite(r) PROVE PresenceInv'
  <2>1. presence' = presence /\ answers' = answers /\ \E id : Commit(r, "review", id)
    BY <1>8 DEF ReviewWrite
  <2>2. QED BY <1>4, <2>1
<1>9. ASSUME NEW r \in Slots, NEW u \in Users, NEW t \in Tasks, CreateTask(r, u, t) PROVE PresenceInv'
  <2>1. presence' = presence /\ answers' = answers
    BY <1>9 DEF CreateTask
  <2>2. Commit(r, "create_task", t) \/ Refuse(r, "create_task")
    BY <1>9 DEF CreateTask
  <2>3. QED BY <1>3, <1>4, <2>1, <2>2
<1>10. ASSUME NEW r \in Slots, NEW u \in Users, NEW t \in Tasks, NEW status, UpdateTask(r, u, t, status)
       PROVE  PresenceInv'
  <2>1. presence' = presence /\ answers' = answers
    BY <1>10 DEF UpdateTask
  <2>2. Commit(r, "update_task", t) \/ Refuse(r, "update_task")
    BY <1>10 DEF UpdateTask
  <2>3. QED BY <1>3, <1>4, <2>1, <2>2
<1>11. ASSUME NEW r \in Slots, NEW u \in Users, NEW agent \in Users, NEW status, PresenceSelect(r, u, agent, status)
       PROVE  PresenceInv'
  <2>1. presence' = presence /\ answers' = answers
    BY <1>11 DEF PresenceSelect, tables
  <2>2. CASE Select(r, "set_presence", u, agent, status, agent \in DOMAIN presence)
    <3> DEFINE q == [pc |-> "selected", row |-> [op |-> "set_presence", id |-> agent], user |-> u,
                     value |-> status, found |-> agent \in DOMAIN presence]
    <3>1. req' = [req EXCEPT ![r] = q]
      BY <2>2 DEF Select
    <3>2. q.row.id = agent /\ q.found = (agent \in DOMAIN presence)
      OBVIOUS
    <3> HIDE DEF q
    <3>3. ~Collides(q)
      BY <3>2 DEF Collides
    <3>4. QED BY <1>2, <2>1, <3>1, <3>3, NoCollisionLeft
  <2>3. CASE Refuse(r, "set_presence")
    BY <1>3, <2>1, <2>3
  <2>4. QED BY <1>11, <2>2, <2>3 DEF PresenceSelect
<1>12. ASSUME NEW r \in Slots, PresenceWrite(r) PROVE PresenceInv'
  BY <1>12, CollisionTold, NewcomerAdded
<1>13. ASSUME NEW r \in Slots, Audit(r) PROVE PresenceInv'
  <2> DEFINE q == [pc |-> "answered", told |-> [op |-> req[r].row.op, status |-> "ok"]]
  <2>1. presence' = presence /\ answers' = answers /\ req' = [req EXCEPT ![r] = q] /\ q.pc # "selected"
    BY <1>13 DEF Audit, tables
  <2> HIDE DEF q
  <2>2. QED BY <1>2, <2>1, NoCollisionLeft
<1>14. ASSUME NEW r \in Slots, LogRequest(r) PROVE PresenceInv'
  <2>1. /\ presence' = presence /\ answers' = Append(answers, req[r].told)
        /\ req' = [req EXCEPT ![r] = Idle] /\ Idle.pc # "selected"
    BY <1>14 DEF LogRequest, tables, Idle
  <2>2. req[r].told \in Told /\ req[r].told.status # "duplicate"
    BY <1>14, StageIs DEF LogRequest
  <2>3. QED BY <2>1, <2>2, NoCollisionLeft
<1>15. ASSUME NEW r \in Slots, Busy(r) \/ Die(r) PROVE PresenceInv'
  <2>1. presence' = presence
    BY <1>15 DEF Busy, Die, tables
  <2>2. PICK op \in Ops, status \in {"ok", "refused", "busy", "none"} : Raise(r, op, status)
    <3>1. CASE req[r].pc \in {"selected", "committed"}
      <4>1. req[r].row.op \in Ops
        BY <3>1, StageIs DEF Ops
      <4>2. QED BY <1>15, <3>1, <4>1 DEF Busy, Die
    <3>2. CASE req[r].pc = "answered"
      <4>1. req[r].told.op \in Ops /\ req[r].told.status \in {"ok", "refused"}
        BY <3>2, StageIs
      <4>2. QED BY <1>15, <3>2, <4>1 DEF Busy, Die
    <3>3. req[r] = Idle \/ req[r].pc \in {"selected", "committed", "answered"}
      BY StageIs
    <3>4. req[r].pc \in {"selected", "committed", "answered"}
      BY <1>15, <3>3 DEF Busy, Die, Idle
    <3>5. QED BY <3>1, <3>2, <3>4
  <2>3. QED BY <1>5, <2>1, <2>2
<1>16. QED BY <1>1, <1>6, <1>7, <1>8, <1>9, <1>10, <1>11, <1>12, <1>13, <1>14, <1>15 DEF Next, Receive

(* ----------------------------- audit rows ----------------------------- *)

\* Who is about to be told of a success, when one request makes a step
LEMMA SucceededMoves ==
  ASSUME NEW r \in Slots, OnlyMoves(r), NEW op
  PROVE  /\ Cardinality(Succeeded(op)) \in Nat /\ Cardinality(Succeeded(op)') \in Nat
         /\ r \notin Succeeded(op) /\ r \notin Succeeded(op)' => Succeeded(op)' = Succeeded(op)
         /\ r \in Succeeded(op) /\ r \notin Succeeded(op)' =>
              Cardinality(Succeeded(op)) = Cardinality(Succeeded(op)') + 1
         /\ r \notin Succeeded(op) /\ r \in Succeeded(op)' =>
              Cardinality(Succeeded(op)') = Cardinality(Succeeded(op)) + 1
<1> DEFINE A == Succeeded(op)
           B == Succeeded(op)'
<1>1. A \in SUBSET Slots /\ B \in SUBSET Slots
  BY DEF Succeeded
<1>2. \A o \in Slots : o # r => (o \in A <=> o \in B)
  BY DEF Succeeded, OnlyMoves
<1> HIDE DEF A, B
<1>3. /\ Cardinality(A) \in Nat /\ Cardinality(B) \in Nat
      /\ (r \in A <=> r \in B) => A = B
      /\ r \in A /\ r \notin B => Cardinality(A) = Cardinality(B) + 1
      /\ r \notin A /\ r \in B => Cardinality(B) = Cardinality(A) + 1
  BY <1>1, <1>2, OneApart, SlotsAssumption
<1>4. QED BY <1>3 DEF A, B

\* There are numbers of rows to compare
LEMMA LogTypes ==
  ASSUME TypeOK, NEW op
  PROVE  Cardinality(OkRows(op)) \in Nat /\ Cardinality(AuditRows(op)) \in Nat
<1>1. /\ audit \in Seq(AuditRow) /\ log \in Seq(Told)
      /\ AuditRows(op) = Rows(audit, {row \in AuditRow : row.op = op})
      /\ OkRows(op) = Rows(log, {[op |-> op, status |-> "ok"]})
  BY RowsAre DEF TypeOK
<1>2. QED BY <1>1, RowsType

\* A request that writes to neither log, and is not about to be told of a success
LEMMA NoSuccess ==
  ASSUME TypeOK, AuditedInv, NEW r \in Slots, NEW q, req' = [req EXCEPT ![r] = q],
         audit' = audit, log' = log, q.pc # "answered" \/ q.told.status # "ok"
  PROVE  AuditedInv'
<1> SUFFICES ASSUME NEW op \in Ops
             PROVE  Cardinality(OkRows(op)') + Cardinality(Succeeded(op)') <= Cardinality(AuditRows(op)')
  BY DEF AuditedInv
<1>1. OnlyMoves(r) /\ req'[r] = q
  BY Sent
<1>2. r \notin Succeeded(op)'
  BY <1>1 DEF Succeeded
<1>3. /\ Cardinality(Succeeded(op)) \in Nat /\ Cardinality(Succeeded(op)') \in Nat
      /\ Cardinality(Succeeded(op)') <= Cardinality(Succeeded(op))
  <2>1. Succeeded(op)' = Succeeded(op) \/ Cardinality(Succeeded(op)) = Cardinality(Succeeded(op)') + 1
    BY <1>1, <1>2, SucceededMoves
  <2>2. Cardinality(Succeeded(op)) \in Nat /\ Cardinality(Succeeded(op)') \in Nat
    BY <1>1, SucceededMoves
  <2>3. QED BY <2>1, <2>2
<1>4. OkRows(op)' = OkRows(op) /\ AuditRows(op)' = AuditRows(op)
  BY DEF OkRows, AuditRows
<1>5. QED BY <1>3, <1>4, LogTypes DEF AuditedInv

\* The audit row comes before the answer
LEMMA AuditFirst == ASSUME TypeOK, TypeOK', AuditedInv, NEW r \in Slots, Audit(r) PROVE AuditedInv'
<1>1. PICK row \in AuditRow : row = req[r].row
  BY StageIs DEF Audit
<1>2. req[r].pc = "committed" /\ audit' = Append(audit, row) /\ log' = log
  BY <1>1 DEF Audit
<1> DEFINE q == [pc |-> "answered", told |-> [op |-> row.op, status |-> "ok"]]
<1>3. req' = [req EXCEPT ![r] = q] /\ q.told = [op |-> row.op, status |-> "ok"]
  BY <1>1 DEF Audit
<1> HIDE DEF q
<1>4. OnlyMoves(r) /\ req'[r] = q
  BY <1>3, Sent
<1> SUFFICES ASSUME NEW op \in Ops
             PROVE  Cardinality(OkRows(op)') + Cardinality(Succeeded(op)') <= Cardinality(AuditRows(op)')
  BY DEF AuditedInv
<1>5. OkRows(op)' = OkRows(op)
  BY <1>2 DEF OkRows
<1> DEFINE T == {x \in AuditRow : x.op = op}
<1>6. AuditRows(op) = Rows(audit, T) /\ AuditRows(op)' = Rows(audit', T) /\ audit \in Seq(AuditRow)
  <2>1. AuditRows(op) = Rows(audit, T) /\ audit \in Seq(AuditRow)
    BY RowsAre DEF TypeOK
  <2>2. AuditRows(op)' = Rows(audit', T)
    BY DEF TypeOK, AuditRows, Rows
  <2>3. QED BY <2>1, <2>2
<1>7. row \in T <=> row.op = op
  OBVIOUS
<1> HIDE DEF T
<1>8. r \notin Succeeded(op)
  BY <1>2 DEF Succeeded
<1>9. Cardinality(Succeeded(op)) \in Nat /\ Cardinality(Succeeded(op)') \in Nat
  BY <1>4, SucceededMoves
<1>10. CASE row.op = op
  <2>1. Cardinality(AuditRows(op)') = Cardinality(AuditRows(op)) + 1
    BY <1>2, <1>6, <1>7, <1>10, RowsGrow
  <2>2. Succeeded(op)' = Succeeded(op) \/ Cardinality(Succeeded(op)') = Cardinality(Succeeded(op)) + 1
    BY <1>4, <1>8, SucceededMoves
  <2>3. QED BY <1>5, <1>9, <2>1, <2>2, LogTypes DEF AuditedInv
<1>11. CASE row.op # op
  <2>1. AuditRows(op)' = AuditRows(op)
    BY <1>2, <1>6, <1>7, <1>11, RowsGrow
  <2>2. r \notin Succeeded(op)'
    BY <1>3, <1>4, <1>11 DEF Succeeded
  <2>3. Succeeded(op)' = Succeeded(op)
    BY <1>4, <1>8, <2>2, SucceededMoves
  <2>4. QED BY <1>5, <2>1, <2>3 DEF AuditedInv
<1>12. QED BY <1>10, <1>11

\* The row of the request log takes the place of the request
LEMMA LoggedLast == ASSUME TypeOK, TypeOK', AuditedInv, NEW r \in Slots, LogRequest(r) PROVE AuditedInv'
<1>1. PICK told \in Told : told = req[r].told
  BY StageIs DEF LogRequest
<1>2. req[r].pc = "answered" /\ log' = Append(log, told) /\ audit' = audit
  BY <1>1 DEF LogRequest
<1>3. OnlyMoves(r) /\ req'[r] = Idle
  BY Sent DEF LogRequest
<1> SUFFICES ASSUME NEW op \in Ops
             PROVE  Cardinality(OkRows(op)') + Cardinality(Succeeded(op)') <= Cardinality(AuditRows(op)')
  BY DEF AuditedInv
<1>4. AuditRows(op)' = AuditRows(op)
  BY <1>2 DEF AuditRows
<1> DEFINE T == {[op |-> op, status |-> "ok"]}
<1>5. OkRows(op) = Rows(log, T) /\ OkRows(op)' = Rows(log', T) /\ log \in Seq(Told)
  <2>1. OkRows(op) = Rows(log, T) /\ log \in Seq(Told)
    BY RowsAre DEF TypeOK
  <2>2. OkRows(op)' = Rows(log', T)
    BY DEF OkRows, Rows
  <2>3. QED BY <2>1, <2>2
<1>6. told \in T <=> told = [op |-> op, status |-> "ok"]
  OBVIOUS
<1> HIDE DEF T
<1>7. r \notin Succeeded(op)'
  BY <1>3 DEF Succeeded, Idle
<1>8. r \in Succeeded(op) <=> told = [op |-> op, status |-> "ok"]
  BY <1>1, <1>2 DEF Succeeded
<1>9. Cardinality(Succeeded(op)) \in Nat /\ Cardinality(Succeeded(op)') \in Nat
  BY <1>3, SucceededMoves
<1>10. CASE told = [op |-> op, status |-> "ok"]
  <2>1. Cardinality(OkRows(op)') = Cardinality(OkRows(op)) + 1
    BY <1>2, <1>5, <1>6, <1>10, RowsGrow
  <2>2. Cardinality(Succeeded(op)) = Cardinality(Succeeded(op)') + 1
    BY <1>3, <1>7, <1>8, <1>10, SucceededMoves
  <2>3. QED BY <1>4, <1>9, <2>1, <2>2, LogTypes DEF AuditedInv
<1>11. CASE told # [op |-> op, status |-> "ok"]
  <2>1. OkRows(op)' = OkRows(op)
    BY <1>2, <1>5, <1>6, <1>11, RowsGrow
  <2>2. Succeeded(op)' = Succeeded(op)
    BY <1>3, <1>7, <1>8, <1>11, SucceededMoves
  <2>3. QED BY <1>4, <2>1, <2>2 DEF AuditedInv
<1>12. QED BY <1>10, <1>11

\* Every step keeps the request log behind the audit rows
LEMMA AuditedStep == TypeOK /\ TypeOK' /\ AuditedInv /\ [Next]_vars => AuditedInv'
<1> SUFFICES ASSUME TypeOK, TypeOK', AuditedInv, [Next]_vars PROVE AuditedInv'
  OBVIOUS
<1>1. CASE UNCHANGED vars
  BY <1>1, Zenon DEF vars, tables, AuditedInv, OkRows, AuditRows, Succeeded
<1>2. ASSUME NEW r \in Slots, NEW op, Refuse(r, op), audit' = audit, log' = log PROVE AuditedInv'
  <2> DEFINE q == [pc |-> "answered", told |-> [op |-> op, status |-> "refused"]]
  <2>1. req' = [req EXCEPT ![r] = q] /\ q.told.status # "ok"
    BY <1>2 DEF Refuse
  <2> HIDE DEF q
  <2>2. QED BY <1>2, <2>1, NoSuccess
<1>3. ASSUME NEW r \in Slots, NEW op, NEW id, Commit(r, op, id), audit' = audit, log' = log PROVE AuditedInv'
  <2> DEFINE q == [pc |-> "committed", row |-> [op |-> op, id |-> id]]
  <2>1. req' = [req EXCEPT ![r] = q] /\ q.pc # "answered"
    BY <1>3 DEF Commit
  <2> HIDE DEF q
  <2>2. QED BY <1>3, <2>1, NoSuccess
<1>4. ASSUME NEW r \in Slots, NEW op, NEW id, NEW u, NEW value, NEW found, Select(r, op, u, id, value, found),
             audit' = audit, log' = log
      PROVE  AuditedInv'
  <2> DEFINE q == [pc |-> "selected", row |-> [op |-> op, id |-> id], user |-> u, value |-> value, found |-> found]
  <2>1. req' = [req EXCEPT ![r] = q] /\ q.pc # "answered"
    BY <1>4 DEF Select
  <2> HIDE DEF q
  <2>2. QED BY <1>4, <2>1, NoSuccess
<1>5. ASSUME NEW r \in Slots, NEW op, NEW status, Raise(r, op, status), audit' = audit, log' = log
      PROVE  AuditedInv'
  <2>1. req' = [req EXCEPT ![r] = Idle] /\ Idle.pc # "answered"
    BY <1>5 DEF Raise, Idle
  <2>2. QED BY <1>5, <2>1, NoSuccess
<1>6. ASSUME NEW r \in Slots, NEW u \in Users, NEW a \in Approvals, RequestApproval(r, u, a) PROVE AuditedInv'
  <2>1. audit' = audit /\ log' = log
    BY <1>6 DEF RequestApproval
  <2>2. Commit(r, "request_approval", a) \/ Refuse(r, "request_approval")
    BY <1>6 DEF RequestApproval
  <2>3. QED BY <1>2, <1>3, <2>1, <2>2
<1>7. ASSUME NEW r \in Slots, NEW u \in Users, NEW a \in Approvals, NEW decision, ReviewSelect(r, u, a, decision)
      PROVE  AuditedInv'
  <2>1. audit' = audit /\ log' = log
    BY <1>7 DEF ReviewSelect
  <2>2. Select(r, "review", u, a, decision, TRUE) \/ Refuse(r, "review")
    BY <1>7 DEF ReviewSelect
  <2>3. QED BY <1>2, <1>4, <2>1, <2>2
<1>8. ASSUME NEW r \in Slots, ReviewWrite(r) PROVE AuditedInv'
  <2>1. audit' = audit /\ log' = log /\ \E id : Commit(r, "review", id)
    BY <1>8 DEF ReviewWrite
  <2>2. QED BY <1>3, <2>1
<1>9. ASSUME NEW r \in Slots, NEW u \in Users, NEW t \in Tasks, CreateTask(r, u, t) PROVE AuditedInv'
  <2>1. audit' = audit /\ log' = log
    BY <1>9 DEF CreateTask
  <2>2. Commit(r, "create_task", t) \/ Refuse(r, "create_task")
    BY <1>9 DEF CreateTask
  <2>3. QED BY <1>2, <1>3, <2>1, <2>2
<1>10. ASSUME NEW r \in Slots, NEW u \in Users, NEW t \in Tasks, NEW status, UpdateTask(r, u, t, status)
       PROVE  AuditedInv'
  <2>1. audit' = audit /\ log' = log
    BY <1>10 DEF UpdateTask
  <2>2. Commit(r, "update_task", t) \/ Refuse(r, "update_task")
    BY <1>10 DEF UpdateTask
  <2>3. QED BY <1>2, <1>3, <2>1, <2>2
<1>11. ASSUME NEW r \in Slots, NEW u \in Users, NEW agent \in Users, NEW status, PresenceSelect(r, u, agent, status)
       PROVE  AuditedInv'
  <2>1. audit' = audit /\ log' = log
    BY <1>11 DEF PresenceSelect
  <2>2. Select(r, "set_presence", u, agent, status, agent \in DOMAIN presence) \/ Refuse(r, "set_presence")
    BY <1>11 DEF PresenceSelect
  <2>3. QED BY <1>2, <1>4, <2>1, <2>2
<1>12. ASSUME NEW r \in Slots, PresenceWrite(r) PROVE AuditedInv'
  <2>1. audit' = audit /\ log' = log
    BY <1>12 DEF PresenceWrite
  <2>2. Raise(r, "set_presence", "duplicate") \/ \E id : Commit(r, "set_presence", id)
    BY <1>12 DEF PresenceWrite
  <2>3. QED BY <1>3, <1>5, <2>1, <2>2
<1>13. ASSUME NEW r \in Slots, Busy(r) \/ Die(r) PROVE AuditedInv'
  <2>1. audit' = audit /\ log' = log
    BY <1>13 DEF Busy, Die
  <2>2. \E op, status : Raise(r, op, status)
    BY <1>13 DEF Busy, Die
  <2>3. QED BY <1>5, <2>1, <2>2
<1>14. QED BY <1>1, <1>6, <1>7, <1>8, <1>9, <1>10, <1>11, <1>12, <1>13, AuditFirst, LoggedLast DEF Next, Receive

(* ------------------------------ theorems ------------------------------ *)

\* Nothing is in flight at first and the three logs are empty
LEMMA InitInv == Init => DeskInv
<1> SUFFICES ASSUME Init PROVE DeskInv
  OBVIOUS
<1>1. TypeOK
  <2>1. approvals \in [DOMAIN approvals -> Approval] /\ DOMAIN approvals \subseteq Approvals
    BY DEF Init, SeededApproval
  <2>2. tasks \in [DOMAIN tasks -> Task] /\ DOMAIN tasks \subseteq Tasks
    BY DEF Init, SeededTask
  <2>3. presence \in [DOMAIN presence -> PresenceStatuses] /\ DOMAIN presence \subseteq Users
    BY DEF Init, Present
  <2>4. audit \in Seq(AuditRow) /\ log \in Seq(Told) /\ answers \in Seq(Told)
    BY DEF Init
  <2>5. req \in [Slots -> InFlight \cup {Idle}]
    BY DEF Init
  <2>6. QED BY <2>1, <2>2, <2>3, <2>4, <2>5 DEF TypeOK
<1>2. \A r \in Slots : req[r].pc = "idle"
  BY DEF Init, Idle
<1>3. /\ \A a : Recorded(a) = {}
      /\ \A op : OkRows(op) = {} /\ AuditRows(op) = {}
      /\ Duplicates = {}
  BY DEF Init, Recorded, OkRows, AuditRows, Duplicates
<1>4. /\ \A op, id : Flying("selected", op, id) = {} /\ Flying("committed", op, id) = {}
      /\ \A op : Succeeded(op) = {}
      /\ Doomed = {}
  BY <1>2 DEF Flying, Succeeded, Doomed
<1>5. Cardinality({}) = 0
  BY FS_EmptySet
<1>6. Cardinality(Slots) \in Nat
  BY SlotsAssumption, FS_CardinalityType
<1>7. DecisionInv
  <2>1. ASSUME NEW a \in Approvals
        PROVE  Cardinality(Recorded(a)) + Cardinality(Flying("committed", "review", a))
                 + Cardinality(Flying("selected", "review", a)) <= Cardinality(Slots)
    BY <1>3, <1>4, <1>5, <1>6
  <2>2. QED BY <1>3, <1>4, <2>1 DEF DecisionInv
<1>8. PresenceInv
  <2>1. DOMAIN presence = Present
    BY DEF Init
  <2>2. Newcomers = {}
    BY <2>1 DEF Newcomers
  <2>3. (Cardinality(Slots) - 1) * Cardinality(Newcomers) = 0
    BY <1>5, <1>6, <2>2
  <2>4. IsFiniteSet(Newcomers)
    BY <2>2, FS_EmptySet
  <2>5. Cardinality(Duplicates) + Cardinality(Doomed) = 0
    BY <1>3, <1>4, <1>5
  <2>6. Cardinality(Duplicates) + Cardinality(Doomed) <= (Cardinality(Slots) - 1) * Cardinality(Newcomers)
    BY <2>3, <2>5
  <2>7. QED BY <2>1, <2>4, <2>6 DEF PresenceInv
<1>9. AuditedInv
  BY <1>3, <1>4, <1>5 DEF AuditedInv
<1>10. QED BY <1>1, <1>7, <1>8, <1>9 DEF DeskInv

\* The invariant the theorems follow from
LEMMA Invariant == Spec => []DeskInv
<1>1. DeskInv /\ [Next]_vars => DeskInv'
  BY TypeStep, DecisionStep, PresenceStep, AuditedStep DEF DeskInv
<1>2. QED BY <1>1, InitInv, PTL DEF Spec

\* The tables, the three logs and the requests in flight keep their types
THEOREM TypeCorrect == Spec => []TypeOK
<1>1. DeskInv => TypeOK
  BY DEF DeskInv
<1>2. QED BY <1>1, Invariant, PTL

\* review_approval reads in autocommit and updates without asking again: an approval gets as
\* many decisions as workers can read it as pending before the first one is written
THEOREM DecisionsAreBounded == Spec => []DecisionsBounded
<1>1. DeskInv => DecisionsBounded
  <2> SUFFICES ASSUME DeskInv, NEW a \in DOMAIN approvals
               PROVE  IF approvals[a].status = "pending"
                      THEN Cardinality(Recorded(a)) + Cardinality(Flying("committed", "review", a)) = 0
                      ELSE Cardinality(Recorded(a)) + Cardinality(Flying("committed", "review", a))
                             + Cardinality(Flying("selected", "review", a)) <= Cardinality(Slots)
    BY DEF DecisionsBounded
  <2>1. a \in Approvals
    BY DEF DeskInv, TypeOK
  <2>2. CASE approvals[a].status = "pending"
    <3>1. Recorded(a) = {} /\ Flying("committed", "review", a) = {}
      BY <2>1, <2>2 DEF DeskInv, DecisionInv, Undecided
    <3>2. QED BY <2>2, <3>1, FS_EmptySet
  <2>3. CASE approvals[a].status # "pending"
    BY <2>1, <2>3 DEF DeskInv, DecisionInv, Undecided
  <2>4. QED BY <2>2, <2>3
<1>2. QED BY <1>1, Invariant, PTL

\* set_agent_presence breaks on the primary key only for agents without a row, and for each of
\* them at most once for every other worker
THEOREM CollisionsAreBounded == Spec => []FirstPresenceOnly
<1>1. DeskInv => FirstPresenceOnly
  <2> SUFFICES ASSUME DeskInv PROVE FirstPresenceOnly
    OBVIOUS
  <2> DEFINE bound == (Cardinality(Slots) - 1) * Cardinality(Newcomers)
  <2>1. Cardinality(Duplicates) + Cardinality(Doomed) <= bound /\ IsFiniteSet(Newcomers)
    BY DEF DeskInv, PresenceInv
  <2>2. bound \in Int
    BY <2>1, SlotsAssumption, FS_CardinalityType
  <2>3. Cardinality(Duplicates) \in Nat
    <3>1. answers \in Seq(Told) /\ Duplicates = Rows(answers, {t \in Told : t.status = "duplicate"})
      BY RowsAre DEF DeskInv, TypeOK
    <3>2. QED BY <3>1, RowsType
  <2>4. Cardinality(Doomed) \in Nat
    <3>1. Doomed \subseteq Slots
      BY DEF Doomed
    <3>2. QED BY <3>1, SlotsAssumption, FS_Subset, FS_CardinalityType
  <2> HIDE DEF bound
  <2>5. Cardinality(Duplicates) <= bound
    BY <2>1, <2>2, <2>3, <2>4
  <2>6. QED BY <2>5 DEF bound, FirstPresenceOnly, Duplicates, Newcomers
<1>2. QED BY <1>1, Invariant, PTL

\* What the request log calls a success has an explicit audit row, whichever of a request's
\* three transactions fail
THEOREM SuccessIsAudited == Spec => []OkIsAudited
<1>1. DeskInv => OkIsAudited
  <2> SUFFICES ASSUME DeskInv, NEW op \in Ops PROVE Cardinality(OkRows(op)) <= Cardinality(AuditRows(op))
    BY DEF OkIsAudited, OkRows, AuditRows
  <2>1. Cardinality(OkRows(op)) \in Nat /\ Cardinality(AuditRows(op)) \in Nat
    BY LogTypes DEF DeskInv
  <2>2. Cardinality(Succeeded(op)) \in Nat
    <3>1. Succeeded(op) \subseteq Slots
      BY DEF Succeeded
    <3>2. QED BY <3>1, SlotsAssumption, FS_Subset, FS_CardinalityType
  <2>3. Cardinality(OkRows(op)) + Cardinality(Succeeded(op)) <= Cardinality(AuditRows(op))
    BY DEF DeskInv, AuditedInv
  <2>4. QED BY <2>1, <2>2, <2>3
<1>2. QED BY <1>1, Invariant, PTL

\* No step of any request gives a task to another agent
THEOREM TasksKeepOwner == Spec => TaskKeepsOwner
<1> DEFINE Kept == \A t \in DOMAIN tasks : tasks'[t].owner = tasks[t].owner
<1>1. DeskInv /\ [Next]_vars => [Kept]_tasks
  <2> SUFFICES ASSUME DeskInv, Next, tasks' # tasks PROVE Kept
    BY DEF vars, tables
  <2>1. TypeOK
    BY DEF DeskInv
  <2>2. PICK r \in Slots, u \in Users :
          \/ \E t \in Tasks : CreateTask(r, u, t)
          \/ \E t \in Tasks, status \in (Wanted \cap TaskStatuses) \cup {Null} : UpdateTask(r, u, t, status)
    BY DEF Next, Receive, RequestApproval, ReviewSelect, ReviewWrite, PresenceSelect, PresenceWrite,
           Audit, LogRequest, Busy, Die, tables
  <2>3. ASSUME NEW t \in Tasks, CreateTask(r, u, t) PROVE Kept
    <3> DEFINE row == [status |-> "pending", owner |-> u, attempted |-> FALSE, completed |-> FALSE]
    <3>1. (t \notin DOMAIN tasks /\ tasks' = Insert(tasks, t, row)) \/ tasks' = tasks
      BY <2>3 DEF CreateTask
    <3> HIDE DEF row
    <3>2. QED BY <3>1 DEF Insert
  <2>4. ASSUME NEW t \in Tasks, NEW status \in (Wanted \cap TaskStatuses) \cup {Null}, UpdateTask(r, u, t, status)
        PROVE  Kept
    <3>1. CASE tasks' = tasks
      BY <3>1
    <3>2. CASE t \in DOMAIN tasks /\ tasks' = [tasks EXCEPT ![t] = Updated(tasks[t], status, u)]
      <4>1. tasks[t] \in Task
        BY <2>1, <3>2 DEF TypeOK
      <4>2. Updated(tasks[t], status, u).owner = tasks[t].owner
        BY <4>1, UpdatedType
      <4>3. QED BY <3>2, <4>2
    <3>3. QED BY <2>4, <3>1, <3>2 DEF UpdateTask
  <2>5. QED BY <2>2, <2>3, <2>4
<1>2. QED BY <1>1, Invariant, PTL DEF Spec, TaskKeepsOwner

=============================================================================

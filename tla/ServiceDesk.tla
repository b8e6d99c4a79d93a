---------------------------- MODULE ServiceDesk -----------------------------
(***************************************************************************)
(* The smaller desks of the platform, approvals, outbound tasks and agent  *)
(* presence, and what surrounds every request to them: the access checks   *)
(* before, the explicit audit row and the request log after.               *)
(*                                                                         *)
(* A request passes AuditMiddleware, get_current_user, the handler and a   *)
(* function of cx_data_service.  The handlers run on the event loop of     *)
(* their worker, so a slot that is between a SELECT and its write stands   *)
(* for a worker process of its own:                                        *)
(*   idle --> selected   the row read in autocommit, its checks passed     *)
(*        --> committed  the service's transaction                         *)
(*        --> answered   the audit row committed, or the request refused   *)
(*        --> idle       the row of the request log, and the answer        *)
(* An exception that no handler expects leaves this path: it passes        *)
(* AuditMiddleware by and is answered (500) outside of it.                 *)
(***************************************************************************)
EXTENDS Naturals, FiniteSets, Sequences, Permissions

CONSTANTS
  Users,        \* the logged-in staff
  RoleOf,       \* their roles
  Approvals,    \* the ids the approvals table can hand out
  Tasks,        \* the ids the outbound_tasks table can hand out
  Slots,        \* the requests that can be in flight at once
  Wanted,       \* the statuses clients ask for, of tasks and presences
  Failures,     \* may a worker die, or the database stay locked?
  MaxAnswers,   \* new requests stop after so many answers
  Null

TaskStatuses == {"pending", "in_progress", "completed", "failed", "cancelled"}
PresenceStatuses == {"available", "on_break", "acw", "in_call", "training", "offline"}

ASSUME RolesAssumption == RoleOf \in [Users -> Roles]
ASSUME WantedAssumption == Wanted \subseteq TaskStatuses \cup PresenceStatuses
ASSUME NullAssumption == Null \notin Users
ASSUME SlotsAssumption == IsFiniteSet(Slots)

VARIABLES
  approvals,  \* table approvals
  tasks,      \* table outbound_tasks
  presence,   \* table agent_presence, a row for each user in its domain
  audit,      \* table audit_logs: the rows of log_action
  log,        \* table audit_logs: the rows of AuditMiddleware
  answers,    \* what the clients were told
  req         \* the request in each slot

tables == <<approvals, tasks, presence>>
vars == <<tables, audit, log, answers, req>>

(* ------------------------------- types -------------------------------- *)

Ops == {"request_approval", "review", "create_task", "update_task", "set_presence"}
Decisions == {"approved", "rejected"}

Approval == [status : Decisions \cup {"pending"}, by : Users, reviewer : Users \cup {Null}]

\* Is attempted_at, is completed_at there?
Task == [status : TaskStatuses, owner : Users, attempted : BOOLEAN, completed : BOOLEAN]

\* An explicit audit row: the endpoint and the resource_id
AuditRow == [op : Ops, id : Approvals \cup Tasks \cup Users]

\* What the request log and the client are told.  The log has no resource_id: its pattern knows
\* none of the paths of these endpoints.  "busy" and "duplicate" are the exceptions
\* OperationalError and IntegrityError, both 500, "none" is the answer of a worker that died
Told == [op : Ops, status : {"ok", "refused", "busy", "duplicate", "none"}]

Idle == [pc |-> "idle"]

\* found: the SELECT of set_agent_presence returned a row
InFlight == [pc : {"selected"}, row : [op : {"review"}, id : Approvals], user : Users,
             value : Decisions, found : {TRUE}]
              \cup [pc : {"selected"}, row : [op : {"set_presence"}, id : Users], user : Users,
                    value : PresenceStatuses, found : BOOLEAN]
              \cup [pc : {"committed"}, row : AuditRow]
              \cup [pc : {"answered"}, told : [op : Ops, status : {"ok", "refused"}]]

TypeOK ==
  /\ approvals \in [DOMAIN approvals -> Approval] /\ DOMAIN approvals \subseteq Approvals
  /\ tasks \in [DOMAIN tasks -> Task] /\ DOMAIN tasks \subseteq Tasks
  /\ presence \in [DOMAIN presence -> PresenceStatuses] /\ DOMAIN presence \subseteq Users
  /\ audit \in Seq(AuditRow)
  /\ log \in Seq(Told)
  /\ answers \in Seq(Told)
  /\ req \in [Slots -> InFlight \cup {Idle}]

\* The generator's rows: requests of whoever a solved case is with, decided by supervisors or
\* pending ...
SeededApproval ==
  {a \in Approval : /\ RoleOf[a.by] \in {"agent", "senior_agent", "supervisor"}
                    /\ IF a.status = "pending" THEN a.reviewer = Null
                       ELSE a.reviewer # Null /\ RoleOf[a.reviewer] = "supervisor"}

\* ... tasks of the first eight agents, all of tier 2, attempted unless pending ...
SeededTask ==
  {t \in Task : /\ RoleOf[t.owner] = "senior_agent"
                /\ t.status # "cancelled"
                /\ t.attempted = (t.status # "pending")
                /\ t.completed = (t.status \in {"completed", "failed"})}

\* ... and a presence for everybody but analysts and administrators: any for an agent (of
\* those clients ask for here), available for the others
Present == {u \in Users : RoleOf[u] \notin {"qa_analyst", "admin"}}

SeededPresence(u) ==
  IF RoleOf[u] \in {"agent", "senior_agent"} THEN Wanted \cap PresenceStatuses ELSE {"available"}

Init ==
  /\ \E seeded \in SUBSET Approvals : approvals \in [seeded -> SeededApproval]
  /\ \E seeded \in SUBSET Tasks : tasks \in [seeded -> SeededTask]
  /\ presence \in {f \in [Present -> PresenceStatuses] : \A u \in Present : f[u] \in SeededPresence(u)}
  /\ audit = <<>>
  /\ log = <<>>
  /\ answers = <<>>
  /\ req = [r \in Slots |-> Idle]

(* ------------------------------ the path ------------------------------ *)

Admitted(r) == req[r] = Idle /\ Len(answers) < MaxAnswers

Select(r, op, u, id, value, found) ==
  req' = [req EXCEPT ![r] = [pc |-> "selected", row |-> [op |-> op, id |-> id], user |-> u,
                             value |-> value, found |-> found]]

Commit(r, op, id) == req' = [req EXCEPT ![r] = [pc |-> "committed", row |-> [op |-> op, id |-> id]]]

\* A 403, 404 or 422 of the handler: its response goes through AuditMiddleware
Refuse(r, op) == req' = [req EXCEPT ![r] = [pc |-> "answered", told |-> [op |-> op, status |-> "refused"]]]

\* The exception handler of ServerErrorMiddleware answers
Raise(r, op, status) ==
  /\ answers' = Append(answers, [op |-> op, status |-> status])
  /\ req' = [req EXCEPT ![r] = Idle]

\* Mutant: a failing audit row is not noticed
AuditMaybe(r) ==
  LET q == req[r] IN
  /\ q.pc = "committed"
  /\ audit' = audit \/ audit' = Append(audit, q.row)
  /\ req' = [req EXCEPT ![r] = [pc |-> "answered", told |-> [op |-> q.row.op, status |-> "ok"]]]
  /\ UNCHANGED <<tables, log, answers>>

\* audit_service.log_action and db.commit()
Audit(r) ==
  LET q == req[r] IN
  /\ q.pc = "committed"
  /\ audit' = Append(audit, q.row)
  /\ req' = [req EXCEPT ![r] = [pc |-> "answered", told |-> [op |-> q.row.op, status |-> "ok"]]]
  /\ UNCHANGED <<tables, log, answers>>

\* AuditMiddleware, after call_next
LogRequest(r) ==
  LET q == req[r] IN
  /\ q.pc = "answered"
  /\ log' = Append(log, q.told)
  /\ answers' = Append(answers, q.told)
  /\ req' = [req EXCEPT ![r] = Idle]
  /\ UNCHANGED <<tables, audit>>

\* The database is locked for longer than busy_timeout.  In the handler: a 500.  In
\* AuditMiddleware: the error is logged and the answer goes out all the same.
Busy(r) ==
  LET q == req[r] IN
  /\ Failures
  /\ \/ q.pc \in {"selected", "committed"} /\ Raise(r, q.row.op, "busy")
     \/ q.pc = "answered" /\ Raise(r, q.told.op, q.told.status)
  /\ UNCHANGED <<tables, audit, log>>

\* The worker dies
Die(r) ==
  LET q == req[r] IN
  /\ Failures
  /\ q # Idle
  /\ Raise(r, IF q.pc = "answered" THEN q.told.op ELSE q.row.op, "none")
  /\ UNCHANGED <<tables, audit, log>>

(* ------------------------------ approvals ----------------------------- *)

Insert(f, k, v) == [x \in DOMAIN f \cup {k} |-> IF x = k THEN v ELSE f[x]]

\* POST /approvals; that the case exists is not asked
RequestApproval(r, u, a) ==
  /\ Admitted(r)
  /\ IF HasPermission(RoleOf[u], "approval", "create")
     THEN /\ a \notin DOMAIN approvals
          /\ approvals' = Insert(approvals, a, [status |-> "pending", by |-> u, reviewer |-> Null])
          /\ Commit(r, "request_approval", a)
     ELSE Refuse(r, "request_approval") /\ UNCHANGED approvals
  /\ UNCHANGED <<tasks, presence, audit, log, answers>>

\* Mutant: any approval can be reviewed again
Existing(a) == a \in DOMAIN approvals

Reviewable(a) == a \in DOMAIN approvals /\ approvals[a].status = "pending"

\* PATCH /approvals/{id}: the SELECT of review_approval, in autocommit, and its checks;
\* whoever may review may review what they requested themselves
ReviewSelect(r, u, a, decision) ==
  /\ Admitted(r)
  /\ IF HasPermission(RoleOf[u], "approval", "update") /\ Reviewable(a)
     THEN Select(r, "review", u, a, decision, TRUE)
     ELSE Refuse(r, "review")
  /\ UNCHANGED <<tables, audit, log, answers>>

\* ... and the UPDATE, which does not ask for the status again
ReviewWrite(r) ==
  LET q == req[r] IN
  /\ q.pc = "selected" /\ q.row.op = "review"
  /\ approvals' = [approvals EXCEPT ![q.row.id] = [@ EXCEPT !.status = q.value, !.reviewer = q.user]]
  /\ Commit(r, "review", q.row.id)
  /\ UNCHANGED <<tasks, presence, audit, log, answers>>

(* --------------------------- outbound tasks --------------------------- *)

\* POST /outbound
CreateTask(r, u, t) ==
  /\ Admitted(r)
  /\ IF HasPermission(RoleOf[u], "case", "create")
     THEN /\ t \notin DOMAIN tasks
          /\ tasks' = Insert(tasks, t, [status |-> "pending", owner |-> u,
                                        attempted |-> FALSE, completed |-> FALSE])
          /\ Commit(r, "create_task", t)
     ELSE Refuse(r, "create_task") /\ UNCHANGED tasks
  /\ UNCHANGED <<approvals, presence, audit, log, answers>>

\* Mutant: the task goes to whoever updates it
TakenOver(row, status, u) ==
  [row EXCEPT !.status = IF status = Null THEN @ ELSE status,
              !.owner = u,
              !.attempted = @ \/ status = "in_progress",
              !.completed = @ \/ status \in {"completed", "failed"}]

\* Mutant: a status left out of the body overwrites
NullOverwrites(row, status, u) ==
  [row EXCEPT !.status = status,
              !.attempted = @ \/ status = "in_progress",
              !.completed = @ \/ status \in {"completed", "failed"}]

\* The UPDATE of update_outbound_task: any status after any other.  The agent_id passed to
\* it is its keyword parameter, not one of the fields.
Updated(row, status, u) ==
  [row EXCEPT !.status = IF status = Null THEN @ ELSE status,
              !.attempted = @ \/ status = "in_progress",
              !.completed = @ \/ status \in {"completed", "failed"}]

\* PATCH /outbound/{id}: one statement, on anybody's task
UpdateTask(r, u, t, status) ==
  /\ Admitted(r)
  /\ IF HasPermission(RoleOf[u], "case", "update") /\ t \in DOMAIN tasks
     THEN /\ tasks' = [tasks EXCEPT ![t] = Updated(@, status, u)]
          /\ Commit(r, "update_task", t)
     ELSE Refuse(r, "update_task") /\ UNCHANGED tasks
  /\ UNCHANGED <<approvals, presence, audit, log, answers>>

(* --------------------------- agent presence --------------------------- *)

Leads == {"team_lead", "supervisor", "admin"}

\* PUT /presence/{agent_id}: the SELECT of set_agent_presence, in autocommit
PresenceSelect(r, u, agent, status) ==
  /\ Admitted(r)
  /\ IF HasPermission(RoleOf[u], "case", "read") /\ (u = agent \/ RoleOf[u] \in Leads)
     THEN Select(r, "set_presence", u, agent, status, agent \in DOMAIN presence)
     ELSE Refuse(r, "set_presence")
  /\ UNCHANGED <<tables, audit, log, answers>>

\* Mutant: the INSERT is tried whatever the SELECT returned
InsertFails(q) == q.row.id \in DOMAIN presence

\* agent_id is the primary key
Collides(q) == ~q.found /\ q.row.id \in DOMAIN presence

PresenceWrite(r) ==
  LET q == req[r] IN
  /\ q.pc = "selected" /\ q.row.op = "set_presence"
  /\ IF Collides(q)
     THEN Raise(r, "set_presence", "duplicate") /\ UNCHANGED presence
     ELSE /\ presence' = Insert(presence, q.row.id, q.value)
          /\ Commit(r, "set_presence", q.row.id)
          /\ UNCHANGED answers
  /\ UNCHANGED <<approvals, tasks, audit, log>>

(* --------------------------- specification ---------------------------- *)

Receive(r) ==
  \E u \in Users :
    \/ \E a \in Approvals : RequestApproval(r, u, a)
    \/ \E a \in Approvals, decision \in Decisions : ReviewSelect(r, u, a, decision)
    \/ \E t \in Tasks : CreateTask(r, u, t)
    \/ \E t \in Tasks, status \in (Wanted \cap TaskStatuses) \cup {Null} : UpdateTask(r, u, t, status)
    \/ \E agent \in Users, status \in Wanted \cap PresenceStatuses : PresenceSelect(r, u, agent, status)

Next ==
  \E r \in Slots :
    \/ Receive(r) \/ ReviewWrite(r) \/ PresenceWrite(r)
    \/ Audit(r) \/ LogRequest(r) \/ Busy(r) \/ Die(r)

Spec == Init /\ [][Next]_vars

=============================================================================

---------------------------- MODULE CaseService ----------------------------
(***************************************************************************)
(* The case workflow of the platform: the cases, case_history,             *)
(* escalations, case_notes and audit_logs tables of mcdr_cx.db, and the    *)
(* endpoints of api/cases.py, api/escalations.py and api/verification.py   *)
(* that write them through services/cx_data_service.py.                    *)
(*                                                                         *)
(* Four worker processes, and a thread per call inside each, share the one *)
(* SQLite file, so a request is a process of its own.  Its steps are the   *)
(* points between which another request can commit:                        *)
(*   idle --> checked    the handler's get_case() and its access checks    *)
(*        --> selected   the service's SELECT, in autocommit, and the      *)
(*                       checks made on the row it returned                *)
(*        --> committed  the UPDATE and INSERTs of one SQLite transaction  *)
(*        --> idle       the audit row, in a transaction of its own        *)
(* A request the handler or the service refuses (403, 404, 409, 422)       *)
(* changes nothing: the refused steps go back to idle, and a request       *)
(* refused by its first check is no step at all.                           *)
(***************************************************************************)
EXTENDS Integers, Sequences, FiniteSets, CaseRules

CONSTANTS
  Users,        \* the logged-in staff
  RoleOf,       \* their roles
  Tier2,        \* those with tier = 'tier2'
  Cases,        \* the ids the cases table can hand out
  Sessions,     \* the ids the verification_sessions table can hand out
  Investors,
  Codes,        \* RESOLUTION_CODES, or as many of them as are told apart
  Priorities,
  Bodies,       \* the PATCH bodies clients send
  Endpoints,    \* the endpoints clients call
  Slots,        \* the requests that can be in flight at once
  SeedExpiries, \* expires_at of the sessions the data generator leaves behind
  Crashes,      \* may a worker die, or a commit fail, in the middle of a request?
  MaxClock, MaxHistory, MaxAudit, MaxNotes,   \* bounds of the checked instances
  Null          \* SQL NULL, Python None

AllEndpoints == {"create", "update", "reassign", "escalate", "add_note", "link"}

\* The body of a PATCH: the fields left out (or None) are Null
Body == [status : Statuses \cup {Null}, priority : Priorities \cup {Null}, code : Codes \cup {Null}]

ASSUME RolesAssumption == RoleOf \in [Users -> Roles]
ASSUME BodiesAssumption == Bodies \subseteq Body
ASSUME EndpointsAssumption == Endpoints \subseteq AllEndpoints
ASSUME SeedAssumption == SeedExpiries \subseteq Nat
ASSUME SlotsAssumption == IsFiniteSet(Slots)
ASSUME NullAssumption == Null \notin Codes \cup Users \cup Sessions \cup Statuses \cup Nat

VARIABLES
  clock,        \* datetime.now(), in whatever unit the properties need
  cases,        \* table cases: a row for each id in its domain
  history,      \* table case_history, by case
  escalations,  \* table escalations, by case
  notes,        \* table case_notes, by case: the authors
  sessions,     \* table verification_sessions: a row for each id in its domain
  audit,        \* table audit_logs: how many rows of each action, by case
  req           \* the requests in flight

vars == <<clock, cases, history, escalations, notes, sessions, audit, req>>

(* --------------------------- the tables ------------------------------- *)

Time == Nat \cup {Null}

\* A row of cases. sla_policy_id is the priority it was chosen for (policy_map is one-to-one).
CaseRow ==
  [status : Statuses, owner : Users, investor : Investors \cup {Null},
   priority : Priorities, policy : Priorities, code : Codes \cup {Null},
   verification : Sessions \cup {Null}, createdAt : Nat, firstResponse : Time,
   resolvedAt : Time, closedAt : Time, pendingSince : Time, pendingSecs : Int]

\* A row of case_history
Entry ==
  [field : {"status"}, old : Statuses, new : Statuses, by : Users, at : Nat]
    \cup [field : {"priority"}, old : Priorities, new : Priorities, by : Users, at : Nat]
    \cup [field : {"code"}, old : Codes \cup {Null}, new : Codes, by : Users, at : Nat]
    \cup [field : {"owner"}, old : Users, new : Users, by : Users, at : Nat]

Escalation == [from : Users, to : Users, at : Nat]

Session == [investor : Investors, status : {"in_progress", "passed", "verified", "failed", "skipped"},
            expires : Time]

Idle == [pc |-> "idle", op |-> Null, user |-> Null, case |-> Null, body |-> Null,
         target |-> Null, now |-> 0, old |-> Null]

\* A request in flight, by how far it got: what it carries from one step to the next
InFlight(pc, ops, bodies, targets, olds) ==
  [pc : {pc}, op : ops, user : Users, case : Cases, body : bodies, target : targets,
   now : Nat, old : olds]

Request ==
  {Idle}
    \cup InFlight("checked", {"update"}, Body, {Null}, {Null})
    \cup InFlight("checked", {"reassign"}, {Null}, Users, {Null})
    \cup InFlight("checked", {"escalate", "add_note"}, {Null}, {Null}, {Null})
    \cup InFlight("selected", {"update"}, Body, {Null}, CaseRow)
    \cup InFlight("selected", {"reassign"}, {Null}, Users, CaseRow)
    \cup InFlight("selected", {"link"}, {Null}, Sessions, {Null})
    \cup InFlight("committed", AllEndpoints, Body \cup {Null}, Users \cup Sessions \cup {Null}, {Null})

TypeOK ==
  /\ clock \in Nat
  /\ cases \in [DOMAIN cases -> CaseRow] /\ DOMAIN cases \subseteq Cases
  /\ history \in [Cases -> Seq(Entry)]
  /\ escalations \in [Cases -> Seq(Escalation)]
  /\ notes \in [Cases -> Seq(Users)]
  /\ sessions \in [DOMAIN sessions -> Session] /\ DOMAIN sessions \subseteq Sessions
  /\ audit \in [Cases -> [AllEndpoints -> Nat]]
  /\ req \in [Slots -> Request]
  /\ \A r \in Slots :
       req[r].pc \in {"checked", "selected"} /\ req[r].op # "link" => req[r].case \in DOMAIN cases

\* An empty database, except for verification sessions of the data generator
SeededSession == [investor : Investors, status : {"verified", "failed"}, expires : SeedExpiries]

Init ==
  /\ clock = 0
  /\ cases = [c \in {} |-> Null]
  /\ history = [c \in Cases |-> <<>>]
  /\ escalations = [c \in Cases |-> <<>>]
  /\ notes = [c \in Cases |-> <<>>]
  /\ \E seeded \in SUBSET Sessions : sessions \in [seeded -> SeededSession]
  /\ audit = [c \in Cases |-> [e \in AllEndpoints |-> 0]]
  /\ req = [r \in Slots |-> Idle]

(* ------------------------ reading and answering ----------------------- *)

\* New requests stop at the bounds
Admitted(r, e, c) ==
  /\ e \in Endpoints
  /\ req[r].pc = "idle"
  /\ Len(history[c]) < MaxHistory
  /\ Len(notes[c]) < MaxNotes
  /\ \A a \in AllEndpoints : audit[c][a] < MaxAudit

\* The handler's checks passed: the service function is about to run
Check(r, e, u, c, b, t) ==
  req' = [req EXCEPT ![r] = [pc |-> "checked", op |-> e, user |-> u, case |-> c, body |-> b,
                             target |-> t, now |-> clock, old |-> Null]]

\* The service read the row (time t is its _now()) and accepted the request
Select(r, t, row) == req' = [req EXCEPT ![r].pc = "selected", ![r].now = t, ![r].old = row]

\* Nothing more to do but the audit row
Commit(r) == req' = [req EXCEPT ![r].pc = "committed", ![r].old = Null]

\* The answer is sent
Answer(r) == req' = [req EXCEPT ![r] = Idle]

tables == <<cases, history, escalations, notes, sessions, audit>>

(* ------------------------------ logging ------------------------------- *)

\* _insert_and_get_id(... "INSERT INTO case_history" ...), if the field was in the update
Log(h, changed, field, old, new, by, at) ==
  IF changed THEN Append(h, [field |-> field, old |-> old, new |-> new, by |-> by, at |-> at])
             ELSE h

(* ----------------------------- create_case ---------------------------- *)

NewRow(u, i, p) ==
  [status |-> "open", owner |-> u, investor |-> i, priority |-> p, policy |-> p, code |-> Null,
   verification |-> Null, createdAt |-> clock, firstResponse |-> Null, resolvedAt |-> Null,
   closedAt |-> Null, pendingSince |-> Null, pendingSecs |-> 0]

\* POST /cases: the id is the next one of the AUTOINCREMENT column
Create(r, u, c, i, p) ==
  /\ Admitted(r, "create", c)
  /\ HasPermission(RoleOf[u], "case", "create")
  /\ c \notin DOMAIN cases
  /\ cases' = [d \in DOMAIN cases \cup {c} |-> IF d = c THEN NewRow(u, i, p) ELSE cases[d]]
  /\ req' = [req EXCEPT ![r] = [Idle EXCEPT !.pc = "committed", !.op = "create",
                                            !.user = u, !.case = c, !.now = clock]]
  /\ UNCHANGED <<clock, history, escalations, notes, sessions, audit>>

(* ----------------------------- update_case ---------------------------- *)

\* The 422s of update_case, all decided on the row o of its SELECT
TransitionAllowed(o, b) == b.status # Null => b.status \in ValidNextStatuses(o.status)

\* Mutant: a session still in progress is as good as a passed one
SessionNotFailed(v, t) ==
  /\ v \in DOMAIN sessions
  /\ sessions[v].status \notin {"failed", "skipped"}
  /\ sessions[v].expires # Null => t <= sessions[v].expires

SessionPassed(v, t) ==
  /\ v \in DOMAIN sessions
  /\ sessions[v].status \in {"passed", "verified"}
  /\ sessions[v].expires # Null => t <= sessions[v].expires

VerificationGate(o, b, t) ==
  o.status = "open" /\ b.status = "in_progress" /\ o.investor # Null =>
    o.verification # Null /\ SessionPassed(o.verification, t)

\* Mutant: the code may be added later
CodeOptional(o, b) == TRUE

ResolutionGate(o, b) == b.status = "resolved" => b.code # Null

\* updates["agent_id"]: an escalated case goes to whoever picks it up
PicksUp(o, b, u) == o.status = "escalated" /\ b.status = "in_progress" /\ o.owner # u

\* Mutant: only starting work counts as a response
StartsWork(o, b) == o.status = "open" /\ b.status = "in_progress" /\ o.firstResponse = Null

FirstResponds(o, b) == o.status = "open" /\ b.status \notin {Null, "open"} /\ o.firstResponse = Null

\* Mutant: the stamp moves with every resolution
ResolvesAgain(o, b) == b.status = "resolved"

Resolves(o, b) == b.status = "resolved" /\ o.resolvedAt = Null

\* Mutant: the immediate close of an open case is not stamped
ClosesWorked(o, b) == b.status = "closed" /\ o.closedAt = Null /\ o.status # "open"

Closes(o, b) == b.status = "closed" /\ o.closedAt = Null

LeavesPending(o, b) ==
  /\ o.status = "pending_customer"
  /\ b.status \notin {Null, "pending_customer"}
  /\ o.pendingSince # Null

\* Mutant: the stay replaces the earlier ones instead of adding to them
LastStay(o, t) == t - o.pendingSince

PausedFor(o, t) == o.pendingSecs + (t - o.pendingSince)

\* Mutant: None overwrites
Overwrite(new, current) == new

\* {k: v ... if v is not None}: a field left out of the body keeps its value
Keep(new, current) == IF new # Null THEN new ELSE current

\* The UPDATE: row is what the table holds now, o what the SELECT returned
UpdatedRow(row, o, b, u, t) ==
  [row EXCEPT
     !.status = Keep(b.status, @),
     !.priority = Keep(b.priority, @),
     !.code = Keep(b.code, @),
     !.owner = IF PicksUp(o, b, u) THEN u ELSE @,
     !.firstResponse = IF FirstResponds(o, b) THEN t ELSE @,
     !.pendingSecs = IF LeavesPending(o, b) THEN PausedFor(o, t) ELSE @,
     !.pendingSince = IF b.status = "pending_customer" THEN t
                      ELSE IF LeavesPending(o, b) THEN Null ELSE @,
     !.resolvedAt = IF Resolves(o, b) THEN t ELSE @,
     !.closedAt = IF Closes(o, b) THEN t ELSE @]

\* Mutant: the change of owner that comes with a pick-up is not recorded
BodyHistory(h, o, b, u, t) ==
  LET h1 == Log(h, b.status # Null, "status", o.status, b.status, u, t)
      h2 == Log(h1, b.priority # Null, "priority", o.priority, b.priority, u, t)
  IN  Log(h2, b.code # Null, "code", o.code, b.code, u, t)

\* Mutant: old and new value exchanged
SwappedHistory(h, o, b, u, t) ==
  LET h1 == Log(h, b.status # Null, "status", b.status, o.status, u, t)
      h2 == Log(h1, b.priority # Null, "priority", b.priority, o.priority, u, t)
      h3 == Log(h2, b.code # Null, "code", o.code, b.code, u, t)
  IN  Log(h3, PicksUp(o, b, u), "owner", o.owner, u, u, t)

\* One history row per updated field, in the order of the dict
UpdatedHistory(h, o, b, u, t) ==
  LET h1 == Log(h, b.status # Null, "status", o.status, b.status, u, t)
      h2 == Log(h1, b.priority # Null, "priority", o.priority, b.priority, u, t)
      h3 == Log(h2, b.code # Null, "code", o.code, b.code, u, t)
  IN  Log(h3, PicksUp(o, b, u), "owner", o.owner, u, u, t)

\* PATCH /cases/{id}, up to the call of cx.update_case
UpdateCheck(r, u, c, b) ==
  /\ Admitted(r, "update", c)
  /\ c \in DOMAIN cases
  /\ MayUpdate(RoleOf[u], u, cases[c].owner)
  /\ Check(r, "update", u, c, b, Null)
  /\ UNCHANGED <<clock, tables>>

\* The service runs its _now() and then, once the lock allows, its SELECT
UpdateSelect(r, t) ==
  LET q == req[r]
      o == cases[q.case]
      empty == q.body = [status |-> Null, priority |-> Null, code |-> Null]
  IN  /\ q.pc = "checked" /\ q.op = "update"
      /\ t \in q.now .. clock
      /\ IF empty THEN Commit(r)
         ELSE IF TransitionAllowed(o, q.body) /\ VerificationGate(o, q.body, t)
                                              /\ ResolutionGate(o, q.body)
              THEN Select(r, t, o)
              ELSE Answer(r)
      /\ UNCHANGED <<clock, tables>>

UpdateWrite(r) ==
  LET q == req[r] IN
  /\ q.pc = "selected" /\ q.op = "update"
  /\ cases' = [cases EXCEPT ![q.case] = UpdatedRow(@, q.old, q.body, q.user, q.now)]
  /\ history' = [history EXCEPT ![q.case] = UpdatedHistory(@, q.old, q.body, q.user, q.now)]
  /\ Commit(r)
  /\ UNCHANGED <<clock, escalations, notes, sessions, audit>>

(* ---------------------------- reassign_case --------------------------- *)

\* POST /cases/{id}/reassign, up to the call of cx.reassign_case
ReassignCheck(r, u, c, new) ==
  /\ Admitted(r, "reassign", c)
  /\ c \in DOMAIN cases
  /\ MayReassign(RoleOf[u])
  /\ Check(r, "reassign", u, c, Null, new)
  /\ UNCHANGED <<clock, tables>>

\* The same owner again: nothing to write, but the request still succeeds
ReassignSelect(r, t) ==
  LET q == req[r] IN
  /\ q.pc = "checked" /\ q.op = "reassign"
  /\ t \in q.now .. clock
  /\ IF cases[q.case].owner = q.target THEN Commit(r) ELSE Select(r, t, cases[q.case])
  /\ UNCHANGED <<clock, tables>>

ReassignWrite(r) ==
  LET q == req[r] IN
  /\ q.pc = "selected" /\ q.op = "reassign"
  /\ cases' = [cases EXCEPT ![q.case].owner = q.target]
  /\ history' = [history EXCEPT
                   ![q.case] = Log(@, TRUE, "owner", q.old.owner, q.target, q.user, q.now)]
  /\ Commit(r)
  /\ UNCHANGED <<clock, escalations, notes, sessions, audit>>

(* -------------------------- create_escalation ------------------------- *)

\* POST /escalations, up to the call of create_escalation
EscalateCheck(r, u, c) ==
  /\ Admitted(r, "escalate", c)
  /\ c \in DOMAIN cases
  /\ MayEscalate(RoleOf[u], u, cases[c].owner, cases[c].status)
  /\ Check(r, "escalate", u, c, Null, Null)
  /\ UNCHANGED <<clock, tables>>

\* Supervisors and tier-2 agents other than the sender, the sender if there is none
EscalationTargets(u) ==
  LET seniors == {v \in Users : RoleOf[v] = "supervisor" \/ (RoleOf[v] = "agent" /\ v \in Tier2)}
  IN  IF seniors \ {u} # {} THEN seniors \ {u} ELSE {u}

\* Mutant: no history entry when the status stays the same
EscalatedIfNew(h, old, u, t) == Log(h, old # "escalated", "status", old, "escalated", u, t)

EscalatedHistory(h, old, u, t) == Log(h, TRUE, "status", old, "escalated", u, t)

\* The INSERT comes first, so the old status is read inside the transaction.
\* The status is not compared with ValidTransitions and no clock of the row is touched.
EscalateWrite(r, t, to) ==
  LET q == req[r] IN
  /\ q.pc = "checked" /\ q.op = "escalate"
  /\ t \in q.now .. clock
  /\ to \in EscalationTargets(q.user)
  /\ escalations' = [escalations EXCEPT ![q.case] = Append(@, [from |-> q.user, to |-> to, at |-> t])]
  /\ cases' = [cases EXCEPT ![q.case].status = "escalated"]
  /\ history' = [history EXCEPT ![q.case] = EscalatedHistory(@, cases[q.case].status, q.user, t)]
  /\ Commit(r)
  /\ UNCHANGED <<clock, notes, sessions, audit>>

(* ---------------------------- add_case_note --------------------------- *)

NoteCheck(r, u, c) ==
  /\ Admitted(r, "add_note", c)
  /\ c \in DOMAIN cases
  /\ MayAddNote(RoleOf[u], u, cases[c].owner)
  /\ Check(r, "add_note", u, c, Null, Null)
  /\ UNCHANGED <<clock, tables>>

NoteWrite(r) ==
  LET q == req[r] IN
  /\ q.pc = "checked" /\ q.op = "add_note"
  /\ notes' = [notes EXCEPT ![q.case] = Append(@, q.user)]
  /\ Commit(r)
  /\ UNCHANGED <<clock, cases, history, escalations, sessions, audit>>

(* ------------------------ verification sessions ----------------------- *)

\* start_verification: a new session never expires
StartVerification(v, i) ==
  /\ v \notin DOMAIN sessions
  /\ sessions' = [w \in DOMAIN sessions \cup {v} |->
                    IF w = v THEN [investor |-> i, status |-> "in_progress", expires |-> Null]
                             ELSE sessions[w]]
  /\ UNCHANGED <<clock, cases, history, escalations, notes, audit, req>>

\* complete_verification, by its endpoint or by the last step of update_verification_step:
\* whatever the status was
CompleteVerification(v, status) ==
  /\ v \in DOMAIN sessions
  /\ sessions' = [sessions EXCEPT ![v].status = status]
  /\ UNCHANGED <<clock, cases, history, escalations, notes, audit, req>>

\* POST /verification/{id}/link: the session is read and checked in one connection ...
LinkSelect(r, u, c, v) ==
  /\ Admitted(r, "link", c)
  /\ HasPermission(RoleOf[u], "case", "update")
  /\ SessionPassed(v, clock)
  /\ req' = [req EXCEPT ![r] = [Idle EXCEPT !.pc = "selected", !.op = "link", !.user = u,
                                            !.case = c, !.target = v, !.now = clock]]
  /\ UNCHANGED <<clock, tables>>

\* ... and the case written in another; an UPDATE of no row is not an error
LinkWrite(r) ==
  LET q == req[r] IN
  /\ q.pc = "selected" /\ q.op = "link"
  /\ cases' = IF q.case \in DOMAIN cases THEN [cases EXCEPT ![q.case].verification = q.target]
                                         ELSE cases
  /\ Commit(r)
  /\ UNCHANGED <<clock, history, escalations, notes, sessions, audit>>

(* ----------------------- audit, failures and time --------------------- *)

\* Mutant: the audit row is committed before the service is called
AuditFirst(r) ==
  LET q == req[r] IN
  /\ q.pc \in {"checked", "committed"}
  /\ audit' = [audit EXCEPT ![q.case][q.op] = @ + 1]
  /\ Answer(r)
  /\ UNCHANGED <<clock, cases, history, escalations, notes, sessions>>

\* audit_service.log_action and db.commit(), then the answer
Audit(r) ==
  LET q == req[r] IN
  /\ q.pc = "committed"
  /\ audit' = [audit EXCEPT ![q.case][q.op] = @ + 1]
  /\ Answer(r)
  /\ UNCHANGED <<clock, cases, history, escalations, notes, sessions>>

\* The request ends where it is: the worker died, or the database stayed locked for longer
\* than busy_timeout and the transaction, of which no other request saw anything, was
\* rolled back (500)
Abort(r) ==
  /\ Crashes
  /\ req[r].pc # "idle"
  /\ Answer(r)
  /\ UNCHANGED <<clock, tables>>

Tick ==
  /\ clock < MaxClock
  /\ clock' = clock + 1
  /\ UNCHANGED <<tables, req>>

(* --------------------------- specification ---------------------------- *)

Receive(r) ==
  \E u \in Users, c \in Cases :
    \/ \E i \in Investors \cup {Null}, p \in Priorities : Create(r, u, c, i, p)
    \/ \E b \in Bodies : UpdateCheck(r, u, c, b)
    \/ \E new \in Users : ReassignCheck(r, u, c, new)
    \/ EscalateCheck(r, u, c)
    \/ NoteCheck(r, u, c)
    \/ \E v \in Sessions : LinkSelect(r, u, c, v)

Serve(r) ==
  \/ \E t \in 0 .. clock : UpdateSelect(r, t)
  \/ UpdateWrite(r)
  \/ \E t \in 0 .. clock : ReassignSelect(r, t)
  \/ ReassignWrite(r)
  \/ \E t \in 0 .. clock, to \in Users : EscalateWrite(r, t, to)
  \/ NoteWrite(r)
  \/ LinkWrite(r)
  \/ Audit(r)

Verify ==
  \E v \in Sessions :
    \/ \E i \in Investors : StartVerification(v, i)
    \/ \E status \in {"passed", "failed", "skipped"} : CompleteVerification(v, status)

Next ==
  \/ \E r \in Slots : Receive(r) \/ Serve(r) \/ Abort(r)
  \/ Verify
  \/ Tick

Spec == Init /\ [][Next]_vars

=============================================================================

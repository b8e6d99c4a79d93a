---------------------------- MODULE Verification ----------------------------
(***************************************************************************)
(* Identity verification, step by step: table verification_sessions and    *)
(* the endpoints of api/verification.py that write it.                     *)
(*                                                                         *)
(* The answers of a session are one JSON column.  Reporting a step reads   *)
(* it in one connection, writes it back in another, and completes the      *)
(* session in a third; the audit row is a fourth transaction.  A handler   *)
(* runs on the event loop of its worker without awaiting before the audit  *)
(* row, so what interleaves are the worker processes:                      *)
(*   idle --> read       the copy of the answers, with the new one added   *)
(*        --> stored     that copy written back; every answer is there     *)
(*        --> committed  the session completed, or nothing left to do      *)
(*        --> idle       the audit row                                     *)
(***************************************************************************)
EXTENDS FiniteSets, Naturals, Permissions

CONSTANTS
  Sessions,   \* the ids the table can hand out
  Steps,      \* steps_required
  Slots,      \* the requests that can be in flight at once
  Manual,     \* do clients use the complete endpoint?
  Clients,    \* the roles of the staff who call
  MaxEnded,   \* new requests stop when so many different ones have ended
  MaxDeaths,  \* how many requests may die
  Other       \* a step name that is not required: the body's step is any text

ASSUME StepsAssumption == Steps # {}
ASSUME OtherAssumption == Other \notin Steps
ASSUME ClientsAssumption == Clients \subseteq Roles

VARIABLES
  sessions,  \* the table: a row for each id in its domain
  audit,     \* audit_logs: the rows about verification sessions
  req,       \* the request in each slot
  died       \* the requests a crash ended, as they were

vars == <<sessions, audit, req, died>>

(* ------------------------------- types -------------------------------- *)

Outcomes == {"passed", "failed", "skipped"}

\* "absent": no such key.  The generator wrote true and false where the API writes
\* "passed" and "failed".
Answers == {"absent", "passed", "failed", "true", "false"}

Row == [status : Outcomes \cup {"in_progress", "verified"},
        steps : [Steps -> Answers],
        stamped : BOOLEAN]             \* verified_at is set

\* What the detail of an audit row tells: a step and its answer, or the status asked for
Told == [step : Steps \cup {Other}, answer : {"passed", "failed"}]
          \cup [status : Outcomes \cup {"started"}]

AuditRow == [session : Sessions, told : Told]

Idle == [pc |-> "idle"]

\* steps: the local dict of update_verification_step
InFlight == [pc : {"read", "stored", "committed"}, session : Sessions, told : Told,
             steps : [Steps -> Answers]]

TypeOK ==
  /\ sessions \in [DOMAIN sessions -> Row] /\ DOMAIN sessions \subseteq Sessions
  /\ audit \subseteq AuditRow
  /\ req \in [Slots -> InFlight \cup {Idle}]
  /\ died \subseteq InFlight
  /\ \A q \in {req[r] : r \in Slots} \ {Idle} : q.session \in DOMAIN sessions

NoAnswers == [s \in Steps |-> "absent"]

\* Sessions of the generator: verified with every answer true, or failed with at most two
SeededRow ==
  {[status |-> "verified", steps |-> [s \in Steps |-> "true"], stamped |-> TRUE]}
  \cup {row \in [status : {"failed"}, steps : [Steps -> {"true", "false"}], stamped : {FALSE}] :
          Cardinality({s \in Steps : row.steps[s] = "true"}) <= 2}

Init ==
  /\ \E seeded \in SUBSET Sessions : sessions \in [seeded -> SeededRow]
  /\ audit = {}
  /\ req = [r \in Slots |-> Idle]
  /\ died = {}

(* ------------------------------ requests ------------------------------ *)

Carry(r, pc, v, told, steps) ==
  req' = [req EXCEPT ![r] = [pc |-> pc, session |-> v, told |-> told, steps |-> steps]]

Admitted(r) == req[r] = Idle /\ Cardinality(audit) + Cardinality(died) < MaxEnded

\* Mutant: a session begins pending, as the documentation has it
PendingRow == [status |-> "pending", steps |-> NoAnswers, stamped |-> FALSE]

NewRow == [status |-> "in_progress", steps |-> NoAnswers, stamped |-> FALSE]

\* POST /verification/start
Start(r, v, role) ==
  /\ Admitted(r)
  /\ HasPermission(role, "case", "create")
  /\ v \notin DOMAIN sessions
  /\ sessions' = [w \in DOMAIN sessions \cup {v} |->
                    IF w = v THEN NewRow ELSE sessions[w]]
  /\ Carry(r, "committed", v, [status |-> "started"], NoAnswers)
  /\ UNCHANGED <<audit, died>>

\* steps_completed[step] = "passed" or "failed"; what is not required is not looked at
WithAnswer(steps, s, answer) == [t \in Steps |-> IF t = s THEN answer ELSE steps[t]]

\* PATCH /verification/{id}/step, up to the service's copy of the answers: any session,
\* whatever its status
ReadSteps(r, v, role, s, answer) ==
  /\ Admitted(r)
  /\ HasPermission(role, "case", "update")
  /\ v \in DOMAIN sessions
  /\ Carry(r, "read", v, [step |-> s, answer |-> answer],
           WithAnswer(sessions[v].steps, s, answer))
  /\ UNCHANGED <<sessions, audit, died>>

\* Mutant: a failed answer is to be given again
AllPassed(steps) == \A s \in Steps : steps[s] = "passed"

\* all_done, of the local copy
AllDone(steps) == \A s \in Steps : steps[s] # "absent"

\* Mutant: a new answer reopens the session
StoreReopens(row, steps) == [row EXCEPT !.steps = steps, !.status = "in_progress"]

StoreIn(row, steps) == [row EXCEPT !.steps = steps]

\* The UPDATE of steps_completed: the whole dict, whatever others stored since
StoreSteps(r) ==
  LET q == req[r] IN
  /\ q.pc = "read"
  /\ sessions' = [sessions EXCEPT ![q.session] = StoreIn(@, q.steps)]
  /\ IF AllDone(q.steps) THEN Carry(r, "stored", q.session, q.told, q.steps)
                         ELSE Carry(r, "committed", q.session, q.told, NoAnswers)
  /\ UNCHANGED <<audit, died>>

\* Mutant: only the answer just given decides
LastAnswerDecides(q) == q.told.answer

\* any_failed, of the local copy: only the word "failed" fails a session
Verdict(q) == IF \E s \in Steps : q.steps[s] = "failed" THEN "failed" ELSE "passed"

\* complete_verification: whatever the status was
Completed(row, status) == [row EXCEPT !.status = status, !.stamped = (status = "passed")]

CompleteBySteps(r) ==
  LET q == req[r] IN
  /\ q.pc = "stored"
  /\ sessions' = [sessions EXCEPT ![q.session] = Completed(@, Verdict(q))]
  /\ Carry(r, "committed", q.session, q.told, NoAnswers)
  /\ UNCHANGED <<audit, died>>

\* PATCH /verification/{id}/complete
Complete(r, v, role, status) ==
  /\ Manual
  /\ Admitted(r)
  /\ HasPermission(role, "case", "update")
  /\ v \in DOMAIN sessions
  /\ sessions' = [sessions EXCEPT ![v] = Completed(@, status)]
  /\ Carry(r, "committed", v, [status |-> status], NoAnswers)
  /\ UNCHANGED <<audit, died>>

\* audit_service.log_action, db.commit() and the answer
Audit(r) ==
  LET q == req[r] IN
  /\ q.pc = "committed"
  /\ audit' = audit \cup {[session |-> q.session, told |-> q.told]}
  /\ req' = [req EXCEPT ![r] = Idle]
  /\ UNCHANGED <<sessions, died>>

\* The worker dies, or the next transaction waits longer than busy_timeout: what was
\* committed stays, nothing resumes the request
Die(r) ==
  /\ req[r] # Idle
  /\ Cardinality(died) < MaxDeaths
  /\ died' = died \cup {req[r]}
  /\ req' = [req EXCEPT ![r] = Idle]
  /\ UNCHANGED <<sessions, audit>>

(* --------------------------- specification ---------------------------- *)

Receive(r) ==
  \E v \in Sessions, role \in Clients :
    \/ Start(r, v, role)
    \/ \E s \in Steps \cup {Other}, answer \in {"passed", "failed"} :
         ReadSteps(r, v, role, s, answer)
    \/ \E status \in Outcomes : Complete(r, v, role, status)

Next ==
  \E r \in Slots :
    Receive(r) \/ StoreSteps(r) \/ CompleteBySteps(r) \/ Audit(r) \/ Die(r)

Spec == Init /\ [][Next]_vars

(* ----------------------------- properties ----------------------------- *)

\* The requests about v that changed the table, wherever they ended, and what they told:
\* an audit row, a request in flight past its write, or one that died there
Done(v) ==
  {row.told : row \in {a \in audit : a.session = v}}
  \cup {q.told : q \in {p \in died \cup ({req[r] : r \in Slots} \ {Idle}) :
                          p.session = v /\ p.pc \in {"stored", "committed"}}}

Started(v) == [status |-> "started"] \in Done(v)

\* A session begun through the API is 'passed' only if somebody completed it by hand or each
\* required step was once reported as passed; and an answer it holds is one that was
\* reported.  Although the answers are written back from copies and some get lost, none is
\* ever made up.
PassedIsEarned ==
  \A v \in DOMAIN sessions : Started(v) =>
    /\ sessions[v].status = "passed" =>
         \/ [status |-> "passed"] \in Done(v)
         \/ \A s \in Steps : [step |-> s, answer |-> "passed"] \in Done(v)
    /\ \A s \in Steps :
         sessions[v].steps[s] # "absent" => [step |-> s, answer |-> sessions[v].steps[s]] \in Done(v)

\* A session that holds every answer is still in progress only while the request that wrote
\* the last one is on its way to complete it, or because that request died (the second
\* transaction of update_verification_step was never reached)
StuckOnlyByCrash ==
  \A v \in DOMAIN sessions :
    sessions[v].status = "in_progress" /\ (\A s \in Steps : sessions[v].steps[s] # "absent") =>
      \E q \in died \cup {req[r] : r \in Slots} : q.pc = "stored" /\ q.session = v

\* A session is decided for good: its outcome may change, but no late or stale report of a
\* step takes it back to in_progress, which is what the gate of the case workflow and the
\* linking of sessions count on.  Stated as the session table CaseService works with.
SessionStatus == [v \in Sessions |-> IF v \in DOMAIN sessions THEN sessions[v].status ELSE "none"]

Table == INSTANCE SessionContract WITH status <- SessionStatus

SessionsAsAssumed == Table!Spec

=============================================================================

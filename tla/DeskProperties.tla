--------------------------- MODULE DeskProperties ---------------------------
(***************************************************************************)
(* What should be true of the desks of ServiceDesk.                        *)
(***************************************************************************)
EXTENDS ServiceDesk

\* The rows of the audit trail that record a decision on an approval
Recorded(a) == {i \in DOMAIN audit : audit[i] = [op |-> "review", id |-> a]}

Flying(pc, op, id) == {r \in Slots : req[r].pc = pc /\ req[r].row = [op |-> op, id |-> id]}

\* An approval gets as many decisions as there are workers that can read it as pending before
\* the first of them is written, and not one more: review_approval never decides what it
\* read as decided.  A pending approval has none on record.
DecisionsBounded ==
  \A a \in DOMAIN approvals :
    LET decisions == Cardinality(Recorded(a)) + Cardinality(Flying("committed", "review", a))
    IN  IF approvals[a].status = "pending" THEN decisions = 0
        ELSE decisions + Cardinality(Flying("selected", "review", a)) <= Cardinality(Slots)

\* Setting a presence breaks on the primary key only while the first row of an agent is being
\* made, at most once for each of the other workers
FirstPresenceOnly ==
  Cardinality({i \in DOMAIN answers : answers[i].status = "duplicate"})
    <= (Cardinality(Slots) - 1) * Cardinality(DOMAIN presence \ Present)

\* A request the log shows as successful has the explicit audit row of its handler: the three
\* transactions of a request (service, audit row, request log) commit in this order, and
\* a request that loses one never gets to the next
OkIsAudited ==
  \A op \in Ops :
    Cardinality({i \in DOMAIN log : log[i] = [op |-> op, status |-> "ok"]})
      <= Cardinality({i \in DOMAIN audit : audit[i].op = op})

\* A task stays with the agent it was created for, whoever updates it, although update_task
\* passes the caller as agent_id and agent_id is a column the function may write
TaskKeepsOwner ==
  [][\A t \in DOMAIN tasks : tasks'[t].owner = tasks[t].owner]_tasks

=============================================================================

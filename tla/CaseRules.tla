----------------------------- MODULE CaseRules -----------------------------
(***************************************************************************)
(* The rules of the case lifecycle that need no state: the statuses and    *)
(* the transition table of cx_data_service.py, and who may call which      *)
(* endpoint of api/cases.py and api/escalations.py on a case.              *)
(***************************************************************************)
EXTENDS Permissions

Statuses == {"open", "in_progress", "pending_customer", "escalated", "resolved", "closed"}

\* _VALID_TRANSITIONS: the statuses a PATCH may move a case to, by current status
ValidTransitions ==
  [open             |-> {"in_progress", "escalated", "closed"},
   in_progress      |-> {"pending_customer", "escalated", "resolved", "closed"},
   pending_customer |-> {"in_progress", "escalated", "resolved", "closed"},
   escalated        |-> {"in_progress", "resolved", "closed"},
   resolved         |-> {"closed", "in_progress"},
   closed           |-> {}]

\* Mutant: a closed case can be reopened
NextStatusesOrReopen(status) ==
  ValidTransitions[status] \cup (IF status = "closed" THEN {"in_progress"} ELSE {})

\* valid_next_statuses
ValidNextStatuses(status) == ValidTransitions[status]

Agentlike == {"agent", "senior_agent"}

\* update_case's and add_note's ownership test: agents are confined to their own cases
OwnsOrOversees(role, user, owner) == role \in Agentlike => owner = user

\* PATCH /cases/{id}: permission, ownership, and never a QA analyst
MayUpdate(role, user, owner) ==
  /\ HasPermission(role, "case", "update")
  /\ OwnsOrOversees(role, user, owner)
  /\ role # "qa_analyst"

\* Mutant: T1 agents may reassign
AnybodyReassigns(role) == HasPermission(role, "case", "update") /\ role # "qa_analyst"

\* POST /cases/{id}/reassign: permission, and neither QA analysts nor T1 agents
MayReassign(role) ==
  /\ HasPermission(role, "case", "update")
  /\ role \notin {"qa_analyst", "agent"}

\* POST /escalations: permission, a case not escalated yet, ownership for agents
MayEscalate(role, user, owner, status) ==
  /\ HasPermission(role, "escalation", "escalate")
  /\ status # "escalated"
  /\ OwnsOrOversees(role, user, owner)

\* POST /cases/{id}/notes: permission, ownership for agents
MayAddNote(role, user, owner) ==
  /\ HasPermission(role, "case", "update")
  /\ OwnsOrOversees(role, user, owner)

=============================================================================

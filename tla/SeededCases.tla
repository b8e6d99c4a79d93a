---------------------------- MODULE SeededCases -----------------------------
(***************************************************************************)
(* The cases mcdr_mock/generate_cx_data.py leaves behind, with their rows  *)
(* of case_history, escalations and case_notes: where the workflow of      *)
(* CaseService starts on a generated database (Init of CaseService is the  *)
(* empty one).  The generator's random dates are not told apart: all are 0. *)
(***************************************************************************)
EXTENDS CaseService

CONSTANTS
  Seeds,   \* the cases the generator makes
  Pauses   \* the pending_seconds it draws from

ASSUME SeedsAssumption == Seeds \subseteq Cases /\ IsFiniteSet(Seeds)
ASSUME PausesAssumption == Pauses \subseteq Nat

DoneStatuses == {"resolved", "closed"}

\* _STATUS_CHAINS_DIRECT: the statuses a case went through, by the one it has
DirectChain ==
  [open             |-> <<"open">>,
   in_progress      |-> <<"open", "in_progress">>,
   pending_customer |-> <<"open", "in_progress", "pending_customer">>,
   escalated        |-> <<"open", "in_progress", "escalated">>,
   resolved         |-> <<"open", "in_progress", "resolved">>,
   closed           |-> <<"open", "in_progress", "resolved", "closed">>]

\* _STATUS_CHAINS_VIA_ESC
ChainViaEscalation ==
  [resolved |-> <<"open", "in_progress", "escalated", "in_progress", "resolved">>,
   closed   |-> <<"open", "in_progress", "escalated", "in_progress", "resolved", "closed">>]

\* escalated_then_resolved: some of the resolved and closed cases
Chains == {DirectChain[s] : s \in Statuses} \cup {ChainViaEscalation[s] : s \in DoneStatuses}

StatusOf(chain) == chain[Len(chain)]

\* escalation_eligible
WasEscalated(chain) == \E n \in 1 .. Len(chain) : chain[n] = "escalated"

\* The generated staff: everybody but the agents is of tier 2, senior agents are a role of
\* their own, so that EscalationTargets comes down to the supervisors
GeneratedTier2 == {u \in Users : RoleOf[u] # "agent"}

ASSUME StaffAssumption == Tier2 = GeneratedTier2

Supervisors == {u \in Users : RoleOf[u] = "supervisor"}
Seniors == Supervisors \cup {u \in Users : RoleOf[u] = "senior_agent"}

\* What random() decides: the first agent, whom the case was escalated to and by whom, ...
Draws ==
  [chain : Chains, agent : {u \in Users : RoleOf[u] = "agent"}, senior : Seniors, lead : Supervisors,
   byLead : BOOLEAN, investor : Investors, session : Sessions \cup {Null}, priority : Priorities,
   oldPriority : Priorities \cup {Null}, code : Codes, pause : Pauses]

\* Only a verified session is linked; pending_since is never set, and an escalated case keeps
\* its agent while a solved one stays with whom it was escalated to
SeededRow(x) ==
  LET status == StatusOf(x.chain)
      done == status \in DoneStatuses
  IN  [status |-> status,
       owner |-> IF WasEscalated(x.chain) /\ done THEN x.senior ELSE x.agent,
       investor |-> x.investor, priority |-> x.priority, policy |-> x.priority,
       code |-> IF done THEN x.code ELSE Null,
       verification |-> x.session, createdAt |-> 0,
       firstResponse |-> IF status = "open" THEN Null ELSE 0,
       resolvedAt |-> IF done THEN 0 ELSE Null,
       closedAt |-> IF status = "closed" THEN 0 ELSE Null,
       pendingSince |-> Null,
       pendingSecs |-> IF status \in {"open", "pending_customer"} THEN 0 ELSE x.pause]

\* An entry for each link of the chain, then perhaps one about the priority; its old value is
\* drawn on its own and may be the same
SeededHistory(x) ==
  [n \in 1 .. Len(x.chain) - 1 |->
     [field |-> "status", old |-> x.chain[n], new |-> x.chain[n + 1],
      by |-> IF x.chain[n + 1] = "escalated" /\ x.byLead THEN x.lead ELSE x.agent, at |-> 0]]
  \o IF x.oldPriority = Null THEN <<>>
     ELSE <<[field |-> "priority", old |-> x.oldPriority, new |-> x.priority, by |-> x.lead, at |-> 0]>>

SeededEscalations(x) ==
  IF WasEscalated(x.chain) THEN <<[from |-> x.agent, to |-> x.senior, at |-> 0]>> ELSE <<>>

\* The initial note; those that follow, up to five, are not told apart from later ones
SeededNotes(x) == <<x.agent>>

SeededCase(x) ==
  [row |-> SeededRow(x), history |-> SeededHistory(x),
   escalations |-> SeededEscalations(x), notes |-> SeededNotes(x)]

\* A generated database
SeededInit ==
  /\ clock = 0
  /\ \E kept \in SUBSET Sessions : sessions \in [kept -> SeededSession]
  /\ \E seed \in [Seeds -> {SeededCase(x) : x \in Draws}] :
       /\ \A c \in Seeds : LET row == seed[c].row IN
            row.verification # Null =>
              /\ row.verification \in DOMAIN sessions
              /\ sessions[row.verification].status = "verified"
              /\ sessions[row.verification].investor = row.investor
       /\ cases = [c \in Seeds |-> seed[c].row]
       /\ history = [c \in Cases |-> IF c \in Seeds THEN seed[c].history ELSE <<>>]
       /\ escalations = [c \in Cases |-> IF c \in Seeds THEN seed[c].escalations ELSE <<>>]
       /\ notes = [c \in Cases |-> IF c \in Seeds THEN seed[c].notes ELSE <<>>]
  /\ audit = [c \in Cases |-> [e \in AllEndpoints |-> 0]]
  /\ req = [r \in Slots |-> Idle]

=============================================================================

------------------------------ MODULE MCCases -------------------------------
(***************************************************************************)
(* Instances of CaseService for TLC: staff by role, and the PATCH bodies   *)
(* the clients of a run send.                                              *)
(***************************************************************************)
EXTENDS CaseProperties, TLC

CONSTANTS Agents, Seniors, Supervisors, Analysts

MCUsers == Agents \cup Seniors \cup Supervisors \cup Analysts

MCRoleOf ==
  [u \in MCUsers |-> CASE u \in Agents -> "agent"
                       [] u \in Seniors -> "senior_agent"
                       [] u \in Supervisors -> "supervisor"
                       [] u \in Analysts -> "qa_analyst"]

StatusBody(s, k) == [status |-> s, priority |-> Null, code |-> k]

\* Each status on its own, and a resolution with its code
StatusBodies ==
  {StatusBody(s, Null) : s \in Statuses} \cup {StatusBody("resolved", k) : k \in Codes}

\* Also the bodies without a status: empty, a priority, a code
AllBodies ==
  StatusBodies \cup {StatusBody(Null, k) : k \in Codes \cup {Null}}
               \cup {[status |-> Null, priority |-> p, code |-> Null] : p \in Priorities}

\* The statuses of cases that need no resolution code
WorkBodies == {StatusBody(s, Null) : s \in Statuses \ {"resolved"}}

\* Requests are interchangeable
SlotSymmetry == Permutations(Slots)

=============================================================================

------------------------------- MODULE MCDesk -------------------------------
(***************************************************************************)
(* Instances of ServiceDesk for TLC: staff by role.                        *)
(***************************************************************************)
EXTENDS DeskProperties, TLC

CONSTANTS Agents, Leaders, Analysts

MCUsers == Agents \cup Leaders \cup Analysts

MCRoleOf ==
  [u \in MCUsers |-> CASE u \in Agents -> "senior_agent"
                       [] u \in Leaders -> "team_lead"
                       [] u \in Analysts -> "qa_analyst"]

\* Requests are interchangeable
SlotSymmetry == Permutations(Slots)

=============================================================================

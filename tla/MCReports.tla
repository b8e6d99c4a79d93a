----------------------------- MODULE MCReports ------------------------------
(***************************************************************************)
(* Instances of CaseReports for TLC: an agent and a supervisor, whose      *)
(* requests on the cases follow one another while others read.             *)
(***************************************************************************)
EXTENDS CaseReports, TLC

CONSTANTS Agents, Supervisor

MCUsers == Agents \cup {Supervisor}

MCRoleOf == [u \in MCUsers |-> IF u \in Agents THEN "agent" ELSE "supervisor"]

MCTier2 == {Supervisor}

MCBodies ==
  {[status |-> s, priority |-> Null, code |-> IF s = "resolved" THEN "fixed" ELSE Null] :
     s \in {"in_progress", "resolved"}}

=============================================================================

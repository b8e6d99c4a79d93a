------------------------------ MODULE MCCalls -------------------------------
(***************************************************************************)
(* Instances of IncomingCalls for TLC: agents with a console, and a        *)
(* supervisor, whose console does not poll.                                *)
(***************************************************************************)
EXTENDS IncomingCalls, TLC

CONSTANTS Agents, Supervisors

MCStaff == Agents \cup Supervisors

=============================================================================

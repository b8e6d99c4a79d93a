-------------------------- MODULE SessionContract ---------------------------
(***************************************************************************)
(* Verification sessions as the case workflow sees them: a session begins  *)
(* in progress, unless the data generator left it decided, and is decided, *)
(* perhaps several times, but never undecided.  CaseService has exactly    *)
(* these steps (StartVerification, CompleteVerification).                  *)
(***************************************************************************)
CONSTANTS Sessions

VARIABLES status  \* of each session, "none" before it exists

Init == status \in [Sessions -> {"none", "verified", "failed"}]

Begin(v) == status[v] = "none" /\ status' = [status EXCEPT ![v] = "in_progress"]

Decide(v, outcome) == status[v] # "none" /\ status' = [status EXCEPT ![v] = outcome]

Next ==
  \E v \in Sessions :
    Begin(v) \/ \E outcome \in {"passed", "failed", "skipped"} : Decide(v, outcome)

Spec == Init /\ [][Next]_status

=============================================================================

--------------------------- MODULE MCVerification ---------------------------
(***************************************************************************)
(* Instances of Verification for TLC.                                      *)
(***************************************************************************)
EXTENDS Verification, TLC

\* Requests are interchangeable, and so are the required steps
Symmetry == Permutations(Slots) \cup Permutations(Steps)

=============================================================================

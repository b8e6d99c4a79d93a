----------------------------- MODULE MCSessions -----------------------------
(***************************************************************************)
(* Instances of AuthSessions for TLC.                                      *)
(***************************************************************************)
EXTENDS AuthSessions, TLC

\* Tokens are random, requests and workers interchangeable
Symmetry == Permutations(Tokens) \cup Permutations(Slots) \cup Permutations(Workers)

=============================================================================

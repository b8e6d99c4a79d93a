---------------------------- MODULE CaseContract ----------------------------
(***************************************************************************)
(* What the case workflow promises its readers, without its machinery: a   *)
(* case is opened once, it moves only along allowed moves, one at a time,  *)
(* and the trail holds each of its moves, with the status it really left   *)
(* and the status it really took, in the order they happened.              *)
(***************************************************************************)
EXTENDS Naturals

CONSTANTS Cases,  \* case ids
          Moves   \* the pairs <<from, to>> a case may step through

VARIABLES stage,  \* where each case is, "none" before it exists
          trail   \* the recorded moves of each case, by the numbers of their records: other
                  \* records may stand between them

Init ==
  /\ stage = [c \in Cases |-> "none"]
  /\ trail = [c \in Cases |-> [n \in {} |-> <<>>]]

Open(c) ==
  /\ stage[c] = "none"
  /\ stage' = [stage EXCEPT ![c] = "open"]
  /\ UNCHANGED trail

\* moves, with one more, recorded as number n
Recorded(moves, n, move) == [k \in DOMAIN moves \cup {n} |-> IF k = n THEN move ELSE moves[k]]

Move(c, to) ==
  /\ <<stage[c], to>> \in Moves
  /\ stage' = [stage EXCEPT ![c] = to]
  /\ \E n \in DOMAIN trail'[c] :
       /\ \A k \in DOMAIN trail[c] : k < n
       /\ trail' = [trail EXCEPT ![c] = Recorded(@, n, <<stage[c], to>>)]

Next == \E c \in Cases : Open(c) \/ \E m \in Moves : Move(c, m[2])

Spec == Init /\ [][Next]_<<stage, trail>>

=============================================================================

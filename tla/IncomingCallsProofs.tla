------------------------- MODULE IncomingCallsProofs ------------------------
(***************************************************************************)
(* Proofs about incoming calls, for any staff, calls, consoles, polls and  *)
(* worker processes, and any number of lost polls.                         *)
(***************************************************************************)
EXTENDS IncomingCalls, TLAPS

(* --------------------------- type correctness ------------------------- *)

\* The slots, the fates and what the consoles show and have under way keep their types
THEOREM TypeCorrect == Spec => []TypeOK
<1>1. Init => TypeOK
  BY MaxLostAssumption DEF Init, TypeOK, Call, Poll, Answer
<1>2. TypeOK /\ [Next]_vars => TypeOK'
  <2> SUFFICES ASSUME TypeOK, [Next]_vars PROVE TypeOK'
    OBVIOUS
  <2> USE DEF TypeOK
  <2>1. ASSUME NEW w \in Workers, NEW c \in Calls, NEW target \in Staff \cup {None},
               NEW u \in Staff, Ring(w, c, target, u)
        PROVE  TypeOK'
    <3>1. slot' \in [Workers -> [Staff -> Call]]
      BY <2>1 DEF Ring, Call
    <3>2. fate' \in [Calls -> {"none", "waiting", "accepted", "dismissed", "replaced"}]
      BY <2>1 DEF Ring
    <3>3. routed' \in [Calls -> Staff \cup {None}] /\ UNCHANGED console
      BY <2>1 DEF Ring
    <3> QED BY <3>1, <3>2, <3>3 DEF console
  <2>2. ASSUME NEW a \in Polling, NEW w \in Workers, ServeAnswer(a, w) PROVE TypeOK'
    <3>1. slot' \in [Workers -> [Staff -> Call]]
      BY <2>2, StaffAssumption DEF ServeAnswer, Popped, Call
    <3>2. fate' \in [Calls -> {"none", "waiting", "accepted", "dismissed", "replaced"}]
      BY <2>2 DEF ServeAnswer, Outcome
    <3>3. answer' \in [Polling -> Answer]
      BY <2>2 DEF ServeAnswer, Answer
    <3> QED BY <2>2, <3>1, <3>2, <3>3 DEF ServeAnswer
  <2>3. ASSUME NEW a \in Polling, NEW p \in Polls, NEW w \in Workers, ServePoll(a, p, w) PROVE TypeOK'
    <3>1. slot[w][a] \in Call
      BY StaffAssumption
    <3>2. [pc |-> "back", call |-> slot[w][a]] \in Poll
      BY <3>1 DEF Poll
    <3>3. poll' \in [Polling -> [Polls -> Poll]]
      BY <2>3, <3>2 DEF ServePoll
    <3> QED BY <2>3, <3>3 DEF ServePoll, PollLeaves
  <2>4. ASSUME NEW a \in Polling, NEW p \in Polls,
               SendPoll(a, p) \/ ReceivePoll(a, p) \/ LosePoll(a, p)
        PROVE  TypeOK'
    <3>1. [pc |-> "sent"] \in Poll /\ [pc |-> "idle"] \in Poll
      BY DEF Poll
    <3>2. poll' \in [Polling -> [Polls -> Poll]]
      <4>1. PICK new \in Poll : poll' = [poll EXCEPT ![a][p] = new]
        BY <2>4, <3>1, Zenon DEF SendPoll, ReceivePoll, LosePoll
      <4>2. [poll[a] EXCEPT ![p] = new] \in [Polls -> Poll]
        OBVIOUS
      <4> QED BY <4>1, <4>2
    <3>3. ReceivePoll(a, p) => poll[a][p].call \in Call
      BY DEF ReceivePoll, Poll
    <3>4. shown' \in [Polling -> Call]
      BY <2>4, <3>3 DEF SendPoll, ReceivePoll, LosePoll, Show
    <3>5. lost' \in 0 .. MaxLost
      BY <2>4, MaxLostAssumption DEF SendPoll, ReceivePoll, LosePoll
    <3> QED BY <2>4, <3>2, <3>4, <3>5 DEF SendPoll, ReceivePoll, LosePoll, server
  <2>5. ASSUME NEW a \in Polling, NEW says \in {"accept", "dismiss"}, SendAnswer(a, says) PROVE TypeOK'
    <3>1. answer' \in [Polling -> Answer]
      BY <2>5 DEF SendAnswer, Answer
    <3> QED BY <2>5, <3>1 DEF SendAnswer, server
  <2>6. ASSUME NEW a \in Polling, ReceiveAnswer(a) \/ EndCall(a) PROVE TypeOK'
    <3>1. answer' \in [Polling -> Answer]
      BY <2>6 DEF ReceiveAnswer, EndCall, Answer
    <3>2. shown' \in [Polling -> Call] /\ phase' \in [Polling -> {"ringing", "connected"}]
      BY <2>6 DEF ReceiveAnswer, EndCall, Close, Call
    <3> QED BY <2>6, <3>1, <3>2 DEF ReceiveAnswer, EndCall, server
  <2>7. CASE UNCHANGED vars
    BY <2>7 DEF vars, server, console
  <2> QED BY <2>1, <2>2, <2>3, <2>4, <2>5, <2>6, <2>7 DEF Next
<1> QED BY <1>1, <1>2, PTL DEF Spec

(* --------------------------- calls accounted -------------------------- *)

\* A call waits in one slot, that of the agent it was given to, and otherwise in none
SlotsAgree ==
  \A c \in Calls :
    /\ fate[c] = "waiting" => \E w \in Workers : Places(c) = {<<w, routed[c]>>}
    /\ fate[c] # "waiting" => Places(c) = {}

\* A console holds, or is about to be given, calls of its own agent
ConsolesAgree ==
  \A a \in Polling :
    /\ shown[a] # None => routed[shown[a]] = a
    /\ \A p \in Polls :
         poll[a][p].pc = "back" /\ poll[a][p].call # None => routed[poll[a][p].call] = a

\* The strengthening: a call that has not come was given to nobody, so none is shown
Accounted ==
  /\ SlotsAgree /\ ConsolesAgree
  /\ \A c \in Calls : fate[c] = "none" => routed[c] = None

\* What is in a slot waits there for the agent of the slot
LEMMA InSlot ==
  ASSUME TypeOK, Accounted, NEW w \in Workers, NEW u \in Staff, slot[w][u] # None
  PROVE  /\ slot[w][u] \in Calls
         /\ fate[slot[w][u]] = "waiting" /\ routed[slot[w][u]] = u
         /\ Places(slot[w][u]) = {<<w, u>>}
<1>1. PICK c \in Calls : c = slot[w][u]
  BY DEF TypeOK, Call
<1>2. <<w, u>> \in Places(c)
  BY <1>1 DEF Places
<1>3. fate[c] = "waiting"
  BY <1>2 DEF Accounted, SlotsAgree
<1>4. PICK x \in Workers : Places(c) = {<<x, routed[c]>>}
  BY <1>3 DEF Accounted, SlotsAgree
<1>5. x = w /\ routed[c] = u
  BY <1>2, <1>4
<1> QED BY <1>1, <1>3, <1>4, <1>5

\* A step at one slot changes the places of the two calls concerned
LEMMA PlacesAfter ==
  ASSUME TypeOK, NEW w \in Workers, NEW u \in Staff, NEW new \in Call,
         slot' = [slot EXCEPT ![w][u] = new], NEW c \in Calls
  PROVE  Places(c)' = (Places(c) \ {<<w, u>>}) \cup (IF new = c THEN {<<w, u>>} ELSE {})
<1>1. \A x \in Workers, y \in Staff :
        slot'[x][y] = IF x = w /\ y = u THEN new ELSE slot[x][y]
  BY DEF TypeOK
<1>2. Places(c) \subseteq Workers \X Staff /\ Places(c)' \subseteq Workers \X Staff
  BY DEF Places
<1>3. \A x \in Workers, y \in Staff :
        /\ <<x, y>> \in Places(c) <=> slot[x][y] = c
        /\ <<x, y>> \in Places(c)' <=> slot'[x][y] = c
  BY DEF Places
<1>4. \A x \in Workers, y \in Staff :
        <<x, y>> \in Places(c)' <=>
          <<x, y>> \in (Places(c) \ {<<w, u>>}) \cup (IF new = c THEN {<<w, u>>} ELSE {})
  <2> TAKE x \in Workers, y \in Staff
  <2>1. CASE x = w /\ y = u
    BY <1>1, <1>3, <2>1
  <2>2. CASE ~(x = w /\ y = u)
    <3>1. <<x, y>> \notin {<<w, u>>}
      BY <2>2
    <3>2. slot'[x][y] = slot[x][y]
      BY <1>1, <2>2
    <3> QED BY <1>3, <3>1, <3>2
  <2> QED BY <2>1, <2>2
<1>5. \A z \in Workers \X Staff : \E x \in Workers, y \in Staff : z = <<x, y>>
  OBVIOUS
<1>6. <<w, u>> \in Workers \X Staff
  OBVIOUS
<1> QED BY <1>2, <1>4, <1>5, <1>6

\* The call that rings was nowhere, and what it replaces is nowhere afterwards
LEMMA RingAccounted ==
  ASSUME TypeOK, Accounted, NEW w \in Workers, NEW c \in Calls, NEW target \in Staff \cup {None},
         NEW u \in Staff, Ring(w, c, target, u)
  PROVE  Accounted'
<1>1. /\ fate[c] = "none" /\ routed[c] = None /\ Places(c) = {}
      /\ slot' = [slot EXCEPT ![w][u] = c]
      /\ routed' = [routed EXCEPT ![c] = u]
  BY DEF Ring, Accounted, SlotsAgree
<1>2. \A d \in Calls : Places(d)' = (Places(d) \ {<<w, u>>}) \cup (IF c = d THEN {<<w, u>>} ELSE {})
  <2> TAKE d \in Calls
  <2>1. c \in Call
    BY DEF Call
  <2> QED BY <1>1, <2>1, PlacesAfter, Zenon
<1>3. ASSUME NEW d \in Calls
      PROVE  /\ fate'[d] = "waiting" => \E x \in Workers : Places(d)' = {<<x, routed'[d]>>}
             /\ fate'[d] # "waiting" => Places(d)' = {}
             /\ fate'[d] = "none" => routed'[d] = None
  <2>1. CASE d = c
    <3>1. fate'[d] = "waiting" /\ routed'[d] = u
      BY <1>1, <2>1 DEF Ring, TypeOK
    <3>2. Places(d)' = {<<w, u>>}
      BY <1>1, <1>2, <2>1
    <3> QED BY <3>1, <3>2
  <2>2. CASE d # c /\ d = slot[w][u]
    <3>1. slot[w][u] # None
      BY <2>2, NoneAssumption
    <3>2. fate'[d] = "replaced"
      BY <2>2, <3>1 DEF Ring, Displaced
    <3>3. Places(d) = {<<w, u>>}
      BY <2>2, <3>1, InSlot
    <3>4. Places(d)' = {}
      BY <1>2, <2>2, <3>3
    <3> QED BY <3>2, <3>4
  <2>3. CASE d # c /\ d # slot[w][u]
    <3>1. fate'[d] = fate[d] /\ routed'[d] = routed[d]
      BY <1>1, <2>3 DEF Ring, Displaced, TypeOK
    <3>2. <<w, u>> \notin Places(d)
      BY <2>3 DEF Places
    <3>3. Places(d)' = Places(d)
      BY <1>2, <2>3, <3>2
    <3> QED BY <3>1, <3>3 DEF Accounted, SlotsAgree
  <2> QED BY <2>1, <2>2, <2>3
<1>4. ConsolesAgree'
  <2>1. ASSUME NEW a \in Polling, NEW d \in Calls, routed[d] = a PROVE routed'[d] = a
    BY <1>1, <2>1, StaffAssumption, NoneAssumption DEF TypeOK
  <2>2. UNCHANGED <<shown, poll>>
    BY DEF Ring, console
  <2>3. ASSUME NEW a \in Polling, shown[a] # None PROVE routed'[shown[a]] = a
    BY <2>1, <2>3 DEF TypeOK, Call, Accounted, ConsolesAgree
  <2>4. ASSUME NEW a \in Polling, NEW p \in Polls, poll[a][p].pc = "back", poll[a][p].call # None
        PROVE  routed'[poll[a][p].call] = a
    <3>1. poll[a][p].call \in Calls
      BY <2>4 DEF TypeOK, Poll, Call
    <3> QED BY <2>1, <2>4, <3>1 DEF Accounted, ConsolesAgree
  <2> QED BY <2>2, <2>3, <2>4 DEF ConsolesAgree
<1> QED BY <1>3, <1>4 DEF Accounted, SlotsAgree

\* The call that is answered was in this slot only
LEMMA AnswerAccounted ==
  ASSUME TypeOK, Accounted, NEW a \in Polling, NEW w \in Workers, ServeAnswer(a, w)
  PROVE  Accounted'
<1>1. a \in Staff
  BY StaffAssumption
<1>2. slot' = [slot EXCEPT ![w][a] = None] /\ UNCHANGED <<routed, shown, poll>>
  BY DEF ServeAnswer, Popped
<1>3. \A d \in Calls : Places(d)' = Places(d) \ {<<w, a>>}
  <2> TAKE d \in Calls
  <2>1. None \in Call /\ None # d
    BY NoneAssumption DEF Call
  <2>2. Places(d)' = (Places(d) \ {<<w, a>>}) \cup (IF None = d THEN {<<w, a>>} ELSE {})
    BY <1>1, <1>2, <2>1, PlacesAfter, Zenon
  <2> QED BY <2>1, <2>2
<1>4. ASSUME NEW d \in Calls
      PROVE  /\ fate'[d] = "waiting" => \E x \in Workers : Places(d)' = {<<x, routed'[d]>>}
             /\ fate'[d] # "waiting" => Places(d)' = {}
             /\ fate'[d] = "none" => routed'[d] = None
  <2>1. CASE d = slot[w][a]
    <3>1. fate'[d] \in {"accepted", "dismissed"}
      BY <2>1 DEF ServeAnswer, Outcome
    <3>2. Places(d) = {<<w, a>>}
      BY <1>1, <2>1, InSlot, NoneAssumption
    <3> QED BY <1>3, <3>1, <3>2
  <2>2. CASE d # slot[w][a]
    <3>1. fate'[d] = fate[d]
      BY <2>2 DEF ServeAnswer
    <3>2. <<w, a>> \notin Places(d)
      BY <2>2 DEF Places
    <3>3. Places(d)' = Places(d)
      BY <1>3, <3>2
    <3> QED BY <1>2, <3>1, <3>3 DEF Accounted, SlotsAgree
  <2> QED BY <2>1, <2>2
<1>5. ConsolesAgree'
  BY <1>2 DEF Accounted, ConsolesAgree
<1> QED BY <1>4, <1>5 DEF Accounted, SlotsAgree

\* What the consoles do by themselves: they show and send what they hold
LEMMA ConsoleAccounted ==
  ASSUME TypeOK, Accounted, NEW a \in Polling,
         \/ \E p \in Polls : SendPoll(a, p) \/ ReceivePoll(a, p) \/ LosePoll(a, p)
         \/ \E p \in Polls, w \in Workers : ServePoll(a, p, w)
         \/ \E says \in {"accept", "dismiss"} : SendAnswer(a, says)
         \/ ReceiveAnswer(a) \/ EndCall(a)
  PROVE  Accounted'
<1>1. UNCHANGED <<slot, fate, routed>>
  BY DEF SendPoll, ReceivePoll, LosePoll, ServePoll, PollLeaves, SendAnswer, ReceiveAnswer, EndCall, server
<1>2. SlotsAgree' /\ \A c \in Calls : fate'[c] = "none" => routed'[c] = None
  BY <1>1 DEF Accounted, SlotsAgree, Places
<1>3. ASSUME NEW b \in Polling, shown'[b] # None PROVE routed[shown'[b]] = b
  <2>1. shown'[b] = shown[b] \/ \E p \in Polls : b = a /\ ReceivePoll(a, p) /\ shown'[a] = poll[a][p].call
    BY <1>3 DEF SendPoll, ReceivePoll, LosePoll, ServePoll, SendAnswer, ReceiveAnswer, EndCall, Close,
       Show, TypeOK
  <2> QED BY <1>3, <2>1 DEF Accounted, ConsolesAgree, ReceivePoll
<1>4. ASSUME NEW b \in Polling, NEW p \in Polls, poll'[b][p].pc = "back", poll'[b][p].call # None
      PROVE  routed[poll'[b][p].call] = b
  <2>1. CASE poll'[b][p] = poll[b][p]
    BY <1>4, <2>1 DEF Accounted, ConsolesAgree
  <2>2. CASE poll'[b][p] # poll[b][p]
    <3>1. PICK w \in Workers : b = a /\ ServePoll(a, p, w)
      BY <1>4, <2>2 DEF SendPoll, ReceivePoll, LosePoll, ServePoll, SendAnswer, ReceiveAnswer,
         EndCall, TypeOK
    <3>2. poll'[b][p].call = slot[w][b]
      BY <3>1 DEF ServePoll, TypeOK
    <3> QED BY <1>4, <3>2, InSlot, StaffAssumption
  <2> QED BY <2>1, <2>2
<1>5. ConsolesAgree'
  BY <1>1, <1>3, <1>4 DEF ConsolesAgree
<1> QED BY <1>2, <1>5 DEF Accounted

\* Every step keeps the strengthening
LEMMA AccountedStep ==
  ASSUME TypeOK, Accounted, [Next]_vars
  PROVE  Accounted'
<1>1. CASE UNCHANGED vars
  BY <1>1 DEF vars, server, console, Accounted, SlotsAgree, ConsolesAgree, Places
<1>2. CASE Next
  BY <1>2, RingAccounted, AnswerAccounted, ConsoleAccounted DEF Next
<1> QED BY <1>1, <1>2

\* The strengthening is an invariant
LEMMA AlwaysAccounted == Spec => []Accounted
<1>1. Init => Accounted
  <2> SUFFICES ASSUME Init PROVE Accounted
    OBVIOUS
  <2>1. ASSUME NEW c \in Calls PROVE Places(c) = {}
    BY NoneAssumption DEF Init, Places
  <2> QED BY <2>1 DEF Init, Accounted, SlotsAgree, ConsolesAgree
<1>2. TypeOK /\ Accounted /\ [Next]_vars => Accounted'
  BY AccountedStep
<1> QED BY <1>1, <1>2, TypeCorrect, PTL DEF Spec

\* No call is lost silently, handed out twice or shown to somebody else
THEOREM CallsAlwaysAccounted == Spec => []CallsAccounted
<1>1. Accounted => CallsAccounted
  BY DEF Accounted, SlotsAgree, ConsolesAgree, CallsAccounted
<1> QED BY <1>1, AlwaysAccounted, PTL

\* What became of a call is decided once: only a waiting call is in a slot to be answered or
\* replaced
THEOREM FateIsFinal == Spec => FateFinal
<1>1. ASSUME TypeOK, Accounted, [Next]_vars, NEW c \in Calls,
             fate[c] \in {"accepted", "dismissed", "replaced"}
      PROVE  fate'[c] = fate[c]
  <2>1. \A w \in Workers, u \in Staff : slot[w][u] # c
    BY <1>1, InSlot, NoneAssumption
  <2>2. ASSUME NEW w \in Workers, NEW d \in Calls, NEW target \in Staff \cup {None},
               NEW u \in Staff, Ring(w, d, target, u)
        PROVE  fate'[c] = fate[c]
    BY <1>1, <2>1, <2>2 DEF Ring, Displaced
  <2>3. ASSUME NEW a \in Polling, NEW w \in Workers, ServeAnswer(a, w) PROVE fate'[c] = fate[c]
    BY <2>1, <2>3, StaffAssumption DEF ServeAnswer
  <2>4. CASE UNCHANGED vars
    BY <2>4 DEF vars, server
  <2>5. ASSUME NEW a \in Polling,
               \/ \E p \in Polls : SendPoll(a, p) \/ ReceivePoll(a, p) \/ LosePoll(a, p)
               \/ \E p \in Polls, w \in Workers : ServePoll(a, p, w)
               \/ \E says \in {"accept", "dismiss"} : SendAnswer(a, says)
               \/ ReceiveAnswer(a) \/ EndCall(a)
        PROVE  fate'[c] = fate[c]
    BY <2>5 DEF SendPoll, ReceivePoll, LosePoll, ServePoll, SendAnswer, ReceiveAnswer, EndCall, server
  <2> QED BY <1>1, <2>2, <2>3, <2>4, <2>5 DEF Next
<1>2. TypeOK /\ Accounted /\ [Next]_vars =>
        [\A c \in Calls :
           fate[c] \in {"accepted", "dismissed", "replaced"} => fate'[c] = fate[c]]_fate
  BY <1>1
<1> QED BY <1>2, TypeCorrect, AlwaysAccounted, PTL DEF Spec, FateFinal

=============================================================================

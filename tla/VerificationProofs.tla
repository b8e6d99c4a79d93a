------------------------- MODULE VerificationProofs -------------------------
(***************************************************************************)
(* Proofs about identity verification, for any sessions, required steps,   *)
(* staff and number of requests in flight, any bounds and any crashes.     *)
(***************************************************************************)
EXTENDS Verification, TLAPS

(* --------------------------- type correctness ------------------------- *)

\* What the local copy, the outcome of a session and a fresh row are
LEMMA RowTypes ==
  /\ NewRow \in Row /\ NoAnswers \in [Steps -> Answers]
  /\ \A steps \in [Steps -> Answers], s \in Steps \cup {Other}, answer \in {"passed", "failed"} :
       WithAnswer(steps, s, answer) \in [Steps -> Answers]
  /\ \A row \in Row, steps \in [Steps -> Answers] :
       /\ StoreIn(row, steps) \in Row
       /\ StoreIn(row, steps).steps = steps
       /\ StoreIn(row, steps).status = row.status
  /\ \A row \in Row, status \in Outcomes :
       /\ Completed(row, status) \in Row
       /\ Completed(row, status).steps = row.steps
       /\ Completed(row, status).status = status
BY DEF NewRow, NoAnswers, Row, Outcomes, Answers, WithAnswer, StoreIn, Completed

\* The generator's sessions are rows, and decided
LEMMA SeededRowType ==
  ASSUME NEW row \in SeededRow
  PROVE  row \in Row /\ row.status \in {"verified", "failed"}
<1>1. CASE row = [status |-> "verified", steps |-> [s \in Steps |-> "true"], stamped |-> TRUE]
  <2>1. [s \in Steps |-> "true"] \in [Steps -> Answers]
    BY DEF Answers
  <2>2. \A steps \in [Steps -> Answers] :
          [status |-> "verified", steps |-> steps, stamped |-> TRUE] \in Row
    BY DEF Row
  <2> QED BY <1>1, <2>1, <2>2
<1>2. CASE row \in [status : {"failed"}, steps : [Steps -> {"true", "false"}], stamped : {FALSE}]
  <2>1. [Steps -> {"true", "false"}] \subseteq [Steps -> Answers]
    BY DEF Answers
  <2>2. row \in [status : {"failed"}, steps : [Steps -> Answers], stamped : {FALSE}]
    BY <1>2, <2>1
  <2> QED BY <2>2 DEF Row, Outcomes
<1>3. \/ row = [status |-> "verified", steps |-> [s \in Steps |-> "true"], stamped |-> TRUE]
      \/ row \in [status : {"failed"}, steps : [Steps -> {"true", "false"}], stamped : {FALSE}]
  BY Zenon DEF SeededRow
<1> QED BY <1>1, <1>2, <1>3

\* A slot is free or carries a typed request about a session that exists
LEMMA CarriedType ==
  ASSUME TypeOK, NEW r \in Slots, req[r] # Idle
  PROVE  /\ req[r] \in InFlight
         /\ req[r].session \in DOMAIN sessions /\ req[r].session \in Sessions
         /\ req[r].told \in Told /\ req[r].steps \in [Steps -> Answers]
         /\ sessions[req[r].session] \in Row
<1>1. req[r] \in InFlight
  BY DEF TypeOK
<1>2. req[r].session \in DOMAIN sessions
  BY DEF TypeOK
<1> QED
  BY <1>1, <1>2 DEF TypeOK, InFlight

\* The table and the slots after a step that puts one request into its slot
LEMMA CarryType ==
  ASSUME TypeOK, NEW r \in Slots, NEW q \in InFlight \cup {Idle}, req' = [req EXCEPT ![r] = q],
         sessions' \in [DOMAIN sessions' -> Row],
         DOMAIN sessions \subseteq DOMAIN sessions', DOMAIN sessions' \subseteq Sessions,
         q = Idle \/ q.session \in DOMAIN sessions',
         audit' \subseteq AuditRow, died' \subseteq InFlight
  PROVE  TypeOK'
<1>1. req' \in [Slots -> InFlight \cup {Idle}]
  BY DEF TypeOK
<1>2. ASSUME NEW s \in Slots, req'[s] # Idle
      PROVE  req'[s].session \in DOMAIN sessions'
  <2>1. CASE s = r
    BY <2>1, <1>2 DEF TypeOK
  <2>2. CASE s # r
    <3>1. req'[s] = req[s]
      BY <2>2 DEF TypeOK
    <3> QED BY <3>1, <1>2, CarriedType
  <2> QED BY <2>1, <2>2
<1> QED
  BY <1>1, <1>2 DEF TypeOK

\* An outcome given by the steps is an outcome
LEMMA VerdictType == \A q : Verdict(q) \in {"passed", "failed"}
BY DEF Verdict

\* An idle slot is at no step
LEMMA IdleHasNoStage == Idle.pc = "idle"
BY DEF Idle

\* Each request that is received leaves the table and the slots typed
LEMMA ReceiveType ==
  ASSUME TypeOK, NEW r \in Slots, Receive(r)
  PROVE  TypeOK'
<1>1. PICK v \in Sessions, role \in Clients :
        \/ Start(r, v, role)
        \/ \E s \in Steps \cup {Other}, answer \in {"passed", "failed"} :
             ReadSteps(r, v, role, s, answer)
        \/ \E status \in Outcomes : Complete(r, v, role, status)
  BY DEF Receive
<1>2. CASE Start(r, v, role)
  <2> DEFINE q == [pc |-> "committed", session |-> v, told |-> [status |-> "started"],
                   steps |-> NoAnswers]
  <2>1. q \in InFlight
    BY RowTypes DEF InFlight, Told
  <2>2. sessions' \in [DOMAIN sessions' -> Row] /\ DOMAIN sessions' = DOMAIN sessions \cup {v}
    BY <1>2, RowTypes DEF Start, TypeOK
  <2>3. req' = [req EXCEPT ![r] = q] /\ q.session = v /\ UNCHANGED <<audit, died>>
    BY <1>2 DEF Start, Carry
  <2> HIDE DEF q
  <2> QED BY <2>1, <2>2, <2>3, CarryType DEF TypeOK
<1>3. CASE \E s \in Steps \cup {Other}, answer \in {"passed", "failed"} :
             ReadSteps(r, v, role, s, answer)
  <2>1. PICK s \in Steps \cup {Other}, answer \in {"passed", "failed"} :
               ReadSteps(r, v, role, s, answer)
    BY <1>3
  <2> DEFINE steps == WithAnswer(sessions[v].steps, s, answer)
             q == [pc |-> "read", session |-> v, told |-> [step |-> s, answer |-> answer],
                   steps |-> steps]
  <2>2. v \in DOMAIN sessions /\ sessions[v] \in Row
    BY <2>1 DEF ReadSteps, TypeOK
  <2>3. steps \in [Steps -> Answers]
    BY <2>2, RowTypes DEF Row
  <2>4. req' = [req EXCEPT ![r] = q] /\ q.session = v /\ UNCHANGED <<sessions, audit, died>>
    BY <2>1 DEF ReadSteps, Carry
  <2> HIDE DEF steps
  <2>5. q \in InFlight
    BY <2>3 DEF InFlight, Told
  <2> HIDE DEF q
  <2> QED BY <2>2, <2>4, <2>5, CarryType DEF TypeOK
<1>4. CASE \E status \in Outcomes : Complete(r, v, role, status)
  <2>1. PICK status \in Outcomes : Complete(r, v, role, status)
    BY <1>4
  <2> DEFINE q == [pc |-> "committed", session |-> v, told |-> [status |-> status],
                   steps |-> NoAnswers]
  <2>2. v \in DOMAIN sessions /\ sessions[v] \in Row
    BY <2>1 DEF Complete, TypeOK
  <2>3. q \in InFlight
    BY RowTypes DEF InFlight, Told
  <2>4. req' = [req EXCEPT ![r] = q] /\ q.session = v /\ UNCHANGED <<audit, died>>
    BY <2>1 DEF Complete, Carry
  <2>5. sessions' \in [DOMAIN sessions -> Row] /\ DOMAIN sessions' = DOMAIN sessions
    BY <2>1, <2>2, RowTypes DEF Complete, TypeOK
  <2> HIDE DEF q
  <2> QED BY <2>2, <2>3, <2>4, <2>5, CarryType DEF TypeOK
<1> QED BY <1>1, <1>2, <1>3, <1>4

\* Writing the answers back keeps the types
LEMMA StoreStepsType ==
  ASSUME TypeOK, NEW r \in Slots, StoreSteps(r)
  PROVE  TypeOK'
<1> DEFINE v == req[r].session
           q == [pc |-> IF AllDone(req[r].steps) THEN "stored" ELSE "committed", session |-> v,
                 told |-> req[r].told,
                 steps |-> IF AllDone(req[r].steps) THEN req[r].steps ELSE NoAnswers]
<1>1. req[r].pc = "read" /\ req[r] # Idle
  BY IdleHasNoStage DEF StoreSteps
<1>2. sessions' \in [DOMAIN sessions -> Row] /\ DOMAIN sessions' = DOMAIN sessions
  BY <1>1, CarriedType, RowTypes DEF StoreSteps, TypeOK
<1>3. q \in InFlight /\ q.session = v
  BY <1>1, CarriedType, RowTypes DEF InFlight
<1>4. req' = [req EXCEPT ![r] = q] /\ UNCHANGED <<audit, died>>
  BY DEF StoreSteps, Carry
<1> HIDE DEF q
<1> QED BY <1>1, <1>2, <1>3, <1>4, CarriedType, CarryType DEF TypeOK

\* So does the decision after the last answer
LEMMA CompleteByStepsType ==
  ASSUME TypeOK, NEW r \in Slots, CompleteBySteps(r)
  PROVE  TypeOK'
<1> DEFINE v == req[r].session
           q == [pc |-> "committed", session |-> v, told |-> req[r].told, steps |-> NoAnswers]
<1>1. req[r].pc = "stored" /\ req[r] # Idle
  BY IdleHasNoStage DEF CompleteBySteps
<1>2. sessions' \in [DOMAIN sessions -> Row] /\ DOMAIN sessions' = DOMAIN sessions
  BY <1>1, CarriedType, RowTypes, VerdictType DEF CompleteBySteps, TypeOK, Outcomes
<1>3. q \in InFlight /\ q.session = v
  BY <1>1, CarriedType, RowTypes DEF InFlight
<1>4. req' = [req EXCEPT ![r] = q] /\ UNCHANGED <<audit, died>>
  BY DEF CompleteBySteps, Carry
<1> HIDE DEF q
<1> QED BY <1>1, <1>2, <1>3, <1>4, CarriedType, CarryType DEF TypeOK

\* So do the audit row and a worker that dies
LEMMA EndType ==
  ASSUME TypeOK, NEW r \in Slots, Audit(r) \/ Die(r)
  PROVE  TypeOK'
<1>1. req[r] # Idle /\ req' = [req EXCEPT ![r] = Idle] /\ UNCHANGED sessions
  BY IdleHasNoStage DEF Audit, Die
<1>2. audit' \subseteq AuditRow /\ died' \subseteq InFlight
  BY <1>1, CarriedType DEF Audit, Die, TypeOK, AuditRow
<1> QED BY <1>1, <1>2, CarryType DEF TypeOK

\* So does every step
LEMMA StepType ==
  ASSUME TypeOK, [Next]_vars
  PROVE  TypeOK'
<1>1. CASE Next
  BY <1>1, ReceiveType, StoreStepsType, CompleteByStepsType, EndType DEF Next
<1>2. CASE UNCHANGED vars
  BY <1>2 DEF TypeOK, vars
<1> QED BY <1>1, <1>2

\* The sessions, the trail and the requests keep their types, and a request is about a
\* session that exists, for any constants
THEOREM TypeCorrect == Spec => []TypeOK
<1>1. Init => TypeOK
  <2> SUFFICES ASSUME Init PROVE TypeOK
    OBVIOUS
  <2>1. PICK seeded \in SUBSET Sessions : sessions \in [seeded -> SeededRow]
    BY DEF Init
  <2> QED BY <2>1, SeededRowType DEF Init, TypeOK
<1>2. TypeOK /\ [Next]_vars => TypeOK'
  BY StepType
<1> QED BY <1>1, <1>2, PTL DEF Spec

(* ------------------------ sessions stay decided ----------------------- *)

\* What a step does to the table, whoever takes it: nothing, or one session begun, its answers
\* written back, or its outcome decided
LEMMA TableStep ==
  ASSUME TypeOK, Next
  PROVE  \/ UNCHANGED sessions
         \/ \E v \in Sessions : v \notin DOMAIN sessions
               /\ sessions' = [w \in DOMAIN sessions \cup {v} |-> IF w = v THEN NewRow ELSE sessions[w]]
         \/ \E v \in DOMAIN sessions, steps \in [Steps -> Answers] :
               sessions' = [sessions EXCEPT ![v] = StoreIn(sessions[v], steps)]
         \/ \E v \in DOMAIN sessions, status \in Outcomes :
               sessions' = [sessions EXCEPT ![v] = Completed(sessions[v], status)]
<1>1. PICK r \in Slots : Receive(r) \/ StoreSteps(r) \/ CompleteBySteps(r) \/ Audit(r) \/ Die(r)
  BY DEF Next
<1>2. CASE Receive(r)
  BY <1>2 DEF Receive, Start, ReadSteps, Complete
<1>3. CASE StoreSteps(r)
  <2>1. req[r] # Idle
    BY <1>3, IdleHasNoStage DEF StoreSteps
  <2> QED BY <1>3, <2>1, CarriedType DEF StoreSteps
<1>4. CASE CompleteBySteps(r)
  <2>1. req[r] # Idle
    BY <1>4, IdleHasNoStage DEF CompleteBySteps
  <2>2. Verdict(req[r]) \in Outcomes
    BY VerdictType DEF Outcomes
  <2> QED BY <1>4, <2>1, <2>2, CarriedType DEF CompleteBySteps
<1>5. CASE Audit(r) \/ Die(r)
  BY <1>5 DEF Audit, Die
<1> QED BY <1>1, <1>2, <1>3, <1>4, <1>5

\* The detailed sessions implement the table the case workflow was modelled with: however the
\* reports of several workers interleave and crash, a decided session is never undecided
THEOREM TableIsTheContract == Spec => SessionsAsAssumed
<1>1. Init => Table!Init
  <2> SUFFICES ASSUME Init PROVE Table!Init
    OBVIOUS
  <2>1. PICK seeded \in SUBSET Sessions : sessions \in [seeded -> SeededRow]
    BY DEF Init
  <2>2. \A row \in SeededRow : row.status \in {"verified", "failed"}
    BY SeededRowType
  <2>3. \A v \in DOMAIN sessions : sessions[v].status \in {"verified", "failed"}
    BY <2>1, <2>2
  <2>4. SessionStatus \in [Sessions -> {"none", "verified", "failed"}]
    BY <2>3 DEF SessionStatus
  <2> QED BY <2>4 DEF Table!Init
<1>2. TypeOK /\ [Next]_vars => [Table!Next]_SessionStatus
  <2> SUFFICES ASSUME TypeOK, [Next]_vars PROVE Table!Next \/ UNCHANGED SessionStatus
    OBVIOUS
  <2>1. CASE UNCHANGED sessions
    BY <2>1 DEF SessionStatus
  <2>2. CASE \E v \in Sessions : v \notin DOMAIN sessions
               /\ sessions' = [w \in DOMAIN sessions \cup {v} |-> IF w = v THEN NewRow ELSE sessions[w]]
    <3>1. PICK v \in Sessions : v \notin DOMAIN sessions
               /\ sessions' = [w \in DOMAIN sessions \cup {v} |-> IF w = v THEN NewRow ELSE sessions[w]]
      BY <2>2
    <3>2. SessionStatus' = [SessionStatus EXCEPT ![v] = "in_progress"]
      BY <3>1 DEF SessionStatus, NewRow
    <3>3. SessionStatus[v] = "none"
      BY <3>1 DEF SessionStatus
    <3> QED BY <3>2, <3>3 DEF Table!Next, Table!Begin
  <2>3. CASE \E v \in DOMAIN sessions, steps \in [Steps -> Answers] :
               sessions' = [sessions EXCEPT ![v] = StoreIn(sessions[v], steps)]
    <3>1. PICK v \in DOMAIN sessions, steps \in [Steps -> Answers] :
               sessions' = [sessions EXCEPT ![v] = StoreIn(sessions[v], steps)]
      BY <2>3
    <3>2. StoreIn(sessions[v], steps).status = sessions[v].status
      BY <3>1, RowTypes DEF TypeOK
    <3>3. SessionStatus' = SessionStatus
      BY <3>1, <3>2 DEF SessionStatus
    <3> QED BY <3>3
  <2>4. CASE \E v \in DOMAIN sessions, status \in Outcomes :
               sessions' = [sessions EXCEPT ![v] = Completed(sessions[v], status)]
    <3>1. PICK v \in DOMAIN sessions, status \in Outcomes :
               sessions' = [sessions EXCEPT ![v] = Completed(sessions[v], status)]
      BY <2>4
    <3>2. sessions[v] \in Row
      BY <3>1 DEF TypeOK
    <3>3. Completed(sessions[v], status).status = status /\ sessions[v].status # "none"
      BY <3>1, <3>2, RowTypes DEF Row, Outcomes
    <3>4. SessionStatus' = [SessionStatus EXCEPT ![v] = status] /\ SessionStatus[v] # "none"
      BY <3>1, <3>3 DEF SessionStatus, TypeOK
    <3>5. v \in Sessions
      BY DEF TypeOK
    <3> QED BY <3>4, <3>5 DEF Table!Next, Table!Decide, Outcomes
  <2> QED BY <2>1, <2>2, <2>3, <2>4, TableStep DEF vars
<1> QED BY <1>1, <1>2, TypeCorrect, PTL DEF Spec, SessionsAsAssumed, Table!Spec

(* ------------------- only a crash leaves one stuck -------------------- *)

\* How the slots look after a step of one of them
LEMMA OtherSlots ==
  ASSUME TypeOK, NEW r \in Slots, NEW q, req' = [req EXCEPT ![r] = q]
  PROVE  req'[r] = q /\ \A s \in Slots \ {r} : req'[s] = req[s]
BY DEF TypeOK

\* Who keeps a session that holds every answer from being complete: the request that stored
\* the last one, not yet past the second transaction, or dead before it
Completing(v) == \E q \in died \cup {req[r] : r \in Slots} : q.pc = "stored" /\ q.session = v

\* A request that is to decide a session stays until it did or its worker died
LEMMA CompletingStays ==
  ASSUME TypeOK, NEW r \in Slots, NEW q, req' = [req EXCEPT ![r] = q], died \subseteq died',
         req[r].pc = "stored" => req[r] \in died',
         NEW v, Completing(v)
  PROVE  Completing(v)'
<1>1. PICK p \in died \cup {req[s] : s \in Slots} : p.pc = "stored" /\ p.session = v
  BY DEF Completing
<1>2. p \in died' \cup {req'[s] : s \in Slots}
  BY <1>1, OtherSlots
<1> QED BY <1>1, <1>2 DEF Completing

\* Every step keeps sessions with all answers decided, or about to be, or its worker dead
LEMMA StuckStep ==
  ASSUME TypeOK, StuckOnlyByCrash, [Next]_vars
  PROVE  StuckOnlyByCrash'
<1> SUFFICES ASSUME NEW v \in DOMAIN sessions', sessions'[v].status = "in_progress",
                    \A s \in Steps : sessions'[v].steps[s] # "absent"
             PROVE  Completing(v)'
  BY DEF StuckOnlyByCrash, Completing
<1>1. ASSUME v \in DOMAIN sessions, sessions[v] = sessions'[v] PROVE Completing(v)
  BY <1>1 DEF StuckOnlyByCrash, Completing
<1>2. CASE UNCHANGED vars
  BY <1>1, <1>2 DEF vars, Completing
<1>3. CASE Next
  <2>1. PICK r \in Slots : Receive(r) \/ StoreSteps(r) \/ CompleteBySteps(r) \/ Audit(r) \/ Die(r)
    BY <1>3 DEF Next
  <2>2. CASE Receive(r)
    <3>1. PICK w \in Sessions, role \in Clients :
            \/ Start(r, w, role)
            \/ \E s \in Steps \cup {Other}, answer \in {"passed", "failed"} :
                 ReadSteps(r, w, role, s, answer)
            \/ \E status \in Outcomes : Complete(r, w, role, status)
      BY <2>2 DEF Receive
    <3>2. \E q : req' = [req EXCEPT ![r] = q]
      BY <3>1 DEF Start, ReadSteps, Complete, Carry
    <3>3. req[r] = Idle /\ died' = died
      BY <3>1 DEF Start, ReadSteps, Complete, Admitted
    <3>4. v \in DOMAIN sessions /\ sessions[v] = sessions'[v]
      <4>1. CASE Start(r, w, role)
        BY <4>1, StepsAssumption DEF Start, NewRow, NoAnswers
      <4>2. CASE \E s \in Steps \cup {Other}, answer \in {"passed", "failed"} :
                   ReadSteps(r, w, role, s, answer)
        BY <4>2 DEF ReadSteps
      <4>3. CASE \E status \in Outcomes : Complete(r, w, role, status)
        <5>1. PICK status \in Outcomes : Complete(r, w, role, status)
          BY <4>3
        <5>2. Completed(sessions[w], status).status # "in_progress"
          BY <5>1, RowTypes DEF Complete, TypeOK, Outcomes
        <5> QED BY <5>1, <5>2 DEF Complete
      <4> QED BY <3>1, <4>1, <4>2, <4>3
    <3> QED BY <1>1, <3>2, <3>3, <3>4, CompletingStays, IdleHasNoStage
  <2>3. CASE StoreSteps(r)
    <3> DEFINE w == req[r].session
    <3>1. req[r] # Idle /\ req[r].pc = "read"
      BY <2>3, IdleHasNoStage DEF StoreSteps
    <3>2. sessions' = [sessions EXCEPT ![w] = StoreIn(sessions[w], req[r].steps)] /\ died' = died
      BY <2>3 DEF StoreSteps
    <3>3. CASE v = w
      <4>1. sessions'[v].steps = req[r].steps
        BY <3>1, <3>2, <3>3, CarriedType, RowTypes
      <4>2. AllDone(req[r].steps)
        BY <4>1 DEF AllDone
      <4>3. req'[r].pc = "stored" /\ req'[r].session = v
        BY <4>2, <2>3, <3>3 DEF StoreSteps, Carry, TypeOK
      <4> QED BY <4>3 DEF Completing
    <3>4. CASE v # w
      <4>1. \E q : req' = [req EXCEPT ![r] = q]
        BY <2>3 DEF StoreSteps, Carry
      <4>2. v \in DOMAIN sessions /\ sessions[v] = sessions'[v]
        BY <3>2, <3>4
      <4> QED BY <1>1, <3>1, <3>2, <4>1, <4>2, CompletingStays
    <3> QED BY <3>3, <3>4
  <2>4. CASE CompleteBySteps(r)
    <3> DEFINE w == req[r].session
    <3>1. req[r] # Idle
      BY <2>4, IdleHasNoStage DEF CompleteBySteps
    <3>2. sessions' = [sessions EXCEPT ![w] = Completed(sessions[w], Verdict(req[r]))] /\ died' = died
      BY <2>4 DEF CompleteBySteps
    <3>3. Completed(sessions[w], Verdict(req[r])).status # "in_progress"
      BY <3>1, CarriedType, RowTypes, VerdictType DEF Outcomes
    <3>4. v # w
      BY <3>1, <3>2, <3>3, CarriedType
    <3>5. v \in DOMAIN sessions /\ sessions[v] = sessions'[v]
      BY <3>2, <3>4
    <3>6. PICK p \in died \cup {req[s] : s \in Slots} : p.pc = "stored" /\ p.session = v
      BY <1>1, <3>5 DEF Completing
    <3>7. \E q : req' = [req EXCEPT ![r] = q]
      BY <2>4 DEF CompleteBySteps, Carry
    <3>8. p \in died' \cup {req'[s] : s \in Slots}
      BY <3>2, <3>4, <3>6, <3>7, OtherSlots
    <3> QED BY <3>6, <3>8 DEF Completing
  <2>5. CASE Audit(r)
    <3>1. req' = [req EXCEPT ![r] = Idle] /\ UNCHANGED <<sessions, died>> /\ req[r].pc = "committed"
      BY <2>5 DEF Audit
    <3> QED BY <1>1, <3>1, CompletingStays
  <2>6. CASE Die(r)
    <3>1. req' = [req EXCEPT ![r] = Idle] /\ UNCHANGED sessions /\ died' = died \cup {req[r]}
      BY <2>6 DEF Die
    <3> QED BY <1>1, <3>1, CompletingStays
  <2> QED BY <2>1, <2>2, <2>3, <2>4, <2>5, <2>6
<1> QED BY <1>2, <1>3

\* A session with every answer is in progress only because of the request that has still to
\* complete it, or of its death: an inductive invariant with TypeOK
THEOREM OnlyCrashesStick == Spec => []StuckOnlyByCrash
<1>1. Init => StuckOnlyByCrash
  <2> SUFFICES ASSUME Init PROVE \A v \in DOMAIN sessions : sessions[v].status # "in_progress"
    BY DEF StuckOnlyByCrash
  <2>1. PICK seeded \in SUBSET Sessions : sessions \in [seeded -> SeededRow]
    BY DEF Init
  <2>2. \A row \in SeededRow : row.status \in {"verified", "failed"}
    BY SeededRowType
  <2> QED BY <2>1, <2>2
<1>2. TypeOK /\ StuckOnlyByCrash /\ [Next]_vars => StuckOnlyByCrash'
  BY StuckStep
<1> QED BY <1>1, <1>2, TypeCorrect, PTL DEF Spec

(* ------------------------ what is passed is earned -------------------- *)

\* The request p has changed session v and told t
Tells(p, v, t) == p # Idle /\ p.session = v /\ p.told = t /\ p.pc \in {"stored", "committed"}

\* t answers for step s of v: it was reported, and stored
Holds(v, s, answer) == answer \in {"passed", "failed"} /\ [step |-> s, answer |-> answer] \in Done(v)

\* What a session begun through the API holds was told by somebody
RowEarned(v) ==
  Started(v) =>
    /\ sessions[v].status = "passed" =>
         [status |-> "passed"] \in Done(v) \/ \A s \in Steps : Holds(v, s, "passed")
    /\ \A s \in Steps : sessions[v].steps[s] = "absent" \/ Holds(v, s, sessions[v].steps[s])

\* The strengthening: so was what the copies of the requests hold, except the answer that a
\* request is bringing; and a copy that decides a session is complete
CopyEarned(r) ==
  LET v == req[r].session IN
  /\ req[r].pc = "read" =>
       \E s \in Steps \cup {Other}, answer \in {"passed", "failed"} :
         /\ req[r].told = [step |-> s, answer |-> answer]
         /\ Started(v) => \A t \in Steps :
              \/ req[r].steps[t] = "absent" \/ (t = s /\ req[r].steps[t] = answer)
              \/ Holds(v, t, req[r].steps[t])
  /\ req[r].pc = "stored" =>
       /\ AllDone(req[r].steps)
       /\ Started(v) => \A t \in Steps : Holds(v, t, req[r].steps[t])

Earned == (\A v \in DOMAIN sessions : RowEarned(v)) /\ (\A r \in Slots : CopyEarned(r))

\* A step of r keeps what was told, and adds at most what r is telling after it
LEMMA DoneStep ==
  ASSUME TypeOK, NEW r \in Slots,
         Receive(r) \/ StoreSteps(r) \/ CompleteBySteps(r) \/ Audit(r) \/ Die(r),
         NEW v, NEW t
  PROVE  /\ t \in Done(v) => t \in Done(v)'
         /\ t \in Done(v)' => t \in Done(v) \/ (Tells(req[r], v, t)' /\ ~ Tells(req[r], v, t))
<1> DEFINE T(p) == p.session = v /\ p.told = t /\ p.pc \in {"stored", "committed"}
<1>1. t \in Done(v) <=>
       \/ \E a \in audit : a.session = v /\ a.told = t
       \/ \E p \in died : T(p)
       \/ \E s \in Slots : req[s] # Idle /\ T(req[s])
  <2> DEFINE Rows == {row.told : row \in {a \in audit : a.session = v}}
             Requests == died \cup ({req[s] : s \in Slots} \ {Idle})
             Tellers == {q.told : q \in {p \in Requests :
                           p.session = v /\ p.pc \in {"stored", "committed"}}}
  <2>1. Done(v) = Rows \cup Tellers
    BY Zenon DEF Done
  <2>2. t \in Rows <=> \E a \in audit : a.session = v /\ a.told = t
    BY Zenon
  <2>3. t \in Tellers <=> \E p \in Requests : T(p)
    <3> HIDE DEF Requests
    <3> QED BY Zenon
  <2> HIDE DEF T, Rows, Tellers
  <2>4. (\E p \in Requests : T(p))
          <=> (\E p \in died : T(p)) \/ \E s \in Slots : req[s] # Idle /\ T(req[s])
    BY Zenon
  <2> QED BY <2>1, <2>2, <2>3, <2>4
<1>2. t \in Done(v)' <=>
       \/ \E a \in audit' : a.session = v /\ a.told = t
       \/ \E p \in died' : T(p)
       \/ \E s \in Slots : req'[s] # Idle /\ T(req'[s])
  <2> DEFINE Rows == {row.told : row \in {a \in audit' : a.session = v}}
             Requests == died' \cup ({req'[s] : s \in Slots} \ {Idle})
             Tellers == {q.told : q \in {p \in Requests :
                           p.session = v /\ p.pc \in {"stored", "committed"}}}
  <2>1. Done(v)' = Rows \cup Tellers
    BY Zenon DEF Done
  <2>2. t \in Rows <=> \E a \in audit' : a.session = v /\ a.told = t
    BY Zenon
  <2>3. t \in Tellers <=> \E p \in Requests : T(p)
    <3> HIDE DEF Requests
    <3> QED BY Zenon
  <2> HIDE DEF T, Rows, Tellers
  <2>4. (\E p \in Requests : T(p))
          <=> (\E p \in died' : T(p)) \/ \E s \in Slots : req'[s] # Idle /\ T(req'[s])
    BY Zenon
  <2> QED BY <2>1, <2>2, <2>3, <2>4
<1>3. \A s \in Slots : s # r => req'[s] = req[s]
  BY DEF Receive, Start, ReadSteps, Complete, StoreSteps, CompleteBySteps, Audit, Die, Carry, TypeOK
<1>4. Tells(req[r], v, t) <=> req[r] # Idle /\ T(req[r])
  BY DEF Tells
<1>5. Tells(req[r], v, t)' <=> req'[r] # Idle /\ T(req'[r])
  BY DEF Tells
<1>6. CASE Receive(r) \/ StoreSteps(r) \/ CompleteBySteps(r)
  <2>1. audit' = audit /\ died' = died
    BY <1>6 DEF Receive, Start, ReadSteps, Complete, StoreSteps, CompleteBySteps
  <2>2. req[r] # Idle /\ T(req[r]) => req'[r] # Idle /\ T(req'[r])
    <3>1. CASE Receive(r)
      BY <3>1 DEF Receive, Start, ReadSteps, Complete, Admitted
    <3>2. CASE StoreSteps(r)
      BY <3>2 DEF StoreSteps
    <3>3. CASE CompleteBySteps(r)
      BY <3>3, IdleHasNoStage DEF CompleteBySteps, Carry, TypeOK
    <3> QED BY <1>6, <3>1, <3>2, <3>3
  <2> HIDE DEF T
  <2> QED BY <1>1, <1>2, <1>3, <1>4, <1>5, <2>1, <2>2
<1>7. CASE Audit(r)
  <2>1. /\ req[r] # Idle /\ req[r].pc = "committed"
        /\ audit' = audit \cup {[session |-> req[r].session, told |-> req[r].told]}
        /\ req'[r] = Idle /\ died' = died
    BY <1>7, IdleHasNoStage DEF Audit, TypeOK
  <2>2. \A a : a = [session |-> req[r].session, told |-> req[r].told] =>
          ((a.session = v /\ a.told = t) <=> T(req[r]))
    BY <2>1
  <2> HIDE DEF T
  <2>3. (\E a \in audit' : a.session = v /\ a.told = t)
          <=> (\E a \in audit : a.session = v /\ a.told = t) \/ T(req[r])
    BY <2>1, <2>2
  <2>4. (\E s \in Slots : req[s] # Idle /\ T(req[s]))
          <=> T(req[r]) \/ (\E s \in Slots : req'[s] # Idle /\ T(req'[s]))
    BY <1>3, <2>1
  <2> QED BY <1>1, <1>2, <2>1, <2>3, <2>4
<1>8. CASE Die(r)
  <2>1. req[r] # Idle /\ audit' = audit /\ req'[r] = Idle /\ died' = died \cup {req[r]}
    BY <1>8 DEF Die, TypeOK
  <2> HIDE DEF T
  <2>2. (\E p \in died' : T(p)) <=> (\E p \in died : T(p)) \/ T(req[r])
    BY <2>1
  <2>3. (\E s \in Slots : req[s] # Idle /\ T(req[s]))
          <=> T(req[r]) \/ (\E s \in Slots : req'[s] # Idle /\ T(req'[s]))
    BY <1>3, <2>1
  <2> QED BY <1>1, <1>2, <2>1, <2>2, <2>3
<1> QED BY <1>6, <1>7, <1>8

\* Nothing that existed is started by a later step
LEMMA StartedBefore ==
  ASSUME TypeOK, Earned, NEW r \in Slots,
         Receive(r) \/ StoreSteps(r) \/ CompleteBySteps(r) \/ Audit(r) \/ Die(r),
         NEW v \in DOMAIN sessions, Started(v)'
  PROVE  Started(v)
<1> DEFINE t == [status |-> "started"]
<1>1. t \in Done(v) \/ (Tells(req[r], v, t)' /\ ~ Tells(req[r], v, t))
  BY DoneStep DEF Started
<1>2. \A s, answer : [step |-> s, answer |-> answer] # t
  <2>1. \A s, answer : DOMAIN [step |-> s, answer |-> answer] = {"step", "answer"}
    OBVIOUS
  <2>2. DOMAIN t = {"status"}
    OBVIOUS
  <2> HIDE DEF t
  <2> QED BY <2>1, <2>2
<1>3. \A outcome \in Outcomes : [status |-> outcome] # t
  <2>1. \A outcome : [status |-> outcome].status = outcome
    OBVIOUS
  <2> QED BY <2>1 DEF Outcomes
<1> HIDE DEF t
<1>4. ASSUME Tells(req[r], v, t)', ~ Tells(req[r], v, t) PROVE FALSE
  <2> USE DEF TypeOK
  <2>1. req'[r] # Idle /\ req'[r].session = v /\ req'[r].told = t /\ req'[r].pc \in {"stored", "committed"}
    BY <1>4 DEF Tells
  <2>2. CASE Receive(r)
    <3>1. PICK w \in Sessions, role \in Clients :
            \/ Start(r, w, role)
            \/ \E s \in Steps \cup {Other}, answer \in {"passed", "failed"} :
                 ReadSteps(r, w, role, s, answer)
            \/ \E status \in Outcomes : Complete(r, w, role, status)
      BY <2>2 DEF Receive
    <3>2. CASE Start(r, w, role)
      BY <3>2, <2>1 DEF Start, Carry
    <3>3. CASE \E s \in Steps \cup {Other}, answer \in {"passed", "failed"} :
                 ReadSteps(r, w, role, s, answer)
      BY <3>3, <2>1 DEF ReadSteps, Carry
    <3>4. CASE \E status \in Outcomes : Complete(r, w, role, status)
      BY <3>4, <2>1, <1>3 DEF Complete, Carry
    <3> QED BY <3>1, <3>2, <3>3, <3>4
  <2>3. CASE StoreSteps(r)
    <3>1. req[r].pc = "read" /\ req'[r].told = req[r].told
      BY <2>3 DEF StoreSteps, Carry
    <3>2. \E s, answer : req[r].told = [step |-> s, answer |-> answer]
      BY <3>1 DEF Earned, CopyEarned
    <3> QED BY <2>1, <3>1, <3>2, <1>2
  <2>4. CASE CompleteBySteps(r)
    BY <2>4, <2>1, <1>4, IdleHasNoStage DEF CompleteBySteps, Carry, Tells
  <2>5. CASE Audit(r) \/ Die(r)
    BY <2>5, <2>1 DEF Audit, Die
  <2> QED BY <2>2, <2>3, <2>4, <2>5
<1> QED BY <1>1, <1>4 DEF Started, t

\* What holds of a row or a copy nobody touched goes on to hold
LEMMA RestIsEarned ==
  ASSUME TypeOK, Earned, NEW r \in Slots,
         Receive(r) \/ StoreSteps(r) \/ CompleteBySteps(r) \/ Audit(r) \/ Die(r)
  PROVE  /\ \A v, s, answer : Holds(v, s, answer) => Holds(v, s, answer)'
         /\ \A v \in DOMAIN sessions :
              v \in DOMAIN sessions' /\ sessions'[v] = sessions[v] => RowEarned(v)'
         /\ \A s \in Slots \ {r} : CopyEarned(s)'
<1>1. \A v, t : t \in Done(v) => t \in Done(v)'
  BY DoneStep
<1>2. \A v \in DOMAIN sessions : Started(v)' => Started(v)
  BY StartedBefore
<1>3. \A v, s, answer : Holds(v, s, answer) => Holds(v, s, answer)'
  BY <1>1 DEF Holds
<1>4. ASSUME NEW v \in DOMAIN sessions, sessions'[v] = sessions[v] PROVE RowEarned(v)'
  <2>1. RowEarned(v)
    BY DEF Earned
  <2> QED BY <1>1, <1>2, <1>3, <1>4, <2>1 DEF RowEarned
<1>5. ASSUME NEW s \in Slots \ {r} PROVE CopyEarned(s)'
  <2>1. req'[s] = req[s]
    BY DEF Receive, Start, ReadSteps, Complete, StoreSteps, CompleteBySteps, Audit, Die, Carry, TypeOK
  <2>2. CopyEarned(s)
    BY DEF Earned
  <2>3. CASE req[s].pc \in {"read", "stored"}
    <3>1. PICK w \in DOMAIN sessions : w = req[s].session
      BY <2>3, IdleHasNoStage, CarriedType
    <3>2. Started(w)' => Started(w)
      BY <1>2
    <3> QED BY <2>1, <2>2, <1>3, <3>1, <3>2 DEF CopyEarned
  <2>4. CASE req[s].pc \notin {"read", "stored"}
    BY <2>1, <2>4 DEF CopyEarned
  <2> QED BY <2>3, <2>4
<1> QED BY <1>3, <1>4, <1>5

\* Copying the answers out, a request adds the one it brings
LEMMA ReceiveEarned ==
  ASSUME TypeOK, Earned, NEW r \in Slots, Receive(r)
  PROVE  Earned'
<1>1. PICK v \in Sessions, role \in Clients :
        \/ Start(r, v, role)
        \/ \E s \in Steps \cup {Other}, answer \in {"passed", "failed"} :
             ReadSteps(r, v, role, s, answer)
        \/ \E status \in Outcomes : Complete(r, v, role, status)
  BY DEF Receive
<1>2. CASE Start(r, v, role)
  <2>1. /\ sessions'[v] = NewRow /\ DOMAIN sessions' = DOMAIN sessions \cup {v}
        /\ \A w \in DOMAIN sessions : sessions'[w] = sessions[w]
    BY <1>2 DEF Start
  <2>2. RowEarned(v)'
    BY <2>1 DEF RowEarned, NewRow, NoAnswers
  <2>3. \A w \in DOMAIN sessions' : RowEarned(w)'
    BY <2>1, <2>2, RestIsEarned
  <2>4. CopyEarned(r)'
    BY <1>2 DEF Start, Carry, CopyEarned, TypeOK
  <2> QED BY <2>3, <2>4, RestIsEarned DEF Earned
<1>3. CASE \E s \in Steps \cup {Other}, answer \in {"passed", "failed"} :
             ReadSteps(r, v, role, s, answer)
  <2>1. PICK s \in Steps \cup {Other}, answer \in {"passed", "failed"} :
               ReadSteps(r, v, role, s, answer)
    BY <1>3
  <2>2. v \in DOMAIN sessions /\ sessions' = sessions
    BY <2>1 DEF ReadSteps
  <2>3. /\ req'[r].pc = "read" /\ req'[r].session = v
        /\ req'[r].told = [step |-> s, answer |-> answer]
        /\ req'[r].steps = WithAnswer(sessions[v].steps, s, answer)
    BY <2>1 DEF ReadSteps, Carry, TypeOK
  <2>4. Started(v)' => Started(v)
    BY <2>2, StartedBefore
  <2>5. Started(v) => \A t \in Steps : sessions[v].steps[t] = "absent" \/ Holds(v, t, sessions[v].steps[t])
    BY <2>2 DEF Earned, RowEarned
  <2>6. ASSUME Started(v)', NEW t \in Steps
        PROVE  \/ req'[r].steps[t] = "absent" \/ (t = s /\ req'[r].steps[t] = answer)
               \/ Holds(v, t, req[r].steps[t])'
    <3>1. CASE t = s
      BY <2>3, <3>1 DEF WithAnswer
    <3>2. CASE t # s
      <4>1. PICK a : a = sessions[v].steps[t]
        OBVIOUS
      <4>2. req'[r].steps[t] = a
        BY <2>3, <3>2, <4>1 DEF WithAnswer
      <4>3. a = "absent" \/ Holds(v, t, a)
        BY <2>4, <2>5, <2>6, <4>1
      <4>4. Holds(v, t, a) => Holds(v, t, a)'
        BY RestIsEarned
      <4> QED BY <4>2, <4>3, <4>4 DEF Holds
    <3> QED BY <3>1, <3>2
  <2>7. CopyEarned(r)'
    BY <2>3, <2>6 DEF CopyEarned, Holds
  <2> QED BY <2>2, <2>7, RestIsEarned DEF Earned
<1>4. CASE \E status \in Outcomes : Complete(r, v, role, status)
  <2>1. PICK status \in Outcomes : Complete(r, v, role, status)
    BY <1>4
  <2>2. /\ v \in DOMAIN sessions /\ DOMAIN sessions' = DOMAIN sessions
        /\ sessions'[v].status = status /\ sessions'[v].steps = sessions[v].steps
        /\ \A w \in DOMAIN sessions \ {v} : sessions'[w] = sessions[w]
    BY <2>1, RowTypes DEF Complete, TypeOK
  <2>3. /\ req'[r].pc = "committed" /\ req'[r].session = v /\ req'[r].told = [status |-> status]
        /\ req'[r] # Idle
    BY <2>1, IdleHasNoStage DEF Complete, Carry, TypeOK
  <2>4. [status |-> status] \in Done(v)'
    BY <2>3 DEF Done
  <2>5. Started(v)' => Started(v)
    BY <2>2, StartedBefore
  <2>6. Started(v) => \A t \in Steps : sessions[v].steps[t] = "absent" \/ Holds(v, t, sessions[v].steps[t])
    BY <2>2 DEF Earned, RowEarned
  <2>7. RowEarned(v)'
    BY <2>2, <2>4, <2>5, <2>6, RestIsEarned DEF RowEarned, Holds
  <2>8. CopyEarned(r)'
    BY <2>3 DEF CopyEarned
  <2> QED BY <2>2, <2>7, <2>8, RestIsEarned DEF Earned
<1> QED BY <1>1, <1>2, <1>3, <1>4

\* Writing the copy back: the answer it brings is now among what was told
LEMMA StoreStepsEarned ==
  ASSUME TypeOK, Earned, NEW r \in Slots, StoreSteps(r)
  PROVE  Earned'
<1>1. req[r] # Idle /\ req[r].pc = "read"
  BY IdleHasNoStage DEF StoreSteps
<1>2. PICK v \in DOMAIN sessions : v = req[r].session
  BY <1>1, CarriedType
<1>3. PICK steps \in [Steps -> Answers] : steps = req[r].steps
  BY <1>1, CarriedType
<1>4. PICK s \in Steps \cup {Other}, answer \in {"passed", "failed"} :
        /\ req[r].told = [step |-> s, answer |-> answer]
        /\ Started(v) => \A t \in Steps :
             \/ steps[t] = "absent" \/ (t = s /\ steps[t] = answer) \/ Holds(v, t, steps[t])
  BY <1>1, <1>2, <1>3 DEF Earned, CopyEarned
<1>5. /\ DOMAIN sessions' = DOMAIN sessions
      /\ sessions'[v].steps = steps /\ sessions'[v].status = sessions[v].status
      /\ \A w \in DOMAIN sessions \ {v} : sessions'[w] = sessions[w]
  BY <1>2, <1>3, RowTypes DEF StoreSteps, TypeOK
<1>6. req'[r].session = v /\ req'[r].told = [step |-> s, answer |-> answer] /\ req'[r] # Idle
  BY <1>2, <1>4, IdleHasNoStage DEF StoreSteps, Carry, TypeOK
<1>7. \/ req'[r].pc = "stored" /\ req'[r].steps = steps /\ AllDone(steps)
      \/ req'[r].pc = "committed"
  BY <1>3 DEF StoreSteps, Carry, TypeOK
<1>8. [step |-> s, answer |-> answer] \in Done(v)'
  BY <1>6, <1>7 DEF Done
<1>9. Started(v)' => Started(v)
  BY StartedBefore
<1>10. ASSUME Started(v)', NEW t \in Steps
       PROVE  steps[t] = "absent" \/ Holds(v, t, steps[t])'
  <2>1. CASE t = s /\ steps[t] = answer
    <3>1. Holds(v, t, answer)'
      BY <1>8, <2>1 DEF Holds
    <3> QED BY <2>1, <3>1
  <2>2. CASE Holds(v, t, steps[t])
    BY <2>2, RestIsEarned
  <2> QED BY <1>4, <1>9, <1>10, <2>1, <2>2
<1>11. RowEarned(v)'
  <2>1. RowEarned(v)
    BY DEF Earned
  <2>2. \A t \in Steps : Holds(v, t, "passed") => Holds(v, t, "passed")'
    BY RestIsEarned
  <2>3. [status |-> "passed"] \in Done(v) => [status |-> "passed"] \in Done(v)'
    BY DoneStep
  <2>4. ASSUME Started(v)', sessions'[v].status = "passed"
        PROVE  [status |-> "passed"] \in Done(v)' \/ \A t \in Steps : Holds(v, t, "passed")'
    BY <1>5, <1>9, <2>1, <2>2, <2>3, <2>4 DEF RowEarned
  <2>5. ASSUME Started(v)', NEW t \in Steps
        PROVE  sessions'[v].steps[t] = "absent" \/ Holds(v, t, sessions[v].steps[t])'
    <3>1. steps[t] = "absent" \/ Holds(v, t, steps[t])'
      BY <1>10, <2>5
    <3> QED BY <1>5, <3>1 DEF Holds
  <2> QED BY <2>4, <2>5 DEF RowEarned
<1>12. CopyEarned(r)'
  <2>1. CASE req'[r].pc = "stored" /\ req'[r].steps = steps /\ AllDone(steps)
    <3>1. ASSUME Started(v)', NEW t \in Steps PROVE Holds(v, t, req[r].steps[t])'
      <4>1. Holds(v, t, steps[t])'
        BY <1>10, <2>1, <3>1 DEF AllDone
      <4> QED BY <2>1, <4>1 DEF Holds
    <3> QED BY <1>6, <2>1, <3>1 DEF CopyEarned, AllDone, Holds
  <2>2. CASE req'[r].pc = "committed"
    BY <2>2 DEF CopyEarned
  <2> QED BY <1>7, <2>1, <2>2
<1> QED BY <1>5, <1>11, <1>12, RestIsEarned DEF Earned

\* Deciding the session by a complete copy without a failure: every answer of it was told
LEMMA CompleteByStepsEarned ==
  ASSUME TypeOK, Earned, NEW r \in Slots, CompleteBySteps(r)
  PROVE  Earned'
<1>1. req[r] # Idle /\ req[r].pc = "stored"
  BY IdleHasNoStage DEF CompleteBySteps
<1>2. PICK v \in DOMAIN sessions : v = req[r].session
  BY <1>1, CarriedType
<1>3. /\ DOMAIN sessions' = DOMAIN sessions
      /\ sessions'[v].steps = sessions[v].steps /\ sessions'[v].status = Verdict(req[r])
      /\ \A w \in DOMAIN sessions \ {v} : sessions'[w] = sessions[w]
  BY <1>2, RowTypes, VerdictType DEF CompleteBySteps, TypeOK, Outcomes
<1>4. Started(v)' => Started(v)
  BY StartedBefore
<1>5. ASSUME Started(v)', Verdict(req[r]) = "passed", NEW t \in Steps
      PROVE  Holds(v, t, "passed")'
  <2>1. Holds(v, t, req[r].steps[t])
    BY <1>1, <1>2, <1>4, <1>5 DEF Earned, CopyEarned
  <2>2. req[r].steps[t] = "passed"
    BY <1>5, <2>1 DEF Verdict, Holds
  <2>3. Holds(v, t, "passed")
    BY <2>1, <2>2
  <2> QED BY <2>3, RestIsEarned
<1>6. RowEarned(v)'
  <2>1. RowEarned(v)
    BY DEF Earned
  <2>2. ASSUME Started(v)', NEW t \in Steps
        PROVE  sessions'[v].steps[t] = "absent" \/ Holds(v, t, sessions[v].steps[t])'
    <3>1. PICK a : a = sessions[v].steps[t]
      OBVIOUS
    <3>2. a = "absent" \/ Holds(v, t, a)
      BY <1>4, <2>1, <2>2, <3>1 DEF RowEarned
    <3>3. Holds(v, t, a) => Holds(v, t, a)'
      BY RestIsEarned
    <3>4. sessions'[v].steps[t] = a
      BY <1>3, <3>1
    <3> QED BY <3>2, <3>3, <3>4 DEF Holds
  <2> QED BY <1>3, <1>5, <2>2 DEF RowEarned
<1>7. CopyEarned(r)'
  <2>1. req'[r].pc = "committed"
    BY DEF CompleteBySteps, Carry, TypeOK
  <2> QED BY <2>1 DEF CopyEarned
<1> QED BY <1>3, <1>6, <1>7, RestIsEarned DEF Earned

\* A step keeps the strengthening
LEMMA EarnedStep ==
  ASSUME TypeOK, Earned, [Next]_vars
  PROVE  Earned'
<1>1. CASE UNCHANGED vars
  <2>1. \A v : Done(v)' = Done(v)
    BY <1>1 DEF vars, Done
  <2>2. \A v, s, answer : Holds(v, s, answer) <=> Holds(v, s, answer)'
    BY <2>1 DEF Holds
  <2>3. \A v \in DOMAIN sessions : RowEarned(v) => RowEarned(v)'
    BY <1>1, <2>1, <2>2 DEF vars, RowEarned, Started
  <2>4. \A s \in Slots : CopyEarned(s) => CopyEarned(s)'
    BY <1>1, <2>1, <2>2 DEF vars, CopyEarned, Started
  <2> QED BY <1>1, <2>3, <2>4 DEF vars, Earned
<1>2. ASSUME NEW r \in Slots, Audit(r) \/ Die(r) PROVE Earned'
  <2>1. sessions' = sessions /\ req'[r] = Idle
    BY <1>2 DEF Audit, Die, TypeOK
  <2>2. CopyEarned(r)'
    BY <2>1, IdleHasNoStage DEF CopyEarned
  <2> QED BY <1>2, <2>1, <2>2, RestIsEarned DEF Earned
<1> QED BY <1>1, <1>2, ReceiveEarned, StoreStepsEarned, CompleteByStepsEarned DEF Next

\* A session is 'passed' only because somebody said so or every step was reported as passed, and
\* holds only answers that were reported, whatever copies overwrite each other and crash
THEOREM PassedIsAlwaysEarned == Spec => []PassedIsEarned
<1>1. Init => Earned
  <2> SUFFICES ASSUME Init PROVE Earned
    OBVIOUS
  <2>1. \A v : Done(v) = {}
    BY DEF Init, Done
  <2> QED BY <2>1, IdleHasNoStage DEF Init, Earned, RowEarned, CopyEarned, Started
<1>2. TypeOK /\ Earned /\ [Next]_vars => Earned'
  BY EarnedStep
<1>3. Earned => PassedIsEarned
  BY DEF Earned, RowEarned, Holds, PassedIsEarned
<1> QED BY <1>1, <1>2, <1>3, TypeCorrect, PTL DEF Spec

=============================================================================

------------------------- MODULE CaseReportsProofs --------------------------
(***************************************************************************)
(* Proofs about what readers see of the cases while requests write them:   *)
(* for any generated database, any staff, any number of cases and of       *)
(* requests in flight, any size of page and any number of writes meanwhile. *)
(***************************************************************************)
EXTENDS CaseReports, CaseTrailProofs

(* ----------------------- what a step does to cases -------------------- *)

\* No more than case c is written, by one transaction; its escalations with its status
OnlyChanged(c) ==
  /\ DOMAIN cases \subseteq DOMAIN cases' /\ DOMAIN cases' \subseteq DOMAIN cases \cup {c}
  /\ \A d \in DOMAIN cases : d # c => cases'[d] = cases[d]
  /\ \A d \in Cases : d # c => escalations'[d] = escalations[d]
  /\ c \in Cases => \/ escalations'[c] = escalations[c]
                    \/ c \in DOMAIN cases' /\ cases'[c].status = "escalated"

\* Every step of the workflow writes one case at most
LEMMA OneCaseChanges ==
  ASSUME TypeOK, Next
  PROVE  \E c : OnlyChanged(c)
<1>1. ASSUME UNCHANGED <<cases, escalations>>
      PROVE  OnlyChanged(Null)
  BY <1>1 DEF OnlyChanged
<1>2. ASSUME NEW r \in Slots, NEW u \in Users, NEW c \in Cases, NEW i \in Investors \cup {Null},
             NEW p \in Priorities, Create(r, u, c, i, p)
      PROVE  OnlyChanged(c)
  <2>1. /\ c \notin DOMAIN cases /\ escalations' = escalations
        /\ cases' = [d \in DOMAIN cases \cup {c} |-> IF d = c THEN NewRow(u, i, p) ELSE cases[d]]
    BY <1>2 DEF Create
  <2>2. QED BY <2>1 DEF OnlyChanged
<1>3. ASSUME NEW c, NEW row, cases' = [cases EXCEPT ![c] = row], escalations' = escalations
      PROVE  OnlyChanged(c)
  <2>1. cases \in [DOMAIN cases -> CaseRow]
    BY DEF TypeOK
  <2>2. QED BY <1>3, <2>1 DEF OnlyChanged
<1>4. ASSUME NEW r \in Slots, NEW t \in 0 .. clock, NEW to \in Users, EscalateWrite(r, t, to)
      PROVE  OnlyChanged(req[r].case)
  <2> DEFINE c == req[r].case
  <2>1. c \in Cases /\ c \in DOMAIN cases
    BY <1>4, InFlightType DEF EscalateWrite
  <2>2. /\ cases' = [cases EXCEPT ![c] = [cases[c] EXCEPT !.status = "escalated"]]
        /\ \E x : escalations' = [escalations EXCEPT ![c] = x]
    BY <1>4 DEF EscalateWrite
  <2>3. cases \in [DOMAIN cases -> CaseRow] /\ escalations \in [Cases -> Seq(Escalation)]
    BY DEF TypeOK
  <2>4. cases[c] \in CaseRow
    BY <2>1, <2>3
  <2>5. cases'[c].status = "escalated"
    BY <2>1, <2>2, <2>4 DEF CaseRow
  <2>6. /\ DOMAIN cases' = DOMAIN cases
        /\ \A d \in DOMAIN cases : d # c => cases'[d] = cases[d]
        /\ \A d \in Cases : d # c => escalations'[d] = escalations[d]
    BY <2>2, <2>3
  <2> HIDE DEF c
  <2>7. OnlyChanged(c)
    BY <2>1, <2>5, <2>6 DEF OnlyChanged
  <2>8. QED BY <2>7 DEF c
<1>5. ASSUME NEW r \in Slots, UpdateWrite(r) PROVE \E c : OnlyChanged(c)
  BY <1>3, <1>5 DEF UpdateWrite
<1>6. ASSUME NEW r \in Slots, ReassignWrite(r) PROVE \E c : OnlyChanged(c)
  <2>1. cases' = [cases EXCEPT ![req[r].case] = [cases[req[r].case] EXCEPT !.owner = req[r].target]]
    BY <1>6 DEF ReassignWrite
  <2>2. QED BY <1>3, <1>6, <2>1 DEF ReassignWrite
<1>7. ASSUME NEW r \in Slots, LinkWrite(r) PROVE \E c : OnlyChanged(c)
  <2>1. CASE req[r].case \in DOMAIN cases
    <3>1. cases' = [cases EXCEPT ![req[r].case] = [cases[req[r].case] EXCEPT !.verification = req[r].target]]
      BY <1>7, <2>1 DEF LinkWrite
    <3>2. QED BY <1>3, <1>7, <3>1 DEF LinkWrite
  <2>2. CASE req[r].case \notin DOMAIN cases
    BY <1>1, <1>7, <2>2 DEF LinkWrite
  <2>3. QED BY <2>1, <2>2
<1>8. ASSUME NEW r \in Slots, Receive(r) PROVE \E c : OnlyChanged(c)
  BY <1>1, <1>2, <1>8 DEF Receive, UpdateCheck, ReassignCheck, EscalateCheck, NoteCheck, LinkSelect, tables
<1>9. ASSUME NEW r \in Slots, Serve(r) \/ Abort(r) PROVE \E c : OnlyChanged(c)
  BY <1>1, <1>4, <1>5, <1>6, <1>7, <1>9 DEF Serve, UpdateSelect, ReassignSelect, NoteWrite, Audit, Abort, tables
<1>10. CASE Verify \/ Tick
  BY <1>1, <1>10 DEF Verify, StartVerification, CompleteVerification, Tick, tables
<1>11. QED BY <1>8, <1>9, <1>10 DEF Next

\* What the history of a case tells it goes on telling
LEMMA HistoryRemembers ==
  ASSUME TrailInv, Next, NEW d \in Cases, NEW s, Reached(history[d], s)
  PROVE  Reached(history'[d], s)
<1>0. TypeOK /\ history \in [Cases -> Seq(Entry)] /\ \A c \in Cases : OldReal(history[c]) /\ PickUpsOnly(history[c])
  BY DEF TrailInv, TypeOK
<1>1. ASSUME UNCHANGED history PROVE Reached(history'[d], s)
  BY <1>1
<1>2. ASSUME NEW c \in Cases, NEW h, history' = [history EXCEPT ![c] = h],
             \A x : Reached(history[c], x) => Reached(h, x)
      PROVE  Reached(history'[d], s)
  BY <1>0, <1>2
<1>3. ASSUME NEW r \in Slots, UpdateWrite(r) PROVE Reached(history'[d], s)
  <2> DEFINE q == req[r]
             h == UpdatedHistory(history[q.case], q.old, q.body, q.user, q.now)
  <2>1. q \in InFlight("selected", {"update"}, Body, {Null}, CaseRow) /\ q.case \in Cases
    BY <1>0, <1>3, InFlightType DEF UpdateWrite
  <2>2. q.old \in CaseRow /\ q.body \in Body /\ q.user \in Users /\ q.now \in Nat
    BY <2>1 DEF InFlight
  <2>3. Reached(history[q.case], q.old.status)
    BY <1>3 DEF TrailInv, RequestFits, UpdateWrite
  <2>4. history' = [history EXCEPT ![q.case] = h]
    BY <1>3 DEF UpdateWrite
  <2> HIDE DEF q
  <2>5. \A x : Reached(history[q.case], x) => Reached(h, x)
    BY <1>0, <2>1, <2>2, <2>3, UpdateTrail
  <2> HIDE DEF h
  <2>6. QED BY <1>2, <2>1, <2>4, <2>5
<1>4. ASSUME NEW r \in Slots, ReassignWrite(r) PROVE Reached(history'[d], s)
  <2> DEFINE q == req[r]
             e == [field |-> "owner", old |-> q.old.owner, new |-> q.target, by |-> q.user, at |-> q.now]
  <2>1. q.case \in Cases
    BY <1>0, <1>4, InFlightType DEF ReassignWrite
  <2>2. history' = [history EXCEPT ![q.case] = Append(history[q.case], e)]
    BY <1>4 DEF ReassignWrite, Log
  <2> HIDE DEF q, e
  <2>3. \A x : Reached(history[q.case], x) => Reached(Append(history[q.case], e), x)
    BY <1>0, <2>1, AppendReached
  <2>4. QED BY <1>2, <2>1, <2>2, <2>3
<1>5. ASSUME NEW r \in Slots, NEW t \in 0 .. clock, NEW to \in Users, EscalateWrite(r, t, to)
      PROVE  Reached(history'[d], s)
  <2> DEFINE q == req[r]
             e == [field |-> "status", old |-> cases[q.case].status, new |-> "escalated", by |-> q.user, at |-> t]
  <2>1. q.case \in Cases
    BY <1>0, <1>5, InFlightType DEF EscalateWrite
  <2>2. history' = [history EXCEPT ![q.case] = Append(history[q.case], e)]
    BY <1>5 DEF EscalateWrite, EscalatedHistory, Log
  <2> HIDE DEF q, e
  <2>3. \A x : Reached(history[q.case], x) => Reached(Append(history[q.case], e), x)
    BY <1>0, <2>1, AppendReached
  <2>4. QED BY <1>2, <2>1, <2>2, <2>3
<1>6. ASSUME NEW r \in Slots, Receive(r) PROVE Reached(history'[d], s)
  BY <1>1, <1>6 DEF Receive, Create, UpdateCheck, ReassignCheck, EscalateCheck, NoteCheck, LinkSelect, tables
<1>7. ASSUME NEW r \in Slots, Serve(r) \/ Abort(r) PROVE Reached(history'[d], s)
  BY <1>1, <1>3, <1>4, <1>5, <1>7
     DEF Serve, UpdateSelect, ReassignSelect, NoteWrite, LinkWrite, Audit, Abort, tables
<1>8. CASE Verify \/ Tick
  BY <1>1, <1>8 DEF Verify, StartVerification, CompleteVerification, Tick, tables
<1>9. QED BY <1>6, <1>7, <1>8 DEF Next

(* ------------------------ a generated database ------------------------ *)

\* The generator's chains begin with open and go through statuses
LEMMA ChainType ==
  ASSUME NEW chain \in Chains
  PROVE  /\ chain \in Seq(Statuses) /\ Len(chain) \in Nat /\ Len(chain) >= 1
         /\ chain[1] = "open" /\ StatusOf(chain) \in Statuses
<1>1. ASSUME NEW s \in Seq(Statuses), Len(s) >= 1, s[1] = "open"
      PROVE  s \in Seq(Statuses) /\ Len(s) \in Nat /\ Len(s) >= 1 /\ s[1] = "open" /\ StatusOf(s) \in Statuses
  BY <1>1 DEF StatusOf
<1>2. ASSUME NEW status \in Statuses
      PROVE  /\ DirectChain[status] \in Seq(Statuses) /\ Len(DirectChain[status]) >= 1
             /\ DirectChain[status][1] = "open"
  <2>1. CASE status = "open"
    BY <2>1 DEF DirectChain, Statuses
  <2>2. CASE status = "in_progress"
    BY <2>2 DEF DirectChain, Statuses
  <2>3. CASE status = "pending_customer"
    BY <2>3 DEF DirectChain, Statuses
  <2>4. CASE status = "escalated"
    BY <2>4 DEF DirectChain, Statuses
  <2>5. CASE status = "resolved"
    BY <2>5 DEF DirectChain, Statuses
  <2>6. CASE status = "closed"
    BY <2>6 DEF DirectChain, Statuses
  <2>7. QED BY <2>1, <2>2, <2>3, <2>4, <2>5, <2>6 DEF Statuses
<1>3. ASSUME NEW status \in DoneStatuses
      PROVE  /\ ChainViaEscalation[status] \in Seq(Statuses) /\ Len(ChainViaEscalation[status]) >= 1
             /\ ChainViaEscalation[status][1] = "open"
  <2>1. CASE status = "resolved"
    BY <2>1 DEF ChainViaEscalation, Statuses
  <2>2. CASE status = "closed"
    BY <2>2 DEF ChainViaEscalation, Statuses
  <2>3. QED BY <2>1, <2>2 DEF DoneStatuses
<1>4. CASE \E status \in Statuses : chain = DirectChain[status]
  BY <1>1, <1>2, <1>4
<1>5. CASE \E status \in DoneStatuses : chain = ChainViaEscalation[status]
  BY <1>1, <1>3, <1>5
<1>6. QED BY <1>4, <1>5 DEF Chains

\* What random() decides of a case
LEMMA DrawType ==
  ASSUME NEW x \in Draws
  PROVE  /\ x.chain \in Chains /\ x.agent \in Users /\ x.senior \in Users /\ x.lead \in Users
         /\ RoleOf[x.agent] = "agent" /\ x.investor \in Investors /\ x.session \in Sessions \cup {Null}
         /\ x.priority \in Priorities /\ x.oldPriority \in Priorities \cup {Null}
         /\ x.code \in Codes /\ x.pause \in Nat
BY PausesAssumption DEF Draws, Seniors, Supervisors

\* A generated case has a row and an escalation of their types
LEMMA SeededRowType ==
  ASSUME NEW x \in Draws
  PROVE  /\ SeededRow(x) \in CaseRow /\ SeededRow(x).status = StatusOf(x.chain)
         /\ SeededEscalations(x) \in Seq(Escalation) /\ SeededNotes(x) \in Seq(Users)
<1> DEFINE status == StatusOf(x.chain)
           done == status \in DoneStatuses
           owner == IF WasEscalated(x.chain) /\ done THEN x.senior ELSE x.agent
           code == IF done THEN x.code ELSE Null
           first == IF status = "open" THEN Null ELSE 0
           resolved == IF done THEN 0 ELSE Null
           closed == IF status = "closed" THEN 0 ELSE Null
           secs == IF status \in {"open", "pending_customer"} THEN 0 ELSE x.pause
<1>1. /\ x.chain \in Chains /\ x.agent \in Users /\ x.senior \in Users
      /\ x.investor \in Investors /\ x.session \in Sessions \cup {Null}
      /\ x.priority \in Priorities /\ x.code \in Codes /\ x.pause \in Nat
  BY DrawType
<1>2. status \in Statuses
  BY <1>1, ChainType
<1>3. /\ owner \in Users /\ code \in Codes \cup {Null} /\ first \in Time /\ resolved \in Time /\ closed \in Time
      /\ Null \in Time /\ secs \in Int
  BY <1>1 DEF Time
<1>4. SeededRow(x) =
        [status |-> status, owner |-> owner, investor |-> x.investor, priority |-> x.priority,
         policy |-> x.priority, code |-> code, verification |-> x.session, createdAt |-> 0,
         firstResponse |-> first, resolvedAt |-> resolved, closedAt |-> closed,
         pendingSince |-> Null, pendingSecs |-> secs]
  BY DEF SeededRow
<1>5. SeededEscalations(x) \in Seq(Escalation) /\ SeededNotes(x) \in Seq(Users)
  <2>1. [from |-> x.agent, to |-> x.senior, at |-> 0] \in Escalation
    BY <1>1 DEF Escalation
  <2>2. QED BY <1>1, <2>1 DEF SeededEscalations, SeededNotes
<1> HIDE DEF status, owner, code, first, resolved, closed, secs
<1>6. SeededRow(x) \in CaseRow /\ SeededRow(x).status = status
  BY <1>1, <1>2, <1>3, <1>4 DEF CaseRow
<1>7. QED BY <1>5, <1>6 DEF status

\* The history of a generated case: an entry for each link of its chain, then perhaps one about
\* the priority
LEMMA SeededHistoryIs ==
  ASSUME NEW x \in Draws
  PROVE  LET h == SeededHistory(x)
             n == Len(x.chain) - 1
         IN  /\ h \in Seq(Entry) /\ n \in Nat /\ Len(h) >= n
             /\ \A i \in 1 .. n : h[i].field = "status" /\ h[i].old = x.chain[i] /\ h[i].new = x.chain[i + 1]
             /\ \A i \in 1 .. Len(h) : i > n => h[i].field = "priority" /\ h[i].new = x.priority
<1> DEFINE n == Len(x.chain) - 1
           by(i) == IF x.chain[i + 1] = "escalated" /\ x.byLead THEN x.lead ELSE x.agent
           link(i) == [field |-> "status", old |-> x.chain[i], new |-> x.chain[i + 1], by |-> by(i), at |-> 0]
           links == [i \in 1 .. n |-> link(i)]
           last == [field |-> "priority", old |-> x.oldPriority, new |-> x.priority, by |-> x.lead, at |-> 0]
           tail == IF x.oldPriority = Null THEN <<>> ELSE <<last>>
<1>1. /\ x.chain \in Chains /\ x.agent \in Users /\ x.lead \in Users
      /\ x.priority \in Priorities /\ x.oldPriority \in Priorities \cup {Null}
  BY DrawType
<1>2. x.chain \in Seq(Statuses) /\ Len(x.chain) \in Nat /\ Len(x.chain) >= 1
  BY <1>1, ChainType
<1>3. n \in Nat
  BY <1>2
<1>4. ASSUME NEW i \in 1 .. n
      PROVE  link(i) \in Entry
  <2>1. i \in 1 .. Len(x.chain) /\ i + 1 \in 1 .. Len(x.chain)
    BY <1>2
  <2>2. x.chain[i] \in Statuses /\ x.chain[i + 1] \in Statuses
    BY <1>2, <2>1
  <2>3. by(i) \in Users
    BY <1>1
  <2> HIDE DEF by
  <2>4. QED BY <2>2, <2>3 DEF Entry
<1>5. links \in Seq(Entry) /\ Len(links) = n /\ \A i \in 1 .. n : links[i] = link(i)
  <2> HIDE DEF link, n
  <2>1. links \in [1 .. n -> Entry]
    BY <1>4
  <2>2. QED BY <1>3, <2>1
<1>6. SeededHistory(x) = links \o tail
  BY DEF SeededHistory
<1>7. tail \in Seq(Entry) /\ \A i \in 1 .. Len(tail) : tail[i].field = "priority" /\ tail[i].new = x.priority
  <2>1. CASE x.oldPriority = Null
    BY <2>1
  <2>2. CASE x.oldPriority # Null
    <3>1. last \in Entry /\ last.field = "priority" /\ last.new = x.priority
      BY <1>1, <2>2 DEF Entry
    <3>2. tail = <<last>>
      BY <2>2
    <3> HIDE DEF last, tail
    <3>3. QED BY <3>1, <3>2
  <2>3. QED BY <2>1, <2>2
<1>8. \A i \in 1 .. n : /\ link(i).field = "status" /\ link(i).old = x.chain[i] /\ link(i).new = x.chain[i + 1]
  OBVIOUS
<1> DEFINE h == links \o tail
<1> HIDE DEF links, tail, link, n
<1>9. /\ h \in Seq(Entry) /\ Len(h) = n + Len(tail) /\ Len(tail) \in Nat
      /\ \A i \in 1 .. n : h[i] = links[i]
      /\ \A i \in 1 .. Len(h) : i > n => h[i] = tail[i - n]
  BY <1>3, <1>5, <1>7
<1>10. \A i \in 1 .. Len(h) : i > n => h[i].field = "priority" /\ h[i].new = x.priority
  <2> SUFFICES ASSUME NEW i \in 1 .. Len(h), i > n PROVE h[i].field = "priority" /\ h[i].new = x.priority
    OBVIOUS
  <2>1. i - n \in 1 .. Len(tail)
    BY <1>3, <1>9
  <2>2. QED BY <1>7, <1>9, <2>1
<1>11. Len(h) >= n
  BY <1>3, <1>9
<1>12. \A i \in 1 .. n : h[i].field = "status" /\ h[i].old = x.chain[i] /\ h[i].new = x.chain[i + 1]
  BY <1>5, <1>8, <1>9
<1> HIDE DEF h
<1>13. SeededHistory(x) = h
  BY <1>6 DEF h
<1>14. QED BY <1>3, <1>9, <1>10, <1>11, <1>12, <1>13 DEF n

\* What the generator writes into case_history is as real as what the service does: the old
\* statuses were there, and the last one is that of the row
LEMMA SeededTrail ==
  ASSUME NEW x \in Draws
  PROVE  /\ SeededHistory(x) \in Seq(Entry)
         /\ OldReal(SeededHistory(x)) /\ PickUpsOnly(SeededHistory(x))
         /\ Reached(SeededHistory(x), StatusOf(x.chain))
<1> DEFINE h == SeededHistory(x)
           n == Len(x.chain) - 1
<1>1. /\ h \in Seq(Entry) /\ n \in Nat /\ Len(h) >= n
      /\ \A i \in 1 .. n : h[i].field = "status" /\ h[i].old = x.chain[i] /\ h[i].new = x.chain[i + 1]
      /\ \A i \in 1 .. Len(h) : i > n => h[i].field = "priority"
  BY SeededHistoryIs
<1>2. x.chain \in Seq(Statuses) /\ Len(x.chain) = n + 1 /\ x.chain[1] = "open" /\ StatusOf(x.chain) = x.chain[n + 1]
  <2>1. x.chain \in Chains
    BY DrawType
  <2>2. QED BY <1>1, <2>1, ChainType DEF StatusOf
<1> HIDE DEF h, n
<1>3. OldReal(h)
  <2> SUFFICES ASSUME NEW i \in 1 .. Len(h), h[i].field = "status"
               PROVE  h[i].old = "open" \/ \E j \in 1 .. (i - 1) : h[j].field = "status" /\ h[j].new = h[i].old
    BY DEF OldReal
  <2>1. i \in 1 .. n /\ h[i].old = x.chain[i]
    BY <1>1
  <2>2. CASE i = 1
    BY <1>2, <2>1, <2>2
  <2>3. CASE i # 1
    <3> DEFINE j == i - 1
    <3>1. j \in 1 .. n /\ j \in 1 .. (i - 1) /\ j + 1 = i
      BY <1>1, <2>1, <2>3
    <3> HIDE DEF j
    <3>2. h[j].field = "status" /\ h[j].new = x.chain[i]
      BY <1>1, <3>1
    <3>3. QED BY <2>1, <3>1, <3>2
  <2>4. QED BY <2>2, <2>3
<1>4. PickUpsOnly(h)
  <2>1. \A i \in 1 .. Len(h) : h[i].field # "owner"
    BY <1>1
  <2>2. QED BY <2>1 DEF PickUpsOnly
<1>5. Reached(h, StatusOf(x.chain))
  <2>1. CASE n = 0
    BY <1>2, <2>1 DEF Reached
  <2>2. CASE n # 0
    <3>1. n \in 1 .. n /\ n \in 1 .. Len(h)
      BY <1>1, <2>2
    <3>2. h[n].field = "status" /\ h[n].new = x.chain[n + 1]
      BY <1>1, <3>1
    <3>3. QED BY <1>2, <3>1, <3>2 DEF Reached
  <2>3. QED BY <2>1, <2>2
<1>6. QED BY <1>1, <1>3, <1>4, <1>5 DEF h

\* A generated database is one the workflow could have written, as far as types and histories go
LEMMA SeededIsTyped == SeededInit => TrailInv /\ IsFiniteSet(DOMAIN cases)
<1> SUFFICES ASSUME SeededInit PROVE TrailInv /\ IsFiniteSet(DOMAIN cases)
  OBVIOUS
<1>1. PICK seed \in [Seeds -> {SeededCase(x) : x \in Draws}] :
        /\ cases = [c \in Seeds |-> seed[c].row]
        /\ history = [c \in Cases |-> IF c \in Seeds THEN seed[c].history ELSE <<>>]
        /\ escalations = [c \in Cases |-> IF c \in Seeds THEN seed[c].escalations ELSE <<>>]
        /\ notes = [c \in Cases |-> IF c \in Seeds THEN seed[c].notes ELSE <<>>]
  BY DEF SeededInit
<1>2. ASSUME NEW c \in Seeds
      PROVE  /\ seed[c].row \in CaseRow /\ seed[c].history \in Seq(Entry)
             /\ seed[c].escalations \in Seq(Escalation) /\ seed[c].notes \in Seq(Users)
             /\ OldReal(seed[c].history) /\ PickUpsOnly(seed[c].history)
             /\ Reached(seed[c].history, seed[c].row.status)
  <2>1. PICK x \in Draws : seed[c] = SeededCase(x)
    OBVIOUS
  <2>2. /\ seed[c].row = SeededRow(x) /\ seed[c].history = SeededHistory(x)
        /\ seed[c].escalations = SeededEscalations(x) /\ seed[c].notes = SeededNotes(x)
    BY <2>1 DEF SeededCase
  <2>3. QED BY <2>2, SeededRowType, SeededTrail
<1>3. OldReal(<<>>) /\ PickUpsOnly(<<>>)
  BY DEF OldReal, PickUpsOnly
<1>4. Seeds \subseteq Cases /\ DOMAIN cases = Seeds /\ IsFiniteSet(Seeds)
  BY <1>1, SeedsAssumption
<1>5. clock \in Nat /\ req = [r \in Slots |-> Idle] /\ audit \in [Cases -> [AllEndpoints -> Nat]]
  BY DEF SeededInit
<1>6. sessions \in [DOMAIN sessions -> Session] /\ DOMAIN sessions \subseteq Sessions
  BY SeedAssumption DEF SeededInit, SeededSession, Session, Time
<1>7. cases \in [DOMAIN cases -> CaseRow]
  BY <1>1, <1>2
<1>8. /\ history \in [Cases -> Seq(Entry)] /\ escalations \in [Cases -> Seq(Escalation)]
      /\ notes \in [Cases -> Seq(Users)]
  <2>1. history \in [Cases -> Seq(Entry)]
    BY <1>1, <1>2
  <2>2. escalations \in [Cases -> Seq(Escalation)]
    BY <1>1, <1>2
  <2>3. notes \in [Cases -> Seq(Users)]
    BY <1>1, <1>2
  <2>4. QED BY <2>1, <2>2, <2>3
<1>9. req \in [Slots -> Request] /\ \A r \in Slots : req[r].pc = "idle"
  BY <1>5 DEF Request, Idle
<1>10. TypeOK
  BY <1>4, <1>5, <1>6, <1>7, <1>8, <1>9 DEF TypeOK
<1>11. \A c \in Cases : OldReal(history[c]) /\ PickUpsOnly(history[c])
  BY <1>1, <1>2, <1>3
<1>12. \A c \in DOMAIN cases : Reached(history[c], cases[c].status)
  <2> SUFFICES ASSUME NEW c \in Seeds PROVE Reached(history[c], cases[c].status)
    BY <1>4
  <2>1. history[c] = seed[c].history /\ cases[c] = seed[c].row
    BY <1>1, <1>4
  <2>2. QED BY <1>2, <2>1
<1>13. \A r \in Slots : RequestFits(req[r])
  BY <1>9 DEF RequestFits
<1>14. QED BY <1>4, <1>10, <1>11, <1>12, <1>13 DEF TrailInv

\* The generator's last entries about status and priority hold what the row does
LEMMA SeededAgrees ==
  ASSUME NEW x \in Draws
  PROVE  AgreesWith(SeededHistory(x), SeededRow(x))
<1> DEFINE h == SeededHistory(x)
           n == Len(x.chain) - 1
           row == SeededRow(x)
<1>1. /\ n \in Nat /\ Len(h) >= n /\ Len(h) \in Nat
      /\ \A i \in 1 .. n : h[i].field = "status" /\ h[i].new = x.chain[i + 1]
      /\ \A i \in 1 .. Len(h) : i > n => h[i].field = "priority" /\ h[i].new = x.priority
  BY SeededHistoryIs
<1>2. row.status = x.chain[n + 1] /\ row.priority = x.priority
  <2>1. x.chain \in Seq(Statuses)
    BY DrawType, ChainType
  <2>2. QED BY <1>1, <2>1 DEF SeededRow, StatusOf
<1> HIDE DEF h, n, row
<1>3. ASSUME NEW i \in 1 .. Len(h), LastEntry(h, i)
      PROVE  h[i].new = row[h[i].field]
  <2>1. CASE i > n
    <3>1. h[i].field = "priority" /\ h[i].new = x.priority
      BY <1>1, <2>1
    <3>2. QED BY <1>2, <3>1
  <2>2. CASE i = n
    <3>1. h[i].field = "status" /\ h[i].new = x.chain[n + 1]
      BY <1>1, <2>2
    <3>2. QED BY <1>2, <3>1
  <2>3. CASE i < n
    <3>1. n \in (i + 1) .. Len(h) /\ h[n].field = "status" /\ h[i].field = "status"
      BY <1>1, <2>3
    <3>2. QED BY <1>3, <3>1 DEF LastEntry
  <2>4. QED BY <1>1, <2>1, <2>2, <2>3
<1>4. QED BY <1>3 DEF AgreesWith, h, row

\* Histories agree with their rows in a generated database, too
LEMMA SeededHistories == SeededInit => HistoryInv
<1> SUFFICES ASSUME SeededInit PROVE HistoryInv
  OBVIOUS
<1>1. PICK seed \in [Seeds -> {SeededCase(x) : x \in Draws}] :
        /\ cases = [c \in Seeds |-> seed[c].row]
        /\ history = [c \in Cases |-> IF c \in Seeds THEN seed[c].history ELSE <<>>]
  BY DEF SeededInit
<1>2. ASSUME NEW c \in Seeds PROVE AgreesWith(history[c], cases[c])
  <2>1. PICK x \in Draws : seed[c] = SeededCase(x)
    OBVIOUS
  <2>2. seed[c].row = SeededRow(x) /\ seed[c].history = SeededHistory(x)
    BY <2>1 DEF SeededCase
  <2>3. history[c] = seed[c].history /\ cases[c] = seed[c].row
    BY <1>1, SeedsAssumption
  <2>4. QED BY <2>2, <2>3, SeededAgrees
<1>3. TypeOK
  BY SeededIsTyped DEF TrailInv
<1>4. QED BY <1>1, <1>2, <1>3 DEF HistoryInv, HistoryAgrees

(* ------------------------------- counting ----------------------------- *)

\* A set that has one element more than another at most is larger by one at most
LEMMA GrownByOne ==
  ASSUME NEW A, NEW B, NEW c, IsFiniteSet(B), A \subseteq B \cup {c}
  PROVE  /\ IsFiniteSet(A) /\ Cardinality(A) \in Nat /\ Cardinality(B) \in Nat
         /\ Cardinality(A) <= Cardinality(B) + 1
<1> DEFINE D == B \cup {c}
<1>1. IsFiniteSet(D) /\ Cardinality(D) <= Cardinality(B) + 1
  <2>1. Cardinality(B) \in Nat
    BY FS_CardinalityType
  <2>2. QED BY <2>1, FS_AddElement
<1>2. A \in SUBSET D
  OBVIOUS
<1> HIDE DEF D
<1>3. IsFiniteSet(A) /\ Cardinality(A) <= Cardinality(D)
  BY <1>1, <1>2, FS_Subset
<1>4. Cardinality(A) \in Nat /\ Cardinality(B) \in Nat /\ Cardinality(D) \in Nat
  BY <1>1, <1>3, FS_CardinalityType
<1>5. QED BY <1>1, <1>3, <1>4

\* Two sets that differ in one element at most differ by one at most in size
LEMMA OneApart ==
  ASSUME NEW A, NEW B, NEW c, IsFiniteSet(A), A \subseteq B \cup {c}, B \subseteq A \cup {c}
  PROVE  /\ IsFiniteSet(B) /\ Cardinality(A) \in Nat /\ Cardinality(B) \in Nat
         /\ Cardinality(A) <= Cardinality(B) + 1 /\ Cardinality(B) <= Cardinality(A) + 1
         /\ A \subseteq B => Cardinality(A) <= Cardinality(B)
<1>1. /\ IsFiniteSet(B) /\ Cardinality(B) \in Nat /\ Cardinality(A) \in Nat
      /\ Cardinality(B) <= Cardinality(A) + 1
  BY GrownByOne
<1>2. Cardinality(A) <= Cardinality(B) + 1
  BY <1>1, GrownByOne
<1>3. A \subseteq B => Cardinality(A) <= Cardinality(B)
  BY <1>1, FS_Subset
<1>4. QED BY <1>1, <1>2, <1>3

\* Sets without a common element count together what their union counts
LEMMA CountTogether ==
  ASSUME NEW A, NEW B, IsFiniteSet(A), IsFiniteSet(B), A \cap B = {}
  PROVE  /\ IsFiniteSet(A \cup B)
         /\ Cardinality(A) \in Nat /\ Cardinality(B) \in Nat /\ Cardinality(A \cup B) \in Nat
         /\ Cardinality(A \cup B) = Cardinality(A) + Cardinality(B)
<1>1. Cardinality(A) \in Nat /\ Cardinality(B) \in Nat
  BY FS_CardinalityType
<1>2. /\ IsFiniteSet(A \cup B)
      /\ Cardinality(A \cup B) = Cardinality(A) + Cardinality(B) - Cardinality(A \cap B)
  BY FS_Union
<1>3. Cardinality(A \cap B) = 0
  BY FS_EmptySet
<1>4. QED BY <1>1, <1>2, <1>3

(* ------------------------------- figures ------------------------------ *)

\* The cases the three counts of a report are about
Solved == {c \in DOMAIN cases : cases[c].status \in DoneStatuses}
SolvedAtOnce == {c \in DOMAIN cases : cases[c].status \in DoneStatuses /\ escalations[c] = <<>>}
OnceEscalated == {c \in DOMAIN cases : escalations[c] # <<>>}

\* The counts the statements return are numbers of cases, and cases solved at first contact
\* and cases with an escalation are different cases
LEMMA CountsFit ==
  ASSUME IsFiniteSet(DOMAIN cases)
  PROVE  /\ Population \in Nat /\ FirstContact \in Nat /\ EscalatedCases \in Nat
         /\ Among(DOMAIN cases, DoneStatuses) \in Nat
         /\ Among(DOMAIN cases, DoneStatuses) <= Population
         /\ FirstContact + EscalatedCases <= Population
<1>1. /\ Population = Cardinality(DOMAIN cases) /\ FirstContact = Cardinality(SolvedAtOnce)
      /\ EscalatedCases = Cardinality(OnceEscalated)
      /\ Among(DOMAIN cases, DoneStatuses) = Cardinality(Solved)
  BY DEF Population, FirstContact, EscalatedCases, Among, Solved, SolvedAtOnce, OnceEscalated
<1>2. Solved \in SUBSET DOMAIN cases /\ SolvedAtOnce \in SUBSET DOMAIN cases
      /\ OnceEscalated \in SUBSET DOMAIN cases
  BY DEF Solved, SolvedAtOnce, OnceEscalated
<1>3. /\ IsFiniteSet(Solved) /\ IsFiniteSet(SolvedAtOnce) /\ IsFiniteSet(OnceEscalated)
      /\ Cardinality(Solved) <= Cardinality(DOMAIN cases)
  BY <1>2, FS_Subset
<1>4. SolvedAtOnce \cap OnceEscalated = {}
  BY DEF SolvedAtOnce, OnceEscalated
<1> DEFINE U == SolvedAtOnce \cup OnceEscalated
<1>5. Cardinality(U) = Cardinality(SolvedAtOnce) + Cardinality(OnceEscalated)
  BY <1>3, <1>4, CountTogether
<1>6. U \in SUBSET DOMAIN cases
  BY <1>2
<1> HIDE DEF U
<1>7. Cardinality(U) <= Cardinality(DOMAIN cases)
  BY <1>6, FS_Subset
<1>8. /\ Cardinality(DOMAIN cases) \in Nat /\ Cardinality(Solved) \in Nat
      /\ Cardinality(SolvedAtOnce) \in Nat /\ Cardinality(OnceEscalated) \in Nat
  BY <1>3, FS_CardinalityType
<1>9. QED BY <1>1, <1>3, <1>5, <1>7, <1>8

\* The columns partition the rows: a case is active, solved or escalated
LEMMA ColumnsFit ==
  ASSUME TypeOK, IsFiniteSet(DOMAIN cases), NEW rows \in SUBSET DOMAIN cases
  PROVE  /\ Columns(rows) \in Figures
         /\ Columns(rows).active + Columns(rows).resolved + Columns(rows).escalated = Columns(rows).total
         /\ Columns(rows).total = Cardinality(rows)
         /\ Columns(rows).resolved = Among(rows, DoneStatuses)
<1> DEFINE A == {c \in rows : cases[c].status \in ActiveStatuses}
           S == {c \in rows : cases[c].status \in DoneStatuses}
           E == {c \in rows : cases[c].status \in {"escalated"}}
           a == Among(rows, ActiveStatuses)
           s == Among(rows, DoneStatuses)
           e == Among(rows, {"escalated"})
           t == Cardinality(rows)
<1>1. a = Cardinality(A) /\ s = Cardinality(S) /\ e = Cardinality(E)
  BY DEF Among
<1>2. \A c \in rows : cases[c].status \in Statuses
  <2>1. cases \in [DOMAIN cases -> CaseRow]
    BY DEF TypeOK
  <2>2. \A c \in rows : cases[c] \in CaseRow
    BY <2>1
  <2>3. QED BY <2>2 DEF CaseRow
<1>3. A \cap S = {} /\ (A \cup S) \cap E = {} /\ (A \cup S) \cup E = rows
  BY <1>2 DEF ActiveStatuses, DoneStatuses, Statuses
<1>4. IsFiniteSet(rows) /\ A \in SUBSET rows /\ S \in SUBSET rows /\ E \in SUBSET rows
  BY FS_Subset
<1> HIDE DEF A, S, E, a, s, e, t
<1>5. IsFiniteSet(A) /\ IsFiniteSet(S) /\ IsFiniteSet(E)
  BY <1>4, FS_Subset
<1>6. /\ IsFiniteSet(A \cup S) /\ Cardinality(A \cup S) = Cardinality(A) + Cardinality(S)
      /\ Cardinality(A) \in Nat /\ Cardinality(S) \in Nat
  BY <1>3, <1>5, CountTogether
<1>7. /\ Cardinality((A \cup S) \cup E) = Cardinality(A \cup S) + Cardinality(E)
      /\ Cardinality(E) \in Nat /\ Cardinality((A \cup S) \cup E) \in Nat
  BY <1>3, <1>5, <1>6, CountTogether
<1>8. t = Cardinality(rows)
  BY DEF t
<1>9. a \in Nat /\ s \in Nat /\ e \in Nat /\ t \in Nat /\ a + s + e = t
  BY <1>1, <1>3, <1>6, <1>7, <1>8
<1>10. Columns(rows) = [total |-> t, active |-> a, resolved |-> s, escalated |-> e]
  BY DEF Columns, t, a, s, e
<1>11. QED BY <1>8, <1>9, <1>10 DEF Figures, s

\* What one write does to the counts
LEMMA CountsDrift ==
  ASSUME IsFiniteSet(DOMAIN cases), DOMAIN cases' \subseteq Cases, NEW c, OnlyChanged(c)
  PROVE  /\ IsFiniteSet(DOMAIN cases')
         /\ Population' \in Nat /\ FirstContact' \in Nat /\ (Among(DOMAIN cases, DoneStatuses))' \in Nat
         /\ Population <= Population' /\ Population' <= Population + 1
         /\ Among(DOMAIN cases, DoneStatuses) <= (Among(DOMAIN cases, DoneStatuses))' + 1
         /\ (Among(DOMAIN cases, DoneStatuses))' <= Among(DOMAIN cases, DoneStatuses) + 1
         /\ FirstContact <= FirstContact' + 1
         /\ cases' = cases => /\ Population' = Population /\ FirstContact <= FirstContact'
                              /\ (Among(DOMAIN cases, DoneStatuses))' = Among(DOMAIN cases, DoneStatuses)
<1>1. /\ Population = Cardinality(DOMAIN cases) /\ FirstContact = Cardinality(SolvedAtOnce)
      /\ Among(DOMAIN cases, DoneStatuses) = Cardinality(Solved)
  BY DEF Population, FirstContact, Among, Solved, SolvedAtOnce
<1>2. /\ Population' = Cardinality(DOMAIN cases') /\ FirstContact' = Cardinality(SolvedAtOnce')
      /\ (Among(DOMAIN cases, DoneStatuses))' = Cardinality(Solved')
  BY DEF Population, FirstContact, Among, Solved, SolvedAtOnce
<1>3. IsFiniteSet(Solved) /\ IsFiniteSet(SolvedAtOnce)
  <2>1. Solved \in SUBSET DOMAIN cases /\ SolvedAtOnce \in SUBSET DOMAIN cases
    BY DEF Solved, SolvedAtOnce
  <2>2. QED BY <2>1, FS_Subset
<1>4. DOMAIN cases \subseteq DOMAIN cases' /\ DOMAIN cases' \subseteq DOMAIN cases \cup {c}
  BY DEF OnlyChanged
<1>5. Solved \subseteq Solved' \cup {c} /\ Solved' \subseteq Solved \cup {c}
  BY DEF OnlyChanged, Solved
<1>6. SolvedAtOnce \subseteq SolvedAtOnce' \cup {c} /\ SolvedAtOnce' \subseteq SolvedAtOnce \cup {c}
  BY DEF OnlyChanged, SolvedAtOnce
<1>7. cases' = cases => Solved' = Solved
  BY DEF Solved
<1>8. cases' = cases => SolvedAtOnce \subseteq SolvedAtOnce'
  BY DEF OnlyChanged, SolvedAtOnce, DoneStatuses
<1>9. /\ IsFiniteSet(DOMAIN cases') /\ Cardinality(DOMAIN cases) \in Nat /\ Cardinality(DOMAIN cases') \in Nat
      /\ Cardinality(DOMAIN cases) <= Cardinality(DOMAIN cases')
      /\ Cardinality(DOMAIN cases') <= Cardinality(DOMAIN cases) + 1
  <2>1. DOMAIN cases \subseteq DOMAIN cases' \cup {c}
    BY <1>4
  <2>2. QED BY <1>4, <2>1, OneApart
<1>10. /\ Cardinality(Solved) \in Nat /\ Cardinality(Solved') \in Nat
       /\ Cardinality(Solved) <= Cardinality(Solved') + 1 /\ Cardinality(Solved') <= Cardinality(Solved) + 1
  BY <1>3, <1>5, OneApart
<1>11. /\ Cardinality(SolvedAtOnce) \in Nat /\ Cardinality(SolvedAtOnce') \in Nat
       /\ Cardinality(SolvedAtOnce) <= Cardinality(SolvedAtOnce') + 1
       /\ SolvedAtOnce \subseteq SolvedAtOnce' => Cardinality(SolvedAtOnce) <= Cardinality(SolvedAtOnce')
  BY <1>3, <1>6, OneApart
<1>12. QED BY <1>1, <1>2, <1>7, <1>8, <1>9, <1>10, <1>11

(* -------------------------- a report under way ------------------------ *)

\* What one figure has to do with the cases now: p of them, s solved, o at first contact,
\* after w writes
FigureFits(statement, f, w, p, s, o) ==
  /\ statement \in {"volume", "by_status", "workload"} => f.active + f.resolved + f.escalated = f.total
  /\ statement \in {"category", "fcr", "escalation"} => f.resolved + f.escalated <= f.total
  /\ statement # "workload" => f.total <= p /\ p <= f.total + w
  /\ statement \in {"volume", "category", "resolved"} => f.resolved <= s + w /\ s <= f.resolved + w
  /\ statement = "fcr" => f.resolved <= o + w

\* What a figure has to do with a later one
PairFits(first, f, second, g, w) ==
  /\ first # "workload" /\ second # "workload" => f.total <= g.total /\ g.total <= f.total + w
  /\ first \in {"volume", "category", "resolved"} /\ second \in {"volume", "category", "resolved"} =>
       f.resolved <= g.resolved + w /\ g.resolved <= f.resolved + w
  /\ first = "fcr" /\ second = "escalation" => f.resolved + g.escalated <= g.total + w

\* A report so far: the figures, by the statements that returned them
FiguresFit(statements, done, w, p, s, o) ==
  \A j \in 1 .. Len(done) :
    /\ FigureFits(statements[j], done[j], w, p, s, o)
    /\ \A i \in 1 .. (j - 1) : PairFits(statements[i], done[i], statements[j], done[j], w)

\* A write moves each count by one at most, so the figures still fit
LEMMA FiguresDrift ==
  ASSUME NEW statements, NEW done \in Seq(Figures),
         NEW w \in Nat, NEW p \in Nat, NEW s \in Nat, NEW o \in Nat,
         NEW v \in Nat, NEW q \in Nat, NEW t \in Nat, NEW n \in Nat,
         FiguresFit(statements, done, w, p, s, o),
         w <= v, p <= q, q - p <= v - w, s - t <= v - w, t - s <= v - w, o - n <= v - w
  PROVE  FiguresFit(statements, done, v, q, t, n)
<1> SUFFICES ASSUME NEW j \in 1 .. Len(done)
             PROVE  /\ FigureFits(statements[j], done[j], v, q, t, n)
                    /\ \A i \in 1 .. (j - 1) : PairFits(statements[i], done[i], statements[j], done[j], v)
  BY DEF FiguresFit
<1>1. /\ FigureFits(statements[j], done[j], w, p, s, o)
      /\ \A i \in 1 .. (j - 1) : PairFits(statements[i], done[i], statements[j], done[j], w)
  BY DEF FiguresFit
<1>2. \A i \in 1 .. Len(done) : /\ done[i].total \in Nat /\ done[i].active \in Nat
                                /\ done[i].resolved \in Nat /\ done[i].escalated \in Nat
  <2>1. \A i \in 1 .. Len(done) : done[i] \in Figures
    OBVIOUS
  <2>2. QED BY <2>1 DEF Figures
<1>3. FigureFits(statements[j], done[j], v, q, t, n)
  <2> DEFINE a == done[j].total
             b == done[j].active
             c == done[j].resolved
             d == done[j].escalated
  <2>1. a \in Nat /\ b \in Nat /\ c \in Nat /\ d \in Nat
    BY <1>2
  <2> HIDE DEF a, b, c, d
  <2>2. /\ a <= p /\ p <= a + w => a <= q /\ q <= a + v
        /\ c <= s + w /\ s <= c + w => c <= t + v /\ t <= c + v
        /\ c <= o + w => c <= n + v
    BY <2>1
  <2>3. QED BY <1>1, <2>2 DEF FigureFits, a, b, c, d
<1>4. ASSUME NEW i \in 1 .. (j - 1)
      PROVE  PairFits(statements[i], done[i], statements[j], done[j], v)
  <2>1. i \in 1 .. Len(done) /\ PairFits(statements[i], done[i], statements[j], done[j], w)
    BY <1>1
  <2>2. /\ done[i].total \in Nat /\ done[i].resolved \in Nat
        /\ done[j].total \in Nat /\ done[j].resolved \in Nat /\ done[j].escalated \in Nat
    BY <1>2, <2>1
  <2>3. \A x, y \in Nat : /\ x <= y + w => x <= y + v
                          /\ \A z \in Nat : x + z <= y + w => x + z <= y + v
    OBVIOUS
  <2>4. QED BY <2>1, <2>2, <2>3 DEF PairFits
<1>5. QED BY <1>3, <1>4

\* The statements reports consist of
LEMMA StatementsAre ==
  ASSUME NEW kind \in Reports, NEW i \in 1 .. Len(Statements(kind))
  PROVE  Statements(kind)[i] \in {"volume", "category", "fcr", "escalation", "resolved", "total",
                                  "by_status", "by_priority", "by_category", "workload"}
<1>1. CASE kind = "overview"
  <2>1. Statements(kind) = <<"volume", "category", "fcr", "escalation", "resolved">>
    BY <1>1 DEF Statements
  <2>2. QED BY <2>1
<1>2. CASE kind = "stats"
  <2>1. Statements(kind) = <<"total", "by_status", "by_priority", "by_category">>
    BY <1>2 DEF Statements
  <2>2. QED BY <2>1
<1>3. CASE kind = "agent"
  <2>1. Statements(kind) = <<"workload">>
    BY <1>3 DEF Statements
  <2>2. QED BY <2>1
<1>4. QED BY <1>1, <1>2, <1>3 DEF Reports

\* Where the statements stand that are compared
LEMMA StatementOrder ==
  ASSUME NEW kind \in Reports
  PROVE  /\ Len(Statements(kind)) \in Nat
         /\ \A i, j \in 1 .. Len(Statements(kind)) :
              LET a == Statements(kind)[i]
                  b == Statements(kind)[j]
              IN  /\ a = "volume" /\ b \in {"category", "fcr", "resolved"} => i < j
                  /\ a = "fcr" /\ b = "escalation" => i < j
                  /\ a = "total" /\ b \in {"by_status", "by_category"} => i < j
<1>1. CASE kind = "overview"
  <2>1. Statements(kind) = <<"volume", "category", "fcr", "escalation", "resolved">>
    BY <1>1 DEF Statements
  <2>2. QED BY <2>1
<1>2. CASE kind = "stats"
  <2>1. Statements(kind) = <<"total", "by_status", "by_priority", "by_category">>
    BY <1>2 DEF Statements
  <2>2. QED BY <2>1
<1>3. CASE kind = "agent"
  <2>1. Statements(kind) = <<"workload">>
    BY <1>3 DEF Statements
  <2>2. QED BY <2>1
<1>4. QED BY <1>1, <1>2, <1>3 DEF Reports

\* What a statement returns fits what the cases are when it runs
LEMMA ReadFits ==
  ASSUME TypeOK, IsFiniteSet(DOMAIN cases), NEW u, NEW w \in Nat,
         NEW statement \in {"volume", "category", "fcr", "escalation", "resolved", "total",
                            "by_status", "by_priority", "by_category", "workload"}
  PROVE  LET f == Read(statement, u)
         IN  /\ f \in Figures
             /\ FigureFits(statement, f, w, Population, Among(DOMAIN cases, DoneStatuses), FirstContact)
             /\ statement # "workload" => f.total = Population
             /\ statement \in {"volume", "category", "resolved"} =>
                  f.resolved = Among(DOMAIN cases, DoneStatuses)
             /\ statement = "escalation" => f.escalated = EscalatedCases
<1> DEFINE p == Population
           s == Among(DOMAIN cases, DoneStatuses)
           o == FirstContact
           e == EscalatedCases
<1>1. p \in Nat /\ s \in Nat /\ o \in Nat /\ e \in Nat /\ s <= p /\ o + e <= p
  BY CountsFit
<1>2. ASSUME NEW a \in Nat, NEW b \in Nat, NEW c \in Nat
      PROVE  /\ Tally(a, b, c) \in Figures /\ Tally(a, b, c).total = a
             /\ Tally(a, b, c).resolved = b /\ Tally(a, b, c).escalated = c
  BY <1>2 DEF Tally, Figures
<1>3. /\ Columns(DOMAIN cases) \in Figures
      /\ Columns(DOMAIN cases).active + Columns(DOMAIN cases).resolved + Columns(DOMAIN cases).escalated
           = Columns(DOMAIN cases).total
      /\ Columns(DOMAIN cases).total = p
      /\ Columns(DOMAIN cases).resolved = s
  BY ColumnsFit DEF Population
<1> DEFINE mine == Columns({c \in DOMAIN cases : cases[c].owner = u})
<1>4. mine \in Figures /\ mine.active + mine.resolved + mine.escalated = mine.total
  BY ColumnsFit
<1>5. /\ Tally(p, o, 0).total = p /\ Tally(p, o, 0).resolved = o /\ Tally(p, o, 0).escalated = 0
      /\ Tally(p, 0, e).total = p /\ Tally(p, 0, e).resolved = 0 /\ Tally(p, 0, e).escalated = e
      /\ Tally(p, s, 0).total = p /\ Tally(p, s, 0).resolved = s /\ Tally(p, s, 0).escalated = 0
      /\ Tally(p, 0, 0).total = p
      /\ Tally(p, o, 0) \in Figures /\ Tally(p, 0, e) \in Figures /\ Tally(p, s, 0) \in Figures
      /\ Tally(p, 0, 0) \in Figures
  BY <1>1, <1>2
<1>6. CASE statement = "fcr"
  <2>1. Read(statement, u) = Tally(p, o, 0)
    BY <1>6, Zenon DEF Read
  <2> HIDE DEF p, s, o, e
  <2>2. QED BY <1>1, <1>5, <1>6, <2>1 DEF FigureFits, p, s, o, e
<1>7. CASE statement = "escalation"
  <2>1. Read(statement, u) = Tally(p, 0, e)
    BY <1>7, Zenon DEF Read
  <2> HIDE DEF p, s, o, e
  <2>2. QED BY <1>1, <1>5, <1>7, <2>1 DEF FigureFits, p, s, o, e
<1>8. CASE statement \in {"category", "resolved"}
  <2>1. statement # "fcr" /\ statement # "escalation"
    BY <1>8
  <2>2. Read(statement, u) = Tally(p, s, 0)
    BY <1>8, <2>1, Zenon DEF Read
  <2> HIDE DEF p, s, o, e
  <2>3. QED BY <1>1, <1>5, <1>8, <2>2 DEF FigureFits, p, s, o, e
<1>9. CASE statement \in {"total", "by_priority", "by_category"}
  <2>1. statement # "fcr" /\ statement # "escalation" /\ statement \notin {"category", "resolved"}
    BY <1>9
  <2>2. Read(statement, u) = Tally(p, 0, 0)
    BY <1>9, <2>1, Zenon DEF Read
  <2> HIDE DEF p, s, o, e
  <2>3. QED BY <1>1, <1>5, <1>9, <2>2 DEF FigureFits, p, s, o, e
<1>10. CASE statement = "workload"
  <2>1. /\ statement # "fcr" /\ statement # "escalation" /\ statement \notin {"category", "resolved"}
        /\ statement \notin {"total", "by_priority", "by_category"}
    BY <1>10
  <2>2. Read(statement, u) = mine
    BY <1>10, <2>1, Zenon DEF Read
  <2> HIDE DEF mine
  <2>3. QED BY <1>4, <1>10, <2>2 DEF FigureFits
<1>11. CASE statement \in {"volume", "by_status"}
  <2>1. /\ statement # "fcr" /\ statement # "escalation" /\ statement \notin {"category", "resolved"}
        /\ statement \notin {"total", "by_priority", "by_category"} /\ statement # "workload"
    BY <1>11
  <2>2. Read(statement, u) = Columns(DOMAIN cases)
    BY <2>1, Zenon DEF Read
  <2> DEFINE f == Columns(DOMAIN cases)
  <2>3. Read(statement, u) = f /\ f \in Figures /\ f.total = p /\ f.resolved = s
        /\ f.active + f.resolved + f.escalated = f.total
    BY <1>3, <2>2
  <2> HIDE DEF f, p, s, o, e
  <2>4. QED BY <1>1, <1>11, <2>3 DEF FigureFits, p, s, o, e
<1>12. QED BY <1>6, <1>7, <1>8, <1>9, <1>10, <1>11

(* -------------------------- the inductive invariant ------------------- *)

\* A reader of a report, of a case, of a listing
ReportRows == [kind : Reports, of : Users \cup {Null}, done : Seq(Figures), writes : Nat]
CaseLooks == [kind : {"case"}, of : Cases, done : Seq(Sight), writes : Nat]
Listings == [kind : {"list"}, of : Filters, done : Seq(SUBSET Cases), writes : Nat,
             kept : SUBSET Cases, left : Nat]

\* ReportTypeOK, with the fields a reader of each kind has
ReaderFits ==
  \/ report = NoReport
  \/ report \in ReportRows /\ Len(report.done) <= Len(Statements(report.kind))
  \/ report \in CaseLooks /\ report.of \in DOMAIN cases /\ Len(report.done) <= Len(Statements("case"))
  \/ report \in Listings /\ report.done \in Seq(SUBSET DOMAIN cases)

\* A report: its figures
FiguresInv ==
  report \in ReportRows =>
    FiguresFit(Statements(report.kind), report.done, report.writes,
               Population, Among(DOMAIN cases, DoneStatuses), FirstContact)

\* A look at a case: the status it showed is one the history tells
SightInv ==
  report \in CaseLooks =>
    /\ Len(report.done) >= 1 => Reached(history[report.of], report.done[1].status)
    /\ Len(report.done) >= 3 => report.done[1].status \in {"open"} \cup report.done[3].reached

\* How many of the rows found come before case c
Rank(found, c) == Cardinality({d \in found : Before(d, c)})

\* The cases on the pages so far
Seen(done) == UNION {done[i] : i \in 1 .. Len(done)}

\* The cases a listing should have shown on its pages so far and did not
Overlooked(found, kept, done) ==
  {c \in kept \ Seen(done) : Rank(found, c) < Len(done) * PageSize}

\* A listing: no more cases are overlooked than left the filter, whether it ends or not
ListInv ==
  report \in Listings =>
    /\ report.kept \subseteq Matching(cases, report.of)
    /\ Cardinality(Overlooked(Matching(cases, report.of), report.kept, report.done)) <= report.left
    /\ Listed => Cardinality(report.kept \ Seen(report.done)) <= report.left

\* The workflow, the reader, and what the reader was shown compared with the cases as they are
ReportInv ==
  /\ TrailInv
  /\ IsFiniteSet(DOMAIN cases)
  /\ ReaderFits
  /\ FiguresInv
  /\ SightInv
  /\ ListInv

\* There are four kinds of readers, told apart by their kind
LEMMA KindsApart ==
  /\ NoReport \notin ReportRows /\ NoReport \notin CaseLooks /\ NoReport \notin Listings
  /\ \A x \in ReportRows : x # NoReport /\ x.kind \in Reports /\ x \notin CaseLooks /\ x \notin Listings
  /\ \A x \in CaseLooks : x # NoReport /\ x.kind = "case" /\ x \notin ReportRows /\ x \notin Listings
  /\ \A x \in Listings : x # NoReport /\ x.kind = "list" /\ x \notin ReportRows /\ x \notin CaseLooks
<1>1. "case" \notin Reports /\ "list" \notin Reports /\ "none" \notin Reports
  BY DEF Reports
<1>2. NoReport.kind = "none"
  BY DEF NoReport
<1>3. \A x \in ReportRows : x.kind \in Reports
  BY DEF ReportRows
<1>4. \A x \in CaseLooks : x.kind = "case"
  BY DEF CaseLooks
<1>5. \A x \in Listings : x.kind = "list"
  BY DEF Listings
<1>6. QED BY <1>1, <1>2, <1>3, <1>4, <1>5

\* Without a reader there is nothing to say about one
LEMMA NobodyReads ==
  ASSUME report' = NoReport
  PROVE  ReaderFits' /\ FiguresInv' /\ SightInv' /\ ListInv'
BY KindsApart DEF ReaderFits, FiguresInv, SightInv, ListInv

(* ------------------------ the steps of a report ----------------------- *)

\* The next statement of a report
LEMMA StepKeeps ==
  ASSUME ReportInv, Step
  PROVE  ReportInv'
<1> DEFINE k == report.kind
           n == Len(report.done)
           st == Statements(k)[n + 1]
           f == Read(st, report.of)
           p == Population
           s == Among(DOMAIN cases, DoneStatuses)
           o == FirstContact
           w == report.writes
<1>1. report \in ReportRows /\ report.kind \in Reports /\ UNCHANGED vars
  <2>1. "case" \notin Reports /\ "list" \notin Reports
    BY DEF Reports
  <2>2. QED BY <2>1, KindsApart DEF Step, ReportInv, ReaderFits
<1>2. /\ report.done \in Seq(Figures) /\ report.writes \in Nat /\ n \in Nat
      /\ report' = [report EXCEPT !.done = Append(report.done, f)]
      /\ n < Len(Statements(k))
  BY <1>1 DEF ReportRows, Step
<1>3. TypeOK /\ IsFiniteSet(DOMAIN cases)
  BY DEF ReportInv, TrailInv
<1>4. Len(Statements(k)) \in Nat /\ n + 1 \in 1 .. Len(Statements(k))
  BY <1>1, <1>2, StatementOrder
<1>5. st \in {"volume", "category", "fcr", "escalation", "resolved", "total",
              "by_status", "by_priority", "by_category", "workload"}
  BY <1>1, <1>4, StatementsAre
<1>6. /\ f \in Figures /\ FigureFits(st, f, w, p, s, o)
      /\ st # "workload" => f.total = p
      /\ st \in {"volume", "category", "resolved"} => f.resolved = s
      /\ st = "escalation" => f.escalated = EscalatedCases
  <2> HIDE DEF st
  <2>1. w \in Nat
    BY <1>2
  <2> HIDE DEF w
  <2>2. QED BY <1>3, <1>5, <2>1, ReadFits
<1> HIDE DEF f
<1> DEFINE done == Append(report.done, f)
<1>7. /\ done \in Seq(Figures) /\ Len(done) = n + 1 /\ done[n + 1] = f
      /\ \A i \in 1 .. n : done[i] = report.done[i]
  BY <1>2, <1>6
<1>8. /\ report' \in ReportRows /\ report'.kind = k /\ report'.of = report.of
      /\ report'.writes = w /\ report'.done = done
  <2> HIDE DEF done
  <2>1. report' = [report EXCEPT !.done = done]
    BY <1>2 DEF done
  <2>2. QED BY <1>1, <1>7, <2>1 DEF ReportRows
<1>9. FiguresFit(Statements(k), report.done, w, p, s, o)
  BY <1>1 DEF ReportInv, FiguresInv
<1>10. \A i \in 1 .. n : /\ report.done[i] \in Figures
                         /\ FigureFits(Statements(k)[i], report.done[i], w, p, s, o)
                         /\ \A h \in 1 .. (i - 1) :
                              PairFits(Statements(k)[h], report.done[h], Statements(k)[i], report.done[i], w)
  BY <1>2, <1>9 DEF FiguresFit
<1>11. p \in Nat /\ s \in Nat /\ o \in Nat /\ EscalatedCases \in Nat /\ o + EscalatedCases <= p
  BY <1>3, CountsFit
<1> HIDE DEF p, s, o, w, k, n, done, st
<1>12. ASSUME NEW i \in 1 .. n
       PROVE  PairFits(Statements(k)[i], report.done[i], st, f, w)
  <2>1. FigureFits(Statements(k)[i], report.done[i], w, p, s, o) /\ report.done[i] \in Figures
    BY <1>10
  <2>2. /\ report.done[i].total \in Nat /\ report.done[i].resolved \in Nat
        /\ f.total \in Nat /\ f.escalated \in Nat /\ f.resolved \in Nat
    BY <1>6, <2>1 DEF Figures
  <2>3. w \in Nat
    BY <1>2 DEF w
  <2>4. Statements(k)[i] # "workload" /\ st # "workload" =>
           report.done[i].total <= f.total /\ f.total <= report.done[i].total + w
    BY <1>6, <2>1 DEF FigureFits
  <2>5. Statements(k)[i] \in {"volume", "category", "resolved"} /\ st \in {"volume", "category", "resolved"} =>
           report.done[i].resolved <= f.resolved + w /\ f.resolved <= report.done[i].resolved + w
    BY <1>6, <2>1 DEF FigureFits
  <2>6. ASSUME Statements(k)[i] = "fcr", st = "escalation"
        PROVE  report.done[i].resolved + f.escalated <= f.total + w
    <3>1. report.done[i].resolved <= o + w /\ f.escalated = EscalatedCases /\ f.total = p
      BY <1>6, <2>1, <2>6 DEF FigureFits
    <3>2. QED BY <1>11, <2>2, <2>3, <3>1
  <2>7. QED BY <2>4, <2>5, <2>6 DEF PairFits
<1>13. FiguresFit(Statements(k), done, w, p, s, o)
  <2> SUFFICES ASSUME NEW j \in 1 .. Len(done)
               PROVE  /\ FigureFits(Statements(k)[j], done[j], w, p, s, o)
                      /\ \A i \in 1 .. (j - 1) :
                           PairFits(Statements(k)[i], done[i], Statements(k)[j], done[j], w)
    BY DEF FiguresFit
  <2>1. n \in Nat /\ Len(done) = n + 1
    BY <1>2, <1>7
  <2>2. CASE j \in 1 .. n
    <3>1. done[j] = report.done[j] /\ \A i \in 1 .. (j - 1) : done[i] = report.done[i]
      BY <1>7, <2>1, <2>2
    <3>2. QED BY <1>10, <2>2, <3>1
  <2>3. CASE j = n + 1
    <3>1. done[j] = f /\ Statements(k)[j] = st /\ \A i \in 1 .. (j - 1) : i \in 1 .. n /\ done[i] = report.done[i]
      BY <1>7, <2>1, <2>3 DEF st
    <3>2. QED BY <1>6, <1>12, <3>1
  <2>4. QED BY <2>1, <2>2, <2>3
<1>14. Population' = p /\ (Among(DOMAIN cases, DoneStatuses))' = s /\ FirstContact' = o
  BY <1>1 DEF vars, p, s, o, Population, Among, FirstContact
<1>15. FiguresInv'
  BY <1>8, <1>13, <1>14 DEF FiguresInv
<1>16. ReaderFits'
  BY <1>2, <1>4, <1>7, <1>8 DEF ReaderFits, k
<1>17. SightInv' /\ ListInv'
  BY <1>8, KindsApart DEF SightInv, ListInv
<1>18. TrailInv' /\ IsFiniteSet(DOMAIN cases)'
  <2>1. TrailInv'
    BY <1>1, TrailStep DEF ReportInv
  <2>2. QED BY <1>1, <1>3, <2>1 DEF vars
<1>19. QED BY <1>15, <1>16, <1>17, <1>18 DEF ReportInv

(* -------------------------- a look at a case -------------------------- *)

\* The next statement of a look at a case
LEMMA StepCaseKeeps ==
  ASSUME ReportInv, StepCase
  PROVE  ReportInv'
<1> DEFINE n == Len(report.done)
           c == report.of
           statement == Statements("case")[n + 1]
           x == Look(statement, c)
           done == Append(report.done, x)
<1>1. report \in CaseLooks /\ c \in DOMAIN cases /\ UNCHANGED vars
  BY KindsApart DEF StepCase, ReportInv, ReaderFits, Reports
<1>2. Statements("case") = <<"row", "notes", "history">>
  BY DEF Statements
<1>3. /\ report.done \in Seq(Sight) /\ report.writes \in Nat /\ n \in 0 .. 2
      /\ report' = [report EXCEPT !.done = done]
  <2>1. report.done \in Seq(Sight) /\ report.writes \in Nat /\ n \in Nat
    BY <1>1 DEF CaseLooks
  <2>2. n < Len(Statements("case")) /\ report' = [report EXCEPT !.done = done]
    BY DEF StepCase
  <2>3. Len(Statements("case")) = 3
    BY <1>2
  <2>4. n < 3
    BY <2>2, <2>3
  <2> HIDE DEF done, n
  <2>5. n \in 0 .. 2
    BY <2>1, <2>4
  <2>6. QED BY <2>1, <2>2, <2>5
<1>4. TrailInv /\ TypeOK /\ c \in Cases /\ cases[c] \in CaseRow /\ cases[c].status \in Statuses
  <2>1. TrailInv /\ TypeOK
    BY DEF ReportInv, TrailInv
  <2>2. cases \in [DOMAIN cases -> CaseRow] /\ DOMAIN cases \subseteq Cases
    BY <2>1 DEF TypeOK
  <2>3. QED BY <1>1, <2>1, <2>2 DEF CaseRow
<1>5. /\ n = 0 => statement = "row"
      /\ n = 1 => statement = "notes"
      /\ n = 2 => statement = "history"
  <2>1. n = 0 => statement = Statements("case")[1]
    OBVIOUS
  <2>2. n = 1 => statement = Statements("case")[2]
    OBVIOUS
  <2>3. n = 2 => statement = Statements("case")[3]
    OBVIOUS
  <2>4. Statements("case")[1] = "row" /\ Statements("case")[2] = "notes" /\ Statements("case")[3] = "history"
    BY <1>2
  <2> HIDE DEF statement
  <2>5. QED BY <2>1, <2>2, <2>3, <2>4
<1>6. n = 0 => x = [status |-> cases[c].status]
  BY <1>5, Zenon DEF Look
<1>7. n = 1 => x = [authors |-> {notes[c][i] : i \in 1 .. Len(notes[c])}]
  <2>1. n = 1 => statement # "row" /\ statement = "notes"
    BY <1>5
  <2>2. QED BY <2>1, Zenon DEF Look
<1>8. n = 2 => x = [reached |-> {history[c][i].new : i \in {j \in 1 .. Len(history[c]) :
                                                               history[c][j].field = "status"}}]
  <2>1. n = 2 => statement # "row" /\ statement # "notes" /\ statement = "history"
    BY <1>5
  <2>2. QED BY <2>1, Zenon DEF Look
<1> HIDE DEF x, statement, c
<1>9. x \in Sight
  <2>1. {notes[c][i] : i \in 1 .. Len(notes[c])} \subseteq Users
    <3>1. notes[c] \in Seq(Users)
      BY <1>4 DEF TypeOK
    <3>2. QED BY <3>1
  <2>2. {history[c][i].new : i \in {j \in 1 .. Len(history[c]) : history[c][j].field = "status"}}
          \subseteq Statuses
    <3>1. history[c] \in Seq(Entry)
      BY <1>4 DEF TypeOK
    <3>2. \A e \in Entry : e.field = "status" => e.new \in Statuses
      BY DEF Entry
    <3>3. \A i \in 1 .. Len(history[c]) : history[c][i] \in Entry
      BY <3>1
    <3>4. QED BY <3>2, <3>3
  <2>3. CASE n = 0
    BY <1>4, <1>6, <2>3 DEF Sight
  <2>4. CASE n = 1
    BY <1>7, <2>1, <2>4 DEF Sight
  <2>5. CASE n = 2
    BY <1>8, <2>2, <2>5 DEF Sight
  <2>6. QED BY <1>3, <2>3, <2>4, <2>5
<1>10. /\ done \in Seq(Sight) /\ Len(done) = n + 1 /\ done[n + 1] = x
       /\ \A i \in 1 .. n : done[i] = report.done[i]
  BY <1>3, <1>9
<1> HIDE DEF done
<1>11. report' \in CaseLooks /\ report'.of = c /\ report'.done = done
  BY <1>1, <1>3, <1>10 DEF CaseLooks, c
<1>12. ReaderFits'
  <2>1. report'.of \in DOMAIN cases' /\ Len(report'.done) <= Len(Statements("case"))
    <3>1. Len(Statements("case")) = 3
      BY <1>2
    <3>2. report'.of \in DOMAIN cases'
      BY <1>1, <1>11 DEF vars, c
    <3>3. Len(report'.done) = n + 1 /\ n + 1 <= 3
      BY <1>3, <1>10, <1>11
    <3>4. QED BY <3>1, <3>2, <3>3
  <2>2. QED BY <1>11, <2>1 DEF ReaderFits
<1>13. history' = history
  BY <1>1 DEF vars
<1>14. SightInv'
  <2>1. Reached(history[c], done[1].status)
    <3>1. CASE n = 0
      <4>1. done[1].status = cases[c].status
        BY <1>6, <1>10, <3>1
      <4>2. QED BY <1>1, <1>4, <4>1 DEF TrailInv, c
    <3>2. CASE n # 0
      <4>1. n \in Nat /\ n >= 1
        BY <1>3, <3>2
      <4>2. Reached(history[c], report.done[1].status)
        BY <1>1, <4>1 DEF ReportInv, SightInv, c
      <4>3. done[1] = report.done[1]
        BY <1>10, <4>1
      <4>4. QED BY <4>2, <4>3
    <3>3. QED BY <3>1, <3>2
  <2>2. ASSUME Len(done) >= 3
        PROVE  done[1].status \in {"open"} \cup done[3].reached
    <3>1. n = 2 /\ done[3] = x
      BY <1>3, <1>10, <2>2
    <3>2. x.reached = {history[c][i].new : i \in {j \in 1 .. Len(history[c]) :
                                                    history[c][j].field = "status"}}
      BY <1>8, <3>1
    <3>3. QED BY <2>1, <3>1, <3>2 DEF Reached
  <2>3. QED BY <1>11, <1>13, <2>1, <2>2 DEF SightInv
<1>15. FiguresInv' /\ ListInv'
  BY <1>11, KindsApart DEF FiguresInv, ListInv
<1>16. TrailInv' /\ IsFiniteSet(DOMAIN cases)'
  BY <1>1, <1>4, TrailStep DEF ReportInv, vars
<1>17. QED BY <1>12, <1>14, <1>15, <1>16 DEF ReportInv

(* ------------------------------- listings ----------------------------- *)

\* The rows found are numbered from 0 by their ranks, without a gap
LEMMA RanksCount ==
  ASSUME NEW found \in SUBSET Cases, IsFiniteSet(found)
  PROVE  LET n == Cardinality(found) IN
           /\ n \in Nat
           /\ \A c \in found : Rank(found, c) \in 0 .. n - 1
           /\ \A c, d \in found : Rank(found, c) = Rank(found, d) => c = d
           /\ \A i \in 0 .. n - 1 : \E c \in found : Rank(found, c) = i
<1> DEFINE n == Cardinality(found)
           above(c) == {d \in found : Before(d, c)}
<1>1. n \in Nat
  BY FS_CardinalityType
<1>2. \A c \in found : c \in Nat
  BY CasesAreNumbered
<1>3. ASSUME NEW c \in found
      PROVE  /\ IsFiniteSet(above(c)) /\ Rank(found, c) = Cardinality(above(c))
             /\ Rank(found, c) \in Nat /\ Rank(found, c) < n
  <2>1. above(c) \in SUBSET found /\ c \notin above(c)
    BY <1>2 DEF Before
  <2>2. Rank(found, c) = Cardinality(above(c))
    BY DEF Rank
  <2> HIDE DEF above
  <2>3. /\ IsFiniteSet(above(c)) /\ Cardinality(above(c)) <= Cardinality(found)
        /\ Cardinality(above(c)) = Cardinality(found) => above(c) = found
    BY <2>1, FS_Subset
  <2>4. Cardinality(above(c)) \in Nat
    BY <2>3, FS_CardinalityType
  <2>5. QED BY <1>1, <2>1, <2>2, <2>3, <2>4
<1>4. ASSUME NEW c \in found, NEW d \in found, c > d
      PROVE  Rank(found, c) < Rank(found, d)
  <2>1. above(c) \in SUBSET above(d) /\ c \in above(d) /\ c \notin above(c)
    BY <1>2, <1>4 DEF Before
  <2>2. /\ IsFiniteSet(above(d)) /\ Rank(found, c) = Cardinality(above(c)) /\ Rank(found, c) \in Nat
        /\ Rank(found, d) = Cardinality(above(d)) /\ Rank(found, d) \in Nat
    BY <1>3
  <2> HIDE DEF above
  <2>3. /\ Cardinality(above(c)) <= Cardinality(above(d))
        /\ Cardinality(above(c)) = Cardinality(above(d)) => above(c) = above(d)
    BY <2>1, <2>2, FS_Subset
  <2>4. QED BY <2>1, <2>2, <2>3
<1>5. \A c, d \in found : Rank(found, c) = Rank(found, d) => c = d
  <2> SUFFICES ASSUME NEW c \in found, NEW d \in found, Rank(found, c) = Rank(found, d)
               PROVE  c = d
    OBVIOUS
  <2>1. c \in Nat /\ d \in Nat /\ Rank(found, c) \in Nat /\ Rank(found, d) \in Nat
    BY <1>2, <1>3
  <2>2. ~(c > d) /\ ~(d > c)
    BY <1>4, <2>1
  <2>3. QED BY <2>1, <2>2
<1>6. \A c \in found : Rank(found, c) \in 0 .. n - 1
  <2> SUFFICES ASSUME NEW c \in found PROVE Rank(found, c) \in 0 .. n - 1
    OBVIOUS
  <2>1. Rank(found, c) \in Nat /\ Rank(found, c) < n
    BY <1>3
  <2> HIDE DEF n
  <2>2. QED BY <1>1, <2>1
<1> DEFINE T == 0 .. n - 1
           rank == [c \in found |-> Rank(found, c)]
<1>7. IsFiniteSet(T) /\ Cardinality(T) = n
  BY <1>1, FS_Interval
<1> HIDE DEF n
<1>8. rank \in Injection(found, T)
  BY <1>5, <1>6 DEF Injection, IsInjective
<1> HIDE DEF T, rank
<1>9. rank \in Surjection(found, T)
  <2>1. Cardinality(found) = Cardinality(T)
    BY <1>7 DEF n
  <2>2. QED BY <1>7, <1>8, <2>1, FS_Injection
<1>10. \A i \in T : \E c \in found : Rank(found, c) = i
  BY <1>9 DEF Surjection, rank
<1>11. QED BY <1>1, <1>5, <1>6, <1>10 DEF T, n

\* When a page is not full, no row found comes after it
LEMMA ShortPageIsLast ==
  ASSUME NEW found \in SUBSET Cases, IsFiniteSet(found), NEW k \in Nat,
         Cardinality({c \in found : Rank(found, c) \in k .. k + PageSize - 1}) < PageSize,
         NEW c \in found
  PROVE  Rank(found, c) < k + PageSize
<1> DEFINE page == {d \in found : Rank(found, d) \in k .. k + PageSize - 1}
           n == Cardinality(found)
           T == k .. k + PageSize - 1
           rank == [d \in page |-> Rank(found, d)]
<1> SUFFICES ASSUME ~(Rank(found, c) < k + PageSize) PROVE FALSE
  OBVIOUS
<1>1. /\ n \in Nat /\ PageSize \in Nat /\ PageSize > 0
      /\ \A d \in found : Rank(found, d) \in 0 .. n - 1
      /\ \A i \in 0 .. n - 1 : \E d \in found : Rank(found, d) = i
  BY RanksCount, PageSizeAssumption
<1>2. \A i \in T : i \in 0 .. n - 1
  <2>1. Rank(found, c) \in 0 .. n - 1
    BY <1>1
  <2> HIDE DEF n
  <2>2. QED BY <1>1, <2>1
<1>3. IsFiniteSet(page)
  <2>1. page \in SUBSET found
    OBVIOUS
  <2>2. QED BY <2>1, FS_Subset
<1>4. IsFiniteSet(T) /\ Cardinality(T) = PageSize
  <2>1. k \in Int /\ k + PageSize - 1 \in Int /\ ~(k > k + PageSize - 1)
        /\ (k + PageSize - 1) - k + 1 = PageSize
    BY <1>1
  <2>2. QED BY <2>1, FS_Interval
<1>5. rank \in Surjection(page, T)
  <2> HIDE DEF n
  <2>1. \A i \in T : \E d \in page : Rank(found, d) = i
    BY <1>1, <1>2
  <2>2. \A d \in page : Rank(found, d) \in T
    OBVIOUS
  <2> HIDE DEF page, T
  <2>3. QED BY <2>1, <2>2 DEF Surjection
<1>6. Cardinality(page) < PageSize
  OBVIOUS
<1> HIDE DEF page, T, rank, n
<1>7. Cardinality(T) <= Cardinality(page) /\ Cardinality(page) \in Nat
  BY <1>3, <1>5, FS_Surjection, FS_CardinalityType
<1>8. QED BY <1>1, <1>4, <1>6, <1>7

\* A row that leaves moves those behind it up by one place, and only one of them across the
\* boundary of the pages read
LEMMA OneOverlookedMore ==
  ASSUME NEW found \in SUBSET Cases, IsFiniteSet(found),
         NEW later \in SUBSET Cases, IsFiniteSet(later),
         NEW x, found \subseteq later \cup {x},
         NEW kept, kept \subseteq found, NEW k \in Nat,
         NEW seen
  PROVE  LET before == {c \in kept \ seen : Rank(found, c) < k}
             after == {c \in (kept \cap later) \ seen : Rank(later, c) < k}
             left == found \ later
         IN  /\ Cardinality(before) \in Nat /\ Cardinality(after) \in Nat /\ Cardinality(left) \in Nat
             /\ Cardinality(after) <= Cardinality(before) + Cardinality(left)
<1> DEFINE before == {c \in kept \ seen : Rank(found, c) < k}
           after == {c \in (kept \cap later) \ seen : Rank(later, c) < k}
           left == found \ later
           above(rows, c) == {d \in rows : Before(d, c)}
<1>1. before \in SUBSET found /\ after \in SUBSET found /\ left \in SUBSET found /\ left \subseteq {x}
  OBVIOUS
<1> HIDE DEF before, after, left
<1>2. IsFiniteSet(before) /\ IsFiniteSet(after) /\ IsFiniteSet(left)
  BY <1>1, FS_Subset
<1>3. Cardinality(before) \in Nat /\ Cardinality(after) \in Nat /\ Cardinality(left) \in Nat
  BY <1>2, FS_CardinalityType
<1>4. ASSUME NEW c \in found
      PROVE  /\ IsFiniteSet(above(found, c)) /\ IsFiniteSet(above(later, c))
             /\ Rank(found, c) = Cardinality(above(found, c)) /\ Rank(found, c) \in Nat
             /\ Rank(later, c) = Cardinality(above(later, c)) /\ Rank(later, c) \in Nat
  <2>1. above(found, c) \in SUBSET found /\ above(later, c) \in SUBSET later
    OBVIOUS
  <2>2. Rank(found, c) = Cardinality(above(found, c)) /\ Rank(later, c) = Cardinality(above(later, c))
    BY DEF Rank
  <2> HIDE DEF above
  <2>3. IsFiniteSet(above(found, c)) /\ IsFiniteSet(above(later, c))
    BY <2>1, FS_Subset
  <2>4. QED BY <2>2, <2>3, FS_CardinalityType
<1>5. CASE left = {}
  <2>1. ASSUME NEW c \in after
        PROVE  c \in before
    <3>1. c \in kept /\ c \notin seen /\ c \in found /\ Rank(later, c) < k
      BY DEF after
    <3>2. above(found, c) \in SUBSET above(later, c)
      BY <1>5 DEF left
    <3>3. /\ IsFiniteSet(above(later, c)) /\ Rank(found, c) \in Nat /\ Rank(later, c) \in Nat
          /\ Rank(found, c) = Cardinality(above(found, c)) /\ Rank(later, c) = Cardinality(above(later, c))
      BY <1>4, <3>1
    <3> HIDE DEF above
    <3>4. Rank(found, c) <= Rank(later, c)
      BY <3>2, <3>3, FS_Subset
    <3>5. QED BY <3>1, <3>3, <3>4 DEF before
  <2>2. after \in SUBSET before
    BY <2>1
  <2>3. Cardinality(after) <= Cardinality(before)
    BY <1>2, <2>2, FS_Subset
  <2>4. QED BY <1>3, <2>3 DEF before, after, left
<1>6. CASE left # {}
  <2>1. left = {x} /\ Cardinality(left) = 1
    <3>1. left = {x}
      BY <1>1, <1>6
    <3>2. QED BY <3>1, FS_Singleton
  <2>2. ASSUME NEW c \in after, c \notin before
        PROVE  c \in found /\ Rank(found, c) = k
    <3>1. c \in kept /\ c \notin seen /\ c \in found /\ Rank(later, c) < k
      BY DEF after
    <3>2. above(found, c) \subseteq above(later, c) \cup {x}
      OBVIOUS
    <3>3. /\ IsFiniteSet(above(found, c)) /\ IsFiniteSet(above(later, c))
          /\ Rank(found, c) \in Nat /\ Rank(later, c) \in Nat
          /\ Rank(found, c) = Cardinality(above(found, c)) /\ Rank(later, c) = Cardinality(above(later, c))
      BY <1>4, <3>1
    <3> HIDE DEF above
    <3>4. Rank(found, c) <= Rank(later, c) + 1
      <4>1. Cardinality(above(found, c)) <= Cardinality(above(later, c)) + 1
        BY <3>2, <3>3, GrownByOne
      <4>2. QED BY <3>3, <4>1
    <3>5. ~(Rank(found, c) < k)
      BY <2>2, <3>1 DEF before
    <3>6. QED BY <3>1, <3>3, <3>4, <3>5
  <2>3. \A c, d \in found : Rank(found, c) = Rank(found, d) => c = d
    BY RanksCount
  <2>4. \E y : after \subseteq before \cup {y}
    <3>1. CASE after \subseteq before
      BY <3>1
    <3>2. ASSUME NEW y \in after, y \notin before
          PROVE  after \subseteq before \cup {y}
      BY <2>2, <2>3, <3>2
    <3>3. QED BY <3>1, <3>2
  <2>5. PICK y : after \subseteq before \cup {y}
    BY <2>4
  <2>6. Cardinality(after) <= Cardinality(before) + 1
    BY <1>2, <2>5, GrownByOne
  <2>7. Cardinality(after) <= Cardinality(before) + Cardinality(left)
    BY <1>3, <2>1, <2>6
  <2>8. QED BY <1>3, <2>7 DEF before, after, left
<1>7. QED BY <1>5, <1>6

\* The next page of a listing: it shows what the pages so far had not come to, and a page that
\* is not full shows the rest
LEMMA StepListKeeps ==
  ASSUME ReportInv, StepList
  PROVE  ReportInv'
<1> DEFINE n == Len(report.done)
           found == Matching(cases, report.of)
           page == Page(report.of, n)
           done == Append(report.done, page)
           kept == report.kept
<1>1. report \in Listings /\ UNCHANGED vars
  <2>1. "case" # "list" /\ "list" \notin Reports
    BY DEF Reports
  <2>2. QED BY <2>1, KindsApart DEF StepList, ReportInv, ReaderFits
<1>2. TrailInv /\ IsFiniteSet(DOMAIN cases) /\ DOMAIN cases \subseteq Cases
  BY DEF ReportInv, TrailInv, TypeOK
<1>3. /\ report.done \in Seq(SUBSET Cases) /\ report.writes \in Nat /\ n \in Nat
      /\ report' = [report EXCEPT !.done = done] /\ report.left \in Nat /\ kept \in SUBSET Cases
  BY <1>1 DEF Listings, StepList
<1>4. report.done \in Seq(SUBSET DOMAIN cases)
  BY <1>1, KindsApart DEF ReportInv, ReaderFits
<1>5. found \in SUBSET DOMAIN cases /\ found \in SUBSET Cases /\ IsFiniteSet(found)
  <2>1. found \in SUBSET DOMAIN cases
    BY DEF Matching
  <2>2. QED BY <1>2, <2>1, FS_Subset
<1> DEFINE k == n * PageSize
<1>6. k \in Nat /\ PageSize \in Nat /\ (n + 1) * PageSize = k + PageSize
  <2>1. PageSize \in Nat
    BY PageSizeAssumption
  <2>2. \A a, b \in Nat : a * b \in Nat /\ (a + 1) * b = a * b + b
    OBVIOUS
  <2>3. QED BY <1>3, <2>1, <2>2
<1> HIDE DEF n, k
<1>7. page = {c \in found : Rank(found, c) \in k .. k + PageSize - 1}
  <2>1. page = {c \in found : Rank(found, c) \in n * PageSize .. (n + 1) * PageSize - 1}
    BY DEF Page, Rank
  <2>2. QED BY <1>6, <2>1 DEF k
<1>8. page \in SUBSET DOMAIN cases /\ page \in SUBSET Cases
  BY <1>5, <1>7
<1> HIDE DEF page
<1>9. /\ done \in Seq(SUBSET Cases) /\ done \in Seq(SUBSET DOMAIN cases)
      /\ Len(done) = n + 1 /\ done[n + 1] = page /\ \A i \in 1 .. n : done[i] = report.done[i]
  BY <1>3, <1>4, <1>8 DEF n
<1>10. Seen(done) = Seen(report.done) \cup page
  <2>1. \A c \in Seen(done) : c \in Seen(report.done) \cup page
    <3> SUFFICES ASSUME NEW i \in 1 .. Len(done), NEW c \in done[i]
                 PROVE  c \in Seen(report.done) \cup page
      BY DEF Seen
    <3>1. i \in 1 .. n \/ i = n + 1
      BY <1>3, <1>9
    <3>2. QED BY <1>9, <3>1 DEF Seen, n
  <2>2. \A c \in Seen(report.done) \cup page : c \in Seen(done)
    <3>1. n + 1 \in 1 .. Len(done) /\ \A i \in 1 .. n : i \in 1 .. Len(done)
      BY <1>3, <1>9
    <3>2. QED BY <1>9, <3>1 DEF Seen, n
  <2>3. QED BY <2>1, <2>2
<1> HIDE DEF done, found, kept
<1>11. /\ report' \in Listings /\ report'.of = report.of /\ report'.done = done
       /\ report'.kept = kept /\ report'.left = report.left
  BY <1>1, <1>3, <1>9 DEF Listings, kept
<1>12. kept \subseteq found
  BY <1>1 DEF ReportInv, ListInv, kept, found
<1> DEFINE before == Overlooked(found, kept, report.done)
           after == Overlooked(found, kept, done)
<1>13. Cardinality(before) <= report.left
  BY <1>1 DEF ReportInv, ListInv, kept, found
<1>14. before = {c \in kept \ Seen(report.done) : Rank(found, c) < k}
  BY DEF Overlooked, k, n
<1>15. after = {c \in kept \ Seen(done) : Rank(found, c) < k + PageSize}
  <2>1. Len(done) * PageSize = k + PageSize
    BY <1>6, <1>9
  <2>2. QED BY <2>1 DEF Overlooked
<1> HIDE DEF before, after
<1>16. \A c \in found : Rank(found, c) \in Nat
  <2>1. \A c \in found : Rank(found, c) \in 0 .. Cardinality(found) - 1
    BY <1>5, RanksCount
  <2>2. Cardinality(found) \in Nat
    BY <1>5, FS_CardinalityType
  <2>3. QED BY <2>1, <2>2
<1>17. after \in SUBSET before
  <2> SUFFICES ASSUME NEW c \in after PROVE c \in before
    OBVIOUS
  <2>1. c \in kept /\ c \in found /\ c \notin Seen(report.done) /\ c \notin page /\ Rank(found, c) < k + PageSize
    BY <1>10, <1>12, <1>15
  <2>2. Rank(found, c) < k
    <3>1. Rank(found, c) \notin k .. k + PageSize - 1
      BY <1>7, <2>1
    <3>2. QED BY <1>6, <1>16, <2>1, <3>1
  <2>3. QED BY <1>14, <2>1, <2>2
<1>18. IsFiniteSet(before)
  <2>1. before \in SUBSET found
    BY <1>12, <1>14
  <2>2. QED BY <1>5, <2>1, FS_Subset
<1>19. /\ IsFiniteSet(after) /\ Cardinality(after) \in Nat /\ Cardinality(before) \in Nat
       /\ Cardinality(after) <= report.left
  <2>1. IsFiniteSet(after) /\ Cardinality(after) <= Cardinality(before)
    BY <1>17, <1>18, FS_Subset
  <2>2. Cardinality(after) \in Nat /\ Cardinality(before) \in Nat
    BY <1>18, <2>1, FS_CardinalityType
  <2>3. QED BY <1>3, <1>13, <2>1, <2>2
<1>20. ASSUME Listed'
       PROVE  Cardinality(kept \ Seen(done)) <= report.left
  <2>1. Cardinality(page) < PageSize
    <3>1. Cardinality(done[Len(done)]) < PageSize
      BY <1>11, <1>20 DEF Listed
    <3>2. QED BY <1>9, <3>1
  <2>2. \A c \in found : Rank(found, c) < k + PageSize
    BY <1>5, <1>6, <1>7, <2>1, ShortPageIsLast
  <2>3. kept \ Seen(done) = after
    BY <1>12, <1>15, <2>2
  <2>4. QED BY <1>19, <2>3
<1>21. ListInv'
  <2>1. Matching(cases, report.of)' = found
    BY <1>1, <1>11 DEF vars, found
  <2>2. QED BY <1>11, <1>12, <1>19, <1>20, <2>1 DEF ListInv, after
<1>22. ReaderFits'
  BY <1>1, <1>9, <1>11 DEF ReaderFits, vars
<1>23. FiguresInv' /\ SightInv'
  BY <1>11, KindsApart DEF FiguresInv, SightInv
<1>24. TrailInv' /\ IsFiniteSet(DOMAIN cases)'
  BY <1>1, <1>2, TrailStep DEF vars
<1>25. QED BY <1>21, <1>22, <1>23, <1>24 DEF ReportInv

(* --------------------------- readers begin ---------------------------- *)

\* A new reader has read nothing yet
LEMMA BeginsKeep ==
  ASSUME ReportInv, UNCHANGED vars,
         \/ \E kind \in Reports, u \in Users : Begin(kind, u)
         \/ \E c \in Cases : BeginCase(c)
         \/ \E filter \in Filters : BeginList(filter)
         \/ End
  PROVE  ReportInv'
<1>1. TrailInv /\ IsFiniteSet(DOMAIN cases) /\ DOMAIN cases \subseteq Cases
  BY DEF ReportInv, TrailInv, TypeOK
<1>2. TrailInv' /\ IsFiniteSet(DOMAIN cases)'
  BY <1>1, TrailStep DEF vars
<1>3. cases' = cases
  BY DEF vars
<1>4. ASSUME NEW kind \in Reports, NEW u \in Users, Begin(kind, u)
      PROVE  ReportInv'
  <2> DEFINE of == IF kind = "agent" THEN u ELSE Null
  <2>1. report' = [kind |-> kind, of |-> of, done |-> <<>>, writes |-> 0] /\ of \in Users \cup {Null}
    BY <1>4 DEF Begin
  <2> HIDE DEF of
  <2>2. report' \in ReportRows /\ report'.done = <<>> /\ report'.kind = kind
    BY <2>1 DEF ReportRows
  <2>3. FiguresInv'
    BY <2>2 DEF FiguresInv, FiguresFit
  <2>4. ReaderFits'
    <3>1. Len(Statements(kind)) \in Nat
      BY StatementOrder
    <3>2. Len(report'.done) <= Len(Statements(report'.kind))
      BY <2>2, <3>1
    <3>3. QED BY <2>2, <3>2 DEF ReaderFits
  <2>5. SightInv' /\ ListInv'
    BY <2>2, KindsApart DEF SightInv, ListInv
  <2>6. QED BY <1>2, <2>3, <2>4, <2>5 DEF ReportInv
<1>5. ASSUME NEW c \in Cases, BeginCase(c)
      PROVE  ReportInv'
  <2>1. report' = [kind |-> "case", of |-> c, done |-> <<>>, writes |-> 0] /\ c \in DOMAIN cases
    BY <1>5 DEF BeginCase
  <2>2. report' \in CaseLooks /\ report'.done = <<>> /\ report'.of = c
    BY <2>1 DEF CaseLooks
  <2>3. SightInv'
    BY <2>2 DEF SightInv
  <2>4. ReaderFits'
    <3>1. Statements("case") = <<"row", "notes", "history">>
      BY DEF Statements
    <3>2. Len(report'.done) <= Len(Statements("case"))
      BY <2>2, <3>1
    <3>3. QED BY <1>3, <2>1, <2>2, <3>2 DEF ReaderFits
  <2>5. FiguresInv' /\ ListInv'
    BY <2>2, KindsApart DEF FiguresInv, ListInv
  <2>6. QED BY <1>2, <2>3, <2>4, <2>5 DEF ReportInv
<1>6. ASSUME NEW filter \in Filters, BeginList(filter)
      PROVE  ReportInv'
  <2> DEFINE found == Matching(cases, filter)
  <2>1. report' = [kind |-> "list", of |-> filter, done |-> <<>>, writes |-> 0, kept |-> found, left |-> 0]
    BY <1>6 DEF BeginList
  <2>2. found \in SUBSET Cases /\ found \in SUBSET DOMAIN cases
    BY <1>1 DEF Matching
  <2>3. /\ report' \in Listings /\ report'.done = <<>> /\ report'.of = filter
        /\ report'.kept = found /\ report'.left = 0
    <3> HIDE DEF found
    <3>1. QED BY <2>1, <2>2 DEF Listings
  <2>4. Overlooked(found, found, <<>>) = {}
    <3>1. \A c \in found : Rank(found, c) \in Nat
      <4>1. IsFiniteSet(found)
        BY <1>1, <2>2, FS_Subset
      <4> HIDE DEF found
      <4>2. \A c \in found : Rank(found, c) \in 0 .. Cardinality(found) - 1
        BY <2>2, <4>1, RanksCount
      <4>3. Cardinality(found) \in Nat
        BY <4>1, FS_CardinalityType
      <4>4. QED BY <4>2, <4>3
    <3>2. Len(<<>>) * PageSize = 0
      BY PageSizeAssumption
    <3> HIDE DEF found
    <3>3. QED BY <3>1, <3>2 DEF Overlooked
  <2>5. Matching(cases, report.of)' = found
    BY <1>3, <2>3
  <2>6. ~Listed'
    BY <2>3 DEF Listed
  <2> HIDE DEF found
  <2>7. ListInv'
    <3>1. Cardinality(Overlooked(found, found, <<>>)) = 0
      BY <2>4, FS_EmptySet
    <3>2. QED BY <2>3, <2>5, <2>6, <3>1 DEF ListInv
  <2>8. ReaderFits'
    BY <2>3 DEF ReaderFits
  <2>9. FiguresInv' /\ SightInv'
    BY <2>3, KindsApart DEF FiguresInv, SightInv
  <2>10. QED BY <1>2, <2>7, <2>8, <2>9 DEF ReportInv
<1>7. CASE End
  BY <1>2, <1>7, NobodyReads DEF End, ReportInv
<1>8. QED BY <1>4, <1>5, <1>6, <1>7

(* ------------------- the workflow goes on meanwhile ------------------- *)

\* A step of the workflow that commits nothing on cases: the readers have nothing to note
LEMMA QuietStepKeeps ==
  ASSUME ReportInv, Next, cases' = cases, report' = report
  PROVE  ReportInv'
<1>1. TrailInv /\ TypeOK /\ IsFiniteSet(DOMAIN cases) /\ DOMAIN cases \subseteq Cases
  BY DEF ReportInv, TrailInv, TypeOK
<1>2. TrailInv' /\ IsFiniteSet(DOMAIN cases)'
  BY <1>1, TrailStep
<1>3. ReaderFits'
  BY DEF ReportInv, ReaderFits
<1>4. FiguresInv'
  <2> SUFFICES ASSUME report \in ReportRows PROVE FiguresInv'
    BY DEF FiguresInv
  <2> DEFINE statements == Statements(report.kind)
             done == report.done
             w == report.writes
             p == Population
             s == Among(DOMAIN cases, DoneStatuses)
             o == FirstContact
             n == FirstContact'
  <2>1. done \in Seq(Figures) /\ w \in Nat
    BY DEF ReportRows
  <2>2. p \in Nat /\ s \in Nat /\ o \in Nat
    BY <1>1, CountsFit
  <2>3. PICK c : OnlyChanged(c)
    BY <1>1, OneCaseChanges
  <2>4. /\ n \in Nat /\ o <= n
        /\ Population' = p /\ (Among(DOMAIN cases, DoneStatuses))' = s
    BY <1>1, <2>3, CountsDrift
  <2>5. FiguresFit(statements, done, w, p, s, o)
    BY DEF ReportInv, FiguresInv
  <2>6. /\ report'.kind = report.kind /\ report'.done = done /\ report'.writes = w
    OBVIOUS
  <2> HIDE DEF statements, done, w, p, s, o, n
  <2>7. FiguresFit(statements, done, w, p, s, n)
    <3>1. w <= w /\ p <= p /\ p - p <= w - w /\ s - s <= w - w /\ s - s <= w - w /\ o - n <= w - w
      BY <2>1, <2>2, <2>4
    <3>2. QED BY <2>1, <2>2, <2>4, <2>5, <3>1, FiguresDrift
  <2>8. QED BY <2>4, <2>6, <2>7 DEF FiguresInv, statements, n
<1>5. SightInv'
  <2> SUFFICES ASSUME report \in CaseLooks PROVE SightInv'
    BY DEF SightInv
  <2>1. report.of \in Cases
    BY DEF CaseLooks
  <2>2. \A s : Reached(history[report.of], s) => Reached(history'[report.of], s)
    BY <1>1, <2>1, HistoryRemembers
  <2>3. QED BY <2>2 DEF ReportInv, SightInv
<1>6. ListInv'
  <2>1. Matching(cases, report.of)' = Matching(cases, report.of) /\ Listed' = Listed
    BY DEF Matching, Listed
  <2>2. QED BY <2>1 DEF ReportInv, ListInv
<1>7. QED BY <1>2, <1>3, <1>4, <1>5, <1>6 DEF ReportInv

\* A commit on cases, which a reader under way notes
LEMMA NotedStepKeeps ==
  ASSUME ReportInv, Next, report # NoReport, report' = Noted
  PROVE  ReportInv'
<1>1. TrailInv /\ TypeOK /\ IsFiniteSet(DOMAIN cases) /\ DOMAIN cases \subseteq Cases
  BY DEF ReportInv, TrailInv, TypeOK
<1>2. TrailInv' /\ DOMAIN cases' \subseteq Cases
  <2>1. TrailInv'
    BY <1>1, TrailStep
  <2>2. QED BY <2>1 DEF TrailInv, TypeOK
<1>3. PICK c : OnlyChanged(c)
  BY <1>1, OneCaseChanges
<1>4. IsFiniteSet(DOMAIN cases')
  BY <1>1, <1>2, <1>3, CountsDrift
<1>5. DOMAIN cases \subseteq DOMAIN cases'
  BY <1>3 DEF OnlyChanged
<1>6. "case" # "list" /\ "list" \notin Reports /\ "case" \notin Reports
  BY DEF Reports
<1>7. CASE report \in ReportRows
  <2> DEFINE statements == Statements(report.kind)
             done == report.done
             w == report.writes
             v == w + 1
             p == Population
             s == Among(DOMAIN cases, DoneStatuses)
             o == FirstContact
             q == Population'
             t == (Among(DOMAIN cases, DoneStatuses))'
             n == FirstContact'
  <2>1. done \in Seq(Figures) /\ w \in Nat /\ report.kind \in Reports
    BY <1>7 DEF ReportRows
  <2>2. report' = [report EXCEPT !.writes = v]
    BY <1>6, <2>1 DEF Noted
  <2>3. /\ report' \in ReportRows /\ report'.kind = report.kind /\ report'.done = done
        /\ report'.writes = v
    BY <1>7, <2>1, <2>2 DEF ReportRows
  <2>4. p \in Nat /\ s \in Nat /\ o \in Nat
    BY <1>1, CountsFit
  <2>5. /\ q \in Nat /\ t \in Nat /\ n \in Nat
        /\ p <= q /\ q <= p + 1 /\ s <= t + 1 /\ t <= s + 1 /\ o <= n + 1
    BY <1>1, <1>2, <1>3, CountsDrift
  <2>6. FiguresFit(statements, done, w, p, s, o)
    BY <1>7 DEF ReportInv, FiguresInv
  <2>7. ReaderFits'
    <3>1. Len(report'.done) <= Len(Statements(report'.kind))
      BY <1>7, <2>3, KindsApart DEF ReportInv, ReaderFits
    <3>2. QED BY <2>3, <3>1 DEF ReaderFits
  <2>8. SightInv' /\ ListInv'
    BY <2>3, KindsApart DEF SightInv, ListInv
  <2> HIDE DEF statements, done, w, p, s, o, q, t, n
  <2>9. FiguresFit(statements, done, v, q, t, n)
    <3>1. v \in Nat /\ w <= v /\ p <= q /\ q - p <= v - w /\ s - t <= v - w /\ t - s <= v - w /\ o - n <= v - w
      BY <2>1, <2>4, <2>5
    <3> HIDE DEF v
    <3>2. QED BY <2>1, <2>4, <2>5, <2>6, <3>1, FiguresDrift
  <2>10. FiguresInv'
    BY <2>3, <2>9 DEF FiguresInv, statements, q, t, n
  <2>11. QED BY <1>2, <1>4, <2>7, <2>8, <2>10 DEF ReportInv
<1>8. CASE report \in CaseLooks
  <2>1. /\ report.of \in Cases /\ report.writes \in Nat /\ report.kind = "case"
        /\ report.of \in DOMAIN cases /\ Len(report.done) <= Len(Statements("case"))
    BY <1>8, KindsApart DEF CaseLooks, ReportInv, ReaderFits
  <2>2. report' = [report EXCEPT !.writes = report.writes + 1]
    BY <1>6, <2>1 DEF Noted
  <2>3. report' \in CaseLooks /\ report'.of = report.of /\ report'.done = report.done
    BY <1>8, <2>1, <2>2 DEF CaseLooks
  <2>4. \A x : Reached(history[report.of], x) => Reached(history'[report.of], x)
    BY <1>1, <2>1, HistoryRemembers
  <2>5. SightInv'
    BY <1>8, <2>3, <2>4 DEF ReportInv, SightInv
  <2>6. ReaderFits'
    BY <1>5, <2>1, <2>3 DEF ReaderFits
  <2>7. FiguresInv' /\ ListInv'
    BY <2>3, KindsApart DEF FiguresInv, ListInv
  <2>8. QED BY <1>2, <1>4, <2>5, <2>6, <2>7 DEF ReportInv
<1>9. CASE report \in Listings
  <2> DEFINE found == Matching(cases, report.of)
             later == Matching(cases', report.of)
             kept == report.kept
             done == report.done
             left == Cardinality(found \ later)
             all == report.left + left
             now == kept \cap later
  <2>1. /\ report.kind = "list" /\ report.writes \in Nat /\ report.left \in Nat
        /\ kept \in SUBSET Cases /\ done \in Seq(SUBSET DOMAIN cases) /\ done \in Seq(SUBSET Cases)
    BY <1>9, KindsApart DEF Listings, ReportInv, ReaderFits
  <2>2. /\ kept \subseteq found /\ Cardinality(Overlooked(found, kept, done)) <= report.left
        /\ Listed => Cardinality(kept \ Seen(done)) <= report.left
    BY <1>9 DEF ReportInv, ListInv
  <2>3. found \in SUBSET Cases /\ later \in SUBSET Cases /\ IsFiniteSet(found) /\ IsFiniteSet(later)
    <3>1. found \in SUBSET DOMAIN cases /\ later \in SUBSET DOMAIN cases'
      BY DEF Matching
    <3>2. QED BY <1>1, <1>2, <1>4, <3>1, FS_Subset
  <2>4. found \subseteq later \cup {c}
    BY <1>3 DEF OnlyChanged, Matching
  <2>5. report' = [report EXCEPT !.writes = report.writes + 1, !.kept = now, !.left = all]
    BY <2>1 DEF Noted
  <2> DEFINE k == Len(done) * PageSize
  <2>6. k \in Nat
    <3>1. Len(done) \in Nat /\ PageSize \in Nat
      BY <2>1, PageSizeAssumption
    <3> HIDE DEF done
    <3>2. QED BY <3>1
  <2> HIDE DEF found, later, kept, done, k
  <2> DEFINE before == Overlooked(found, kept, done)
             after == Overlooked(later, now, done)
  <2>7. /\ before = {d \in kept \ Seen(done) : Rank(found, d) < k}
        /\ after = {d \in (kept \cap later) \ Seen(done) : Rank(later, d) < k}
    BY DEF Overlooked, k
  <2>8. /\ Cardinality(before) \in Nat /\ Cardinality(after) \in Nat /\ left \in Nat
        /\ Cardinality(after) <= Cardinality(before) + left
    <3> DEFINE seen == Seen(done)
    <3> HIDE DEF before, after, seen
    <3>1. LET b == {d \in kept \ seen : Rank(found, d) < k}
              a == {d \in (kept \cap later) \ seen : Rank(later, d) < k}
              l == found \ later
          IN  /\ Cardinality(b) \in Nat /\ Cardinality(a) \in Nat /\ Cardinality(l) \in Nat
              /\ Cardinality(a) <= Cardinality(b) + Cardinality(l)
      BY <2>2, <2>3, <2>4, <2>6, OneOverlookedMore
    <3>2. QED BY <2>7, <3>1 DEF seen
  <2> HIDE DEF before, after, left
  <2>9. all \in Nat /\ Cardinality(after) <= all
    BY <2>1, <2>2, <2>8 DEF before
  <2>10. now \in SUBSET Cases /\ now \in SUBSET kept
    BY <2>1
  <2> HIDE DEF now, all
  <2>11. /\ report' \in Listings /\ report'.of = report.of /\ report'.done = done
         /\ report'.kept = now /\ report'.left = all
    <3> DEFINE v == report.writes + 1
    <3>1. v \in Nat /\ report' = [report EXCEPT !.writes = v, !.kept = now, !.left = all]
      BY <2>1, <2>5
    <3>2. all \in Nat /\ now \in SUBSET Cases
      BY <2>9, <2>10
    <3> HIDE DEF v
    <3>3. QED BY <1>9, <3>1, <3>2 DEF Listings, done
  <2>12. Listed' => Cardinality(now \ Seen(done)) <= all
    <3> SUFFICES ASSUME Listed' PROVE Cardinality(now \ Seen(done)) <= all
      OBVIOUS
    <3>1. Listed
      BY <2>11 DEF Listed, done
    <3>2. now \ Seen(done) \in SUBSET (kept \ Seen(done)) /\ kept \ Seen(done) \in SUBSET found
      BY <2>2, <2>10
    <3>3. IsFiniteSet(kept \ Seen(done))
      BY <2>3, <3>2, FS_Subset
    <3>4. /\ IsFiniteSet(now \ Seen(done))
          /\ Cardinality(now \ Seen(done)) <= Cardinality(kept \ Seen(done))
      BY <3>2, <3>3, FS_Subset
    <3>5. Cardinality(now \ Seen(done)) \in Nat /\ Cardinality(kept \ Seen(done)) \in Nat
      BY <3>3, <3>4, FS_CardinalityType
    <3>6. QED BY <2>1, <2>2, <2>8, <3>1, <3>4, <3>5 DEF all
  <2>13. ListInv'
    <3>1. Matching(cases, report.of)' = later
      BY <2>11 DEF later
    <3>2. now \subseteq later
      BY DEF now
    <3>3. QED BY <2>9, <2>11, <2>12, <3>1, <3>2 DEF ListInv, after
  <2>14. ReaderFits'
    <3>1. done \in Seq(SUBSET DOMAIN cases')
      <4>1. \A i \in 1 .. Len(done) : done[i] \in SUBSET DOMAIN cases'
        BY <1>5, <2>1
      <4>2. QED BY <2>1, <4>1
    <3>2. QED BY <2>11, <3>1 DEF ReaderFits
  <2>15. FiguresInv' /\ SightInv'
    BY <2>11, KindsApart DEF FiguresInv, SightInv
  <2>16. QED BY <1>2, <1>4, <2>13, <2>14, <2>15 DEF ReportInv
<1>10. QED BY <1>7, <1>8, <1>9 DEF ReportInv, ReaderFits

\* Whoever moves, the invariant holds on
LEMMA ReportStep ==
  ASSUME ReportInv, [ReportNext]_reportVars
  PROVE  ReportInv'
<1>1. CASE UNCHANGED reportVars
  <2>1. UNCHANGED <<vars, report>>
    BY <1>1 DEF reportVars
  <2>2. TrailInv'
    BY <2>1, TrailStep DEF ReportInv
  <2>3. cases' = cases /\ history' = history /\ escalations' = escalations
    BY <2>1 DEF vars
  <2>4. ReaderFits' /\ SightInv' /\ IsFiniteSet(DOMAIN cases)'
    BY <2>1, <2>3 DEF ReportInv, ReaderFits, SightInv
  <2>5. FiguresInv'
    <3>1. /\ Population' = Population /\ FirstContact' = FirstContact
          /\ (Among(DOMAIN cases, DoneStatuses))' = Among(DOMAIN cases, DoneStatuses)
      BY <2>3 DEF Population, FirstContact, Among
    <3>2. QED BY <2>1, <3>1 DEF ReportInv, FiguresInv
  <2>6. ListInv'
    <3>1. Matching(cases, report.of)' = Matching(cases, report.of) /\ Listed' = Listed
      BY <2>1, <2>3 DEF Matching, Listed
    <3>2. QED BY <2>1, <3>1 DEF ReportInv, ListInv
  <2>7. QED BY <2>2, <2>4, <2>5, <2>6 DEF ReportInv
<1>2. CASE Meanwhile
  <2>1. Next
    BY <1>2 DEF Meanwhile
  <2>2. CASE report = NoReport /\ report' = report
    <3>1. TrailInv' /\ IsFiniteSet(DOMAIN cases)'
      <4>1. TrailInv' /\ DOMAIN cases' \subseteq Cases
        <5>1. TrailInv'
          BY <2>1, TrailStep DEF ReportInv
        <5>2. QED BY <5>1 DEF TrailInv, TypeOK
      <4>2. PICK c : OnlyChanged(c)
        BY <2>1, OneCaseChanges DEF ReportInv, TrailInv
      <4>3. QED BY <4>1, <4>2, CountsDrift DEF ReportInv
    <3>2. QED BY <2>2, <3>1, NobodyReads DEF ReportInv
  <2>3. CASE cases' = cases /\ report' = report
    BY <2>1, <2>3, QuietStepKeeps
  <2>4. CASE report # NoReport /\ report' = Noted
    BY <2>1, <2>4, NotedStepKeeps
  <2>5. QED BY <1>2, <2>2, <2>3, <2>4 DEF Meanwhile
<1>3. CASE Step
  BY <1>3, StepKeeps
<1>4. CASE StepCase
  BY <1>4, StepCaseKeeps
<1>5. CASE StepList
  BY <1>5, StepListKeeps
<1>6. CASE \/ \E kind \in Reports, u \in Users : Begin(kind, u)
           \/ \E c \in Cases : BeginCase(c)
           \/ \E filter \in Filters : BeginList(filter)
           \/ End
  <2>1. UNCHANGED vars
    BY <1>6 DEF Begin, BeginCase, BeginList, End
  <2>2. QED BY <1>6, <2>1, BeginsKeep
<1>7. QED BY <1>1, <1>2, <1>3, <1>4, <1>5, <1>6 DEF ReportNext

\* The invariant of the readers
LEMMA AlwaysReport == ReportSpec => []ReportInv
<1>1. ReportInit => ReportInv
  <2> SUFFICES ASSUME ReportInit PROVE ReportInv
    OBVIOUS
  <2>1. report = NoReport /\ TrailInv /\ IsFiniteSet(DOMAIN cases)
    BY SeededIsTyped DEF ReportInit
  <2>2. QED BY <2>1, KindsApart DEF ReportInv, ReaderFits, FiguresInv, SightInv, ListInv
<1>2. ReportInv /\ [ReportNext]_reportVars => ReportInv'
  BY ReportStep
<1>3. QED BY <1>1, <1>2, PTL DEF ReportSpec

(* --------------------------- what readers see ------------------------- *)

\* A reader under way always has the fields its kind needs, with values of their types
THEOREM ReadersAreTyped == ReportSpec => []ReportTypeOK
<1>1. ReportInv => ReportTypeOK
  <2> SUFFICES ASSUME ReportInv PROVE ReportTypeOK
    OBVIOUS
  <2>1. CASE report = NoReport
    BY <2>1 DEF ReportTypeOK
  <2>2. CASE report \in ReportRows
    BY <2>2, KindsApart DEF ReportInv, ReaderFits, ReportTypeOK, ReportRows
  <2>3. CASE report \in CaseLooks
    BY <2>3, KindsApart DEF ReportInv, ReaderFits, ReportTypeOK, CaseLooks
  <2>4. CASE report \in Listings
    <3>1. report.done \in Seq(SUBSET DOMAIN cases)
      BY <2>4, KindsApart DEF ReportInv, ReaderFits
    <3>2. report.kept \subseteq DOMAIN cases
      BY <2>4 DEF ReportInv, ListInv, Matching
    <3>3. QED BY <2>4, <3>1, <3>2 DEF ReportTypeOK, Listings
  <2>5. QED BY <2>1, <2>2, <2>3, <2>4 DEF ReportInv, ReaderFits
<1>2. QED BY <1>1, AlwaysReport, PTL

\* What the statements of a report returned fits what they return now, and each other
LEMMA GotFits ==
  ASSUME ReportInv, ReportUnderWay, NEW a, NEW f \in Got(a)
  PROVE  /\ f.total \in Nat /\ f.active \in Nat /\ f.resolved \in Nat /\ f.escalated \in Nat
         /\ report.writes \in Nat
         /\ FigureFits(a, f, report.writes, Population, Among(DOMAIN cases, DoneStatuses), FirstContact)
         /\ \E i \in 1 .. Len(report.done) : f = report.done[i] /\ Statements(report.kind)[i] = a
<1>1. "case" \notin Reports /\ "list" \notin Reports
  BY DEF Reports
<1>2. report \in ReportRows
  BY <1>1, KindsApart DEF ReportUnderWay, ReportInv, ReaderFits
<1>3. report.done \in Seq(Figures) /\ report.writes \in Nat
  BY <1>2 DEF ReportRows
<1>4. PICK i \in 1 .. Len(report.done) : f = report.done[i] /\ Statements(report.kind)[i] = a
  BY DEF Got
<1>5. f \in Figures
  BY <1>3, <1>4
<1>6. FiguresFit(Statements(report.kind), report.done, report.writes,
                 Population, Among(DOMAIN cases, DoneStatuses), FirstContact)
  BY <1>2 DEF ReportInv, FiguresInv
<1>7. FigureFits(a, f, report.writes, Population, Among(DOMAIN cases, DoneStatuses), FirstContact)
  BY <1>4, <1>6 DEF FiguresFit
<1>8. QED BY <1>3, <1>4, <1>5, <1>7 DEF Figures

\* Figures of statements that stand in this order fit each other
LEMMA GotInOrder ==
  ASSUME ReportInv, ReportUnderWay, NEW a, NEW b, NEW f \in Got(a), NEW g \in Got(b),
         \/ a = "volume" /\ b \in {"category", "fcr", "resolved"}
         \/ a = "fcr" /\ b = "escalation"
         \/ a = "total" /\ b \in {"by_status", "by_category"}
  PROVE  PairFits(a, f, b, g, report.writes)
<1>1. "case" \notin Reports /\ "list" \notin Reports
  BY DEF Reports
<1>2. report \in ReportRows /\ report.kind \in Reports /\ Len(report.done) <= Len(Statements(report.kind))
  BY <1>1, KindsApart DEF ReportUnderWay, ReportInv, ReaderFits
<1>3. report.done \in Seq(Figures) /\ Len(report.done) \in Nat /\ Len(Statements(report.kind)) \in Nat
  BY <1>2, StatementOrder DEF ReportRows
<1>4. PICK i \in 1 .. Len(report.done) : f = report.done[i] /\ Statements(report.kind)[i] = a
  BY GotFits
<1>5. PICK j \in 1 .. Len(report.done) : g = report.done[j] /\ Statements(report.kind)[j] = b
  BY GotFits
<1>6. i \in 1 .. Len(Statements(report.kind)) /\ j \in 1 .. Len(Statements(report.kind))
  BY <1>2, <1>3
<1>7. i < j
  <2>1. CASE a = "volume" /\ b \in {"category", "fcr", "resolved"}
    BY <1>2, <1>4, <1>5, <1>6, <2>1, StatementOrder
  <2>2. CASE a = "fcr" /\ b = "escalation"
    BY <1>2, <1>4, <1>5, <1>6, <2>2, StatementOrder
  <2>3. CASE a = "total" /\ b \in {"by_status", "by_category"}
    BY <1>2, <1>4, <1>5, <1>6, <2>3, StatementOrder
  <2>4. QED BY <2>1, <2>2, <2>3
<1>8. i \in 1 .. (j - 1)
  BY <1>3, <1>7
<1>9. FiguresFit(Statements(report.kind), report.done, report.writes,
                 Population, Among(DOMAIN cases, DoneStatuses), FirstContact)
  BY <1>2 DEF ReportInv, FiguresInv
<1>10. QED BY <1>4, <1>5, <1>8, <1>9 DEF FiguresFit

\* No table of a report contradicts itself: its columns are a partition of its total, and no rate
\* of the report is more than all of it
THEOREM TablesAlwaysAddUp == ReportSpec => []TablesAddUp
<1>1. ReportInv => TablesAddUp
  <2> SUFFICES ASSUME ReportInv, ReportUnderWay
               PROVE  /\ \A f \in UNION {Got(s) : s \in {"volume", "by_status", "workload"}} :
                           f.active + f.resolved + f.escalated = f.total
                      /\ \A f \in UNION {Got(s) : s \in {"category", "fcr", "escalation"}} :
                           f.resolved + f.escalated <= f.total
    BY DEF TablesAddUp
  <2>1. ASSUME NEW s \in {"volume", "by_status", "workload"}, NEW f \in Got(s)
        PROVE  f.active + f.resolved + f.escalated = f.total
    BY GotFits DEF FigureFits
  <2>2. ASSUME NEW s \in {"category", "fcr", "escalation"}, NEW f \in Got(s)
        PROVE  f.resolved + f.escalated <= f.total
    BY GotFits DEF FigureFits
  <2>3. QED BY <2>1, <2>2
<1>2. QED BY <1>1, AlwaysReport, PTL

\* A torn report is off by the writes it overlapped with and no more
THEOREM TornNoMoreThanWrites == ReportSpec => []TornByWritesOnly
<1>1. ReportInv => TornByWritesOnly
  <2> SUFFICES ASSUME ReportInv, ReportUnderWay
               PROVE  /\ \A v \in Got("volume") :
                           /\ \A g \in Got("category") : /\ Close(v.total, g.total)
                                                         /\ Close(v.resolved, g.resolved)
                           /\ \A g \in Got("resolved") : Close(v.resolved, g.resolved)
                      /\ \A f \in Got("fcr"), e \in Got("escalation") :
                           f.resolved + e.escalated <= e.total + report.writes
                      /\ \A t \in Got("total"), s \in Got("by_status") :
                           Close(t.total, s.active + s.resolved + s.escalated)
    BY DEF TornByWritesOnly
  <2> DEFINE w == report.writes
  <2>1. ASSUME NEW v \in Got("volume"), NEW g \in Got("category")
        PROVE  Close(v.total, g.total) /\ Close(v.resolved, g.resolved)
    <3>1. PairFits("volume", v, "category", g, w)
      BY GotInOrder
    <3>2. /\ v.total \in Nat /\ v.resolved \in Nat /\ g.total \in Nat /\ g.resolved \in Nat /\ w \in Nat
      BY GotFits
    <3>3. QED BY <3>1, <3>2 DEF PairFits, Close
  <2>2. ASSUME NEW v \in Got("volume"), NEW g \in Got("resolved")
        PROVE  Close(v.resolved, g.resolved)
    <3>1. PairFits("volume", v, "resolved", g, w)
      BY GotInOrder
    <3>2. QED BY <3>1 DEF PairFits, Close
  <2>3. ASSUME NEW f \in Got("fcr"), NEW e \in Got("escalation")
        PROVE  f.resolved + e.escalated <= e.total + report.writes
    <3>1. PairFits("fcr", f, "escalation", e, w)
      BY GotInOrder
    <3>2. QED BY <3>1 DEF PairFits
  <2>4. ASSUME NEW t \in Got("total"), NEW s \in Got("by_status")
        PROVE  Close(t.total, s.active + s.resolved + s.escalated)
    <3>1. PairFits("total", t, "by_status", s, w)
      BY GotInOrder
    <3>2. s.active + s.resolved + s.escalated = s.total
      BY GotFits DEF FigureFits
    <3>3. t.total \in Nat /\ s.total \in Nat /\ w \in Nat
      BY GotFits
    <3>4. Close(t.total, s.total)
      BY <3>1, <3>3 DEF PairFits, Close
    <3>5. QED BY <3>2, <3>4
  <2>5. QED BY <2>1, <2>2, <2>3, <2>4
<1>2. QED BY <1>1, AlwaysReport, PTL

\* What a report counts later is never fewer cases
THEOREM TotalsOnlyGrow == ReportSpec => []TotalsNeverShrink
<1>1. ReportInv => TotalsNeverShrink
  <2> SUFFICES ASSUME ReportInv, ReportUnderWay
               PROVE  /\ \A v \in Got("volume"), f \in Got("fcr") : v.total <= f.total
                      /\ \A f \in Got("fcr"), e \in Got("escalation") : f.total <= e.total
                      /\ \A t \in Got("total"), g \in Got("by_category") : t.total <= g.total
    BY DEF TotalsNeverShrink
  <2>1. ASSUME NEW v \in Got("volume"), NEW f \in Got("fcr") PROVE v.total <= f.total
    <3>1. PairFits("volume", v, "fcr", f, report.writes)
      BY GotInOrder
    <3>2. QED BY <3>1 DEF PairFits
  <2>2. ASSUME NEW f \in Got("fcr"), NEW e \in Got("escalation") PROVE f.total <= e.total
    <3>1. PairFits("fcr", f, "escalation", e, report.writes)
      BY GotInOrder
    <3>2. QED BY <3>1 DEF PairFits
  <2>3. ASSUME NEW t \in Got("total"), NEW g \in Got("by_category") PROVE t.total <= g.total
    <3>1. PairFits("total", t, "by_category", g, report.writes)
      BY GotInOrder
    <3>2. QED BY <3>1 DEF PairFits
  <2>4. QED BY <2>1, <2>2, <2>3
<1>2. QED BY <1>1, AlwaysReport, PTL

\* The history shown with a case always explains the status shown with it
THEOREM StatusAlwaysExplained == ReportSpec => []StatusExplained
<1>1. ReportInv => StatusExplained
  <2> SUFFICES ASSUME ReportInv, report # NoReport, report.kind = "case",
                      Len(report.done) = Len(Statements("case")),
                      NEW i \in 1 .. Len(report.done), NEW j \in 1 .. Len(report.done),
                      Statements("case")[i] = "row", Statements("case")[j] = "history"
               PROVE  report.done[i].status \in {"open"} \cup report.done[j].reached
    BY DEF StatusExplained
  <2>1. Statements("case") = <<"row", "notes", "history">>
    BY DEF Statements
  <2>2. Len(report.done) = 3 /\ i = 1 /\ j = 3
    BY <2>1
  <2>3. report \in CaseLooks
    <3>1. "case" # "list" /\ "case" \notin Reports
      BY DEF Reports
    <3>2. QED BY <3>1, KindsApart DEF ReportInv, ReaderFits
  <2>4. QED BY <2>2, <2>3 DEF ReportInv, SightInv
<1>2. QED BY <1>1, AlwaysReport, PTL

\* A listing read to its end misses no more cases than left its filter meanwhile
THEOREM OnlyLeaversAreMissed == ReportSpec => []MissedByLeaversOnly
<1>1. ReportInv => MissedByLeaversOnly
  <2> SUFFICES ASSUME ReportInv, report # NoReport, report.kind = "list", Listed
               PROVE  Cardinality(report.kept \ UNION {report.done[i] : i \in 1 .. Len(report.done)})
                        <= report.left
    BY DEF MissedByLeaversOnly
  <2>1. report \in Listings
    <3>1. "case" # "list" /\ "list" \notin Reports
      BY DEF Reports
    <3>2. QED BY <3>1, KindsApart DEF ReportInv, ReaderFits
  <2>2. QED BY <2>1 DEF ReportInv, ListInv, Seen
<1>2. QED BY <1>1, AlwaysReport, PTL

(* ------------------ the workflow on a generated database --------------- *)

\* Besides its reader, the composition takes steps of the workflow only
LEMMA WorkflowSteps == [ReportNext]_reportVars => [Next]_vars
BY DEF ReportNext, reportVars, Meanwhile, Begin, Step, BeginCase, StepCase, BeginList, StepList, End

\* The history agrees with the row of every case, generated ones included
THEOREM GeneratedHistoryAgrees == ReportSpec => []HistoryAgrees
<1>1. ReportInit => HistoryInv
  BY SeededHistories DEF ReportInit
<1>2. HistoryInv /\ [ReportNext]_reportVars => HistoryInv'
  BY HistoryStep, WorkflowSteps
<1>3. HistoryInv => HistoryAgrees
  BY DEF HistoryInv
<1>4. QED BY <1>1, <1>2, <1>3, PTL DEF ReportSpec

\* On a generated database, too, old statuses were there before, and agents only pick up
THEOREM GeneratedTrailIsReal == ReportSpec => [](OldStatusesWereReal /\ AgentsOnlyPickUp)
<1>1. ReportInv => TrailInv
  BY DEF ReportInv
<1>2. QED BY <1>1, TrailIsReal, AlwaysReport, PTL

\* Generated closed cases are left as those closed by the service are
THEOREM GeneratedClosedIsLeftUnseen == ReportSpec => ClosedIsLeftUnseen
<1>1. ReportInv => TrailInv
  BY DEF ReportInv
<1>2. QED BY <1>1, WorkflowSteps, ClosedStep, AlwaysReport, PTL DEF ReportSpec, ClosedIsLeftUnseen

=============================================================================

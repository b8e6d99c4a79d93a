--------------------------- MODULE IncomingCalls ----------------------------
(***************************************************************************)
(* Simulated calls on their way to the agents' consoles.  A worker process *)
(* keeps one slot per agent in its memory (call_simulator.py); a console   *)
(* polls for its agent, shows what it is given (Layout.jsx) and answers    *)
(* with accept or dismiss (IncomingCall.jsx).                              *)
(*                                                                         *)
(* Each HTTP request is served by whichever worker takes the connection.   *)
(* The timer of a console does not wait for the last poll: polls and an    *)
(* answer of one console may be under way together, what a poll brings may *)
(* be out of date when it arrives, and polls may overtake each other.      *)
(***************************************************************************)
EXTENDS Naturals, FiniteSets

CONSTANTS
  Staff,     \* rows of cx_users
  Pool,      \* the active agents and senior agents: who a call without a target may go to
  Polling,   \* those with a console that polls: agents and senior agents
  Calls,     \* the calls that may come, one payload each
  Polls,     \* the polls of a console that can be under way at once
  Workers,   \* the server processes
  MaxLost,   \* how many polls may fail
  None

ASSUME StaffAssumption == Pool \subseteq Staff /\ Polling \subseteq Staff
ASSUME MaxLostAssumption == MaxLost \in Nat
ASSUME NoneAssumption == None \notin Calls \cup Staff

VARIABLES
  slot,      \* _incoming_calls of each worker
  fate,      \* what became of each call
  routed,    \* the member of staff each call was given to
  shown,     \* incomingCall of Layout, by console
  phase,     \* phase of IncomingCall, by console
  poll,      \* the polls under way, by console
  answer,    \* the accept or dismiss under way, by console
  lost       \* how many polls have failed

server == <<slot, fate, routed>>
console == <<shown, phase, poll, answer, lost>>
vars == <<server, console>>

Call == Calls \cup {None}

\* Where a poll is: nowhere, on its way, or back with what the slot held
Poll == [pc : {"idle", "sent"}] \cup [pc : {"back"}, call : Call]

\* Where an answer is: nowhere, on its way, or served
Answer == [pc : {"idle"}] \cup [pc : {"sent", "served"}, says : {"accept", "dismiss"}]

TypeOK ==
  /\ slot \in [Workers -> [Staff -> Call]]
  /\ fate \in [Calls -> {"none", "waiting", "accepted", "dismissed", "replaced"}]
  /\ routed \in [Calls -> Staff \cup {None}]
  /\ shown \in [Polling -> Call]
  /\ phase \in [Polling -> {"ringing", "connected"}]
  /\ poll \in [Polling -> [Polls -> Poll]]
  /\ answer \in [Polling -> Answer]
  /\ lost \in 0 .. MaxLost

Init ==
  /\ slot = [w \in Workers |-> [u \in Staff |-> None]]
  /\ fate = [c \in Calls |-> "none"]
  /\ routed = [c \in Calls |-> None]
  /\ shown = [a \in Polling |-> None]
  /\ phase = [a \in Polling |-> "ringing"]
  /\ poll = [a \in Polling |-> [p \in Polls |-> [pc |-> "idle"]]]
  /\ answer = [a \in Polling |-> [pc |-> "idle"]]
  /\ lost = 0

(* ------------------------------- server ------------------------------- *)

\* _get_agent_by_id or _pick_available_agent: the target if there is such a row, whatever
\* its role, otherwise any active agent; nobody's presence is looked at
Routes(target) == IF target \in Staff THEN {target} ELSE Pool

\* The call that leaves a slot without having been answered
Displaced(w, u) == IF slot[w][u] = None THEN {} ELSE {slot[w][u]}

\* POST /simulate/incoming-call: the screen-pop is put together and pushed
Ring(w, c, target, u) ==
  /\ fate[c] = "none"
  /\ u \in Routes(target)
  /\ slot' = [slot EXCEPT ![w][u] = c]
  /\ fate' = [d \in Calls |-> IF d = c THEN "waiting"
                              ELSE IF d \in Displaced(w, u) THEN "replaced" ELSE fate[d]]
  /\ routed' = [routed EXCEPT ![c] = u]
  /\ UNCHANGED console

\* Mutant: accept looks at the slot without emptying it
Peek(w, a) == slot

\* pop(agent_id, None)
Popped(w, a) == [slot EXCEPT ![w][a] = None]

\* Mutant: the word of the request is kept
Said(says) == says

\* The route is the answer
Outcome(says) == IF says = "accept" THEN "accepted" ELSE "dismissed"

\* POST /simulate/incoming/accept and /dismiss: whatever is in the slot of this worker
ServeAnswer(a, w) ==
  /\ answer[a].pc = "sent"
  /\ slot' = Popped(w, a)
  /\ fate' = [c \in Calls |->
                IF c = slot[w][a] THEN Outcome(answer[a].says) ELSE fate[c]]
  /\ answer' = [answer EXCEPT ![a].pc = "served"]
  /\ UNCHANGED <<routed, shown, phase, poll, lost>>

\* Mutant: a poll takes the call out of the slot
PollTakes(w, a) == [slot EXCEPT ![w][a] = None]

\* get(agent_id)
PollLeaves(w, a) == slot

\* GET /simulate/incoming
ServePoll(a, p, w) ==
  /\ poll[a][p].pc = "sent"
  /\ poll' = [poll EXCEPT ![a][p] = [pc |-> "back", call |-> slot[w][a]]]
  /\ slot' = PollLeaves(w, a)
  /\ UNCHANGED <<fate, routed, shown, phase, answer, lost>>

(* ------------------------------- console ------------------------------ *)

\* setInterval(pollForCalls, POLL_INTERVAL_MS)
SendPoll(a, p) ==
  /\ poll[a][p].pc = "idle"
  /\ poll' = [poll EXCEPT ![a][p] = [pc |-> "sent"]]
  /\ UNCHANGED <<server, shown, phase, answer, lost>>

\* Mutant: a console that shows a call keeps it
ShowIfFree(a, c) == IF c # None /\ shown[a] = None THEN c ELSE shown[a]

\* setIncomingCall: whatever is shown, also during a connected call
Show(a, c) == IF c # None THEN c ELSE shown[a]

ReceivePoll(a, p) ==
  /\ poll[a][p].pc = "back"
  /\ shown' = [shown EXCEPT ![a] = Show(a, poll[a][p].call)]
  /\ poll' = [poll EXCEPT ![a][p] = [pc |-> "idle"]]
  /\ UNCHANGED <<server, phase, answer, lost>>

\* "silently ignore poll failures"
LosePoll(a, p) ==
  /\ poll[a][p].pc # "idle"
  /\ lost < MaxLost
  /\ poll' = [poll EXCEPT ![a][p] = [pc |-> "idle"]]
  /\ lost' = lost + 1
  /\ UNCHANGED <<server, shown, phase, answer>>

\* The buttons of a ringing call
SendAnswer(a, says) ==
  /\ shown[a] # None /\ phase[a] = "ringing"
  /\ answer[a].pc = "idle"
  /\ answer' = [answer EXCEPT ![a] = [pc |-> "sent", says |-> says]]
  /\ UNCHANGED <<server, shown, phase, poll, lost>>

\* setIncomingCall(null): the popup is unmounted, its phase starts anew
Close(a) ==
  /\ shown' = [shown EXCEPT ![a] = None]
  /\ phase' = [phase EXCEPT ![a] = "ringing"]

\* Back in handleAccept or handleDecline: what the server said is not looked at, nor
\* whether it answered
ReceiveAnswer(a) ==
  /\ answer[a].pc \in {"sent", "served"}
  /\ answer' = [answer EXCEPT ![a] = [pc |-> "idle"]]
  /\ \/ answer[a].says = "accept" /\ phase' = [phase EXCEPT ![a] = "connected"] /\ UNCHANGED shown
     \/ answer[a].says = "dismiss" /\ Close(a)
  /\ UNCHANGED <<server, poll, lost>>

\* handleEndCall
EndCall(a) ==
  /\ shown[a] # None /\ phase[a] = "connected"
  /\ answer[a].pc = "idle"
  /\ Close(a)
  /\ UNCHANGED <<server, poll, answer, lost>>

(* --------------------------- specification ---------------------------- *)

Next ==
  \/ \E w \in Workers, c \in Calls, target \in Staff \cup {None}, u \in Staff : Ring(w, c, target, u)
  \/ \E a \in Polling :
       \/ \E w \in Workers : ServeAnswer(a, w)
       \/ \E p \in Polls :
            \/ SendPoll(a, p) \/ ReceivePoll(a, p) \/ LosePoll(a, p)
            \/ \E w \in Workers : ServePoll(a, p, w)
       \/ \E says \in {"accept", "dismiss"} : SendAnswer(a, says)
       \/ ReceiveAnswer(a) \/ EndCall(a)

\* The timer of a console goes on, what it sent is served and comes back.  Connections are
\* spread over the workers: none of them is passed over for ever.  Nothing obliges anybody
\* to call, to answer or to hang up.
Fairness ==
  \A a \in Polling, p \in Polls :
    /\ WF_vars(SendPoll(a, p))
    /\ \A w \in Workers : SF_vars(ServePoll(a, p, w))
    /\ WF_vars(ReceivePoll(a, p))

Spec == Init /\ [][Next]_vars /\ Fairness

(* ----------------------------- properties ----------------------------- *)

\* Where a call waits
Places(c) == {p \in Workers \X Staff : slot[p[1]][p[2]] = c}

\* No call is lost silently or handed out twice: a call that waits is in exactly one slot, that
\* of the agent it was routed to; one that was accepted, dismissed or replaced is in none,
\* and no console holds or is about to be given a call of somebody else
CallsAccounted ==
  /\ \A c \in Calls :
       /\ fate[c] = "waiting" => \E w \in Workers : Places(c) = {<<w, routed[c]>>}
       /\ fate[c] # "waiting" => Places(c) = {}
  /\ \A a \in Polling :
       /\ shown[a] # None => routed[shown[a]] = a
       /\ \A p \in Polls :
            poll[a][p].pc = "back" /\ poll[a][p].call # None => routed[poll[a][p].call] = a

\* The fate of a call is decided once
FateFinal ==
  [][\A c \in Calls :
       fate[c] \in {"accepted", "dismissed", "replaced"} => fate'[c] = fate[c]]_fate

\* A call waiting for an agent with a console gets to the screen, unless it is answered or
\* displaced before: also while another call is shown, also if polls fail or overtake each other
CallReachesConsole ==
  \A a \in Polling, w \in Workers, c \in Calls :
    slot[w][a] = c ~> (shown[a] = c \/ slot[w][a] # c)

=============================================================================

-------------------------- MODULE CaseProperties ---------------------------
(***************************************************************************)
(* What should be true of the case workflow of CaseService.  Which of      *)
(* these hold, and with which clients, is what the runs of MCCases check.  *)
(***************************************************************************)
EXTENDS CaseService

(* -------------------- true under every interleaving ------------------- *)

\* Entry i of h is the last one about its field
LastEntry(h, i) == \A j \in (i + 1) .. Len(h) : h[j].field # h[i].field

\* The last entry about each field holds the value the row has
AgreesWith(h, row) == \A i \in 1 .. Len(h) : LastEntry(h, i) => h[i].new = row[h[i].field]

\* case_history is never behind nor ahead of the row: the last entry about each field
\* tracked there holds the value the row has now, however the requests interleaved.
\* (The row and its history entry are written by one transaction; a stale SELECT makes
\* the old value of an entry wrong, never the new one.)
HistoryAgrees == \A c \in DOMAIN cases : AgreesWith(history[c], cases[c])

\* A resolved case has a resolution code, although the code is checked on the request
\* and the status of the row may have been changed by others since the check
ResolvedHasCode == \A c \in DOMAIN cases : cases[c].status = "resolved" => cases[c].code # Null

\* The timestamp a status is reported with is there as long as the status is: a closed case
\* has closed_at, a resolved one resolved_at, a pending one pending_since, although each
\* is written or left alone on the evidence of a row read earlier
MilestonesStamped ==
  \A c \in DOMAIN cases :
    LET row == cases[c] IN
    /\ row.status = "closed" => row.closedAt # Null
    /\ row.status = "resolved" => row.resolvedAt # Null
    /\ row.status = "pending_customer" => row.pendingSince # Null

\* A case leaves 'closed' in two ways only: by an escalation, with a row of its own in
\* escalations, or by a PATCH whose SELECT came before the case was closed.  No order of
\* requests reopens a case that a PATCH saw closed.
ClosedIsLeftUnseen ==
  [][\A c \in DOMAIN cases : cases[c].status = "closed" /\ cases'[c].status # "closed" =>
       \/ Len(escalations'[c]) > Len(escalations[c])
       \/ \E r \in Slots : /\ req[r].pc = "selected" /\ req[r].op = "update"
                           /\ req[r].case = c /\ req[r].old.status # "closed"]_cases

\* The old status of a history entry may be stale, when a request overtook another between
\* the SELECT and the UPDATE, but it is never made up: the case had it before
OldStatusesWereReal ==
  \A c \in DOMAIN cases : \A i \in 1 .. Len(history[c]) :
    history[c][i].field = "status" =>
      \/ history[c][i].old = "open"
      \/ \E j \in 1 .. (i - 1) : /\ history[c][j].field = "status"
                                 /\ history[c][j].new = history[c][i].old

\* Where case_history has an agent as the author of a change of owner, the agent took over an
\* escalated case and nothing else: also when the case was reassigned while the request
\* was on its way, agents never give a case to somebody else
AgentsOnlyPickUp ==
  \A c \in DOMAIN cases : \A i \in 1 .. Len(history[c]) :
    LET e == history[c][i] IN
    e.field = "owner" /\ RoleOf[e.by] = "agent" =>
      /\ e.new = e.by
      /\ \E j \in 1 .. (i - 1) : history[c][j].new = "escalated"

Count(n, P(_)) == Cardinality({i \in 1 .. n : P(i)})

\* Every row of escalations is matched by a history entry of its own: the same agent moved
\* the case to 'escalated' at the same time
EscalationsLogged ==
  \A c \in Cases, u \in Users, t \in 0 .. MaxClock :
    LET rows == Count(Len(escalations[c]),
                      LAMBDA i : escalations[c][i].from = u /\ escalations[c][i].at = t)
        entries == Count(Len(history[c]),
                         LAMBDA i : /\ history[c][i].new = "escalated"
                                    /\ history[c][i].by = u /\ history[c][i].at = t)
    IN  rows <= entries

\* The rows the committed requests left behind, by endpoint
Effects(c, e) ==
  [create |-> IF c \in DOMAIN cases THEN 1 ELSE 0,
   escalate |-> Len(escalations[c]),
   add_note |-> Len(notes[c])][e]

Unaudited(c, e) ==
  Cardinality({r \in Slots : req[r].pc = "committed" /\ req[r].op = e /\ req[r].case = c})

\* The audit log never tells of a case, an escalation or a note that was not committed,
\* whatever crashes: its rows and those still to be written are no more than the effects
AuditNeverAhead ==
  \A c \in Cases, e \in {"create", "escalate", "add_note"} :
    audit[c][e] + Unaudited(c, e) <= Effects(c, e)

\* Only a session that was completed is ever linked, and an investor's case that history
\* shows going from open to in_progress has a session linked: the link cannot be undone
\* by a request that read the case before
VerificationTrail ==
  \A c \in DOMAIN cases :
    /\ cases[c].verification # Null =>
         /\ cases[c].verification \in DOMAIN sessions
         /\ sessions[cases[c].verification].status # "in_progress"
    /\ (\E i \in 1 .. Len(history[c]) : /\ history[c][i].field = "status"
                                        /\ history[c][i].old = "open"
                                        /\ history[c][i].new = "in_progress")
       /\ cases[c].investor # Null => cases[c].verification # Null

(* -------------- true as long as no request overtakes another ---------- *)

\* The transition table of the lifecycle
DocumentedMoves ==
  {<<"open", "in_progress">>, <<"open", "escalated">>, <<"open", "closed">>,
   <<"in_progress", "pending_customer">>, <<"in_progress", "escalated">>,
   <<"in_progress", "resolved">>, <<"in_progress", "closed">>,
   <<"pending_customer", "in_progress">>, <<"pending_customer", "escalated">>,
   <<"pending_customer", "resolved">>, <<"pending_customer", "closed">>,
   <<"escalated", "in_progress">>, <<"escalated", "resolved">>, <<"escalated", "closed">>,
   <<"resolved", "in_progress">>, <<"resolved", "closed">>}

\* The moves of a history, by the numbers of their entries
MovesIn(h) == [i \in {j \in 1 .. Len(h) : h[j].field = "status"} |-> <<h[i].old, h[i].new>>]

\* The contract, read off the tables: the stage is the status column, the trail the status
\* entries of case_history
Contract == INSTANCE CaseContract WITH
  Moves <- DocumentedMoves,
  stage <- [c \in Cases |-> IF c \in DOMAIN cases THEN cases[c].status ELSE "none"],
  trail <- [c \in Cases |-> MovesIn(history[c])]

\* Cases move only as documented, and case_history records each move truthfully
ContractKept == Contract!Spec

\* first_response_at, resolved_at and closed_at keep the value they were first given
StampsNeverMove ==
  [][\A c \in DOMAIN cases :
       /\ cases[c].firstResponse # Null => cases'[c].firstResponse = cases[c].firstResponse
       /\ cases[c].resolvedAt # Null => cases'[c].resolvedAt = cases[c].resolvedAt
       /\ cases[c].closedAt # Null => cases'[c].closedAt = cases[c].closedAt]_cases

\* A case that left 'open' has its first response recorded
FirstResponseRecorded ==
  \A c \in DOMAIN cases : cases[c].status # "open" => cases[c].firstResponse # Null

\* Entries j and i of h are the ends of a stay: i took the case out of pending_customer, and j is
\* the entry about the status before it
Stay(h, j, i) ==
  /\ h[j].field = "status" /\ h[i].field = "status" /\ h[i].old = "pending_customer"
  /\ \A k \in (j + 1) .. (i - 1) : h[k].field # "status"

\* The instants of the stay that ended with entry i, if one did
Waited(h, i) == {i} \X UNION {h[j].at .. h[i].at - 1 : j \in {k \in 1 .. (i - 1) : Stay(h, k, i)}}

\* The time in pending_customer that the history shows
PendingTime(h) == Cardinality(UNION {Waited(h, i) : i \in 1 .. Len(h)})

\* pending_seconds is the time between the entries of case_history that put the case into
\* pending_customer and those that took it out again, over all its stays, and
\* pending_since is set during a stay only
PendingReconciles ==
  \A c \in DOMAIN cases :
    /\ cases[c].pendingSecs = PendingTime(history[c])
    /\ cases[c].pendingSince # Null <=> cases[c].status = "pending_customer"

(* ----------- a claim of the documentation the code breaks ------------ *)

\* CASE_LIFECYCLE.md: closed is a "Terminal state", "No further transitions are allowed"
ClosedIsTerminal ==
  [][\A c \in DOMAIN cases : cases[c].status = "closed" => cases'[c].status = "closed"]_cases

=============================================================================

---------------------------- MODULE CaseReports -----------------------------
(***************************************************************************)
(* What readers see of the case tables while requests write them: the      *)
(* reports of services/cx_data_service.py (report_overview, case_stats,    *)
(* agent_stats), one case with its history (get_case), and a listing read  *)
(* page by page (search_cases).                                            *)
(*                                                                         *)
(* Each is a row of SELECTs without a transaction around them, on several  *)
(* connections or in several requests: every one sees what is committed    *)
(* when it runs, and CaseService goes on between two of them.  Figures are *)
(* counts; percentages are kept as the numerator and denominator they are  *)
(* computed from.  All cases are within the days asked for.                *)
(***************************************************************************)
EXTENDS SeededCases

CONSTANTS
  Filters,   \* the statuses a listing is asked for, Null for all
  PageSize,  \* limit
  MaxWrites  \* bound of the checked instances: the commits on cases one reader lives through

ASSUME FiltersAssumption == Filters \subseteq Statuses \cup {Null}
ASSUME PageSizeAssumption == PageSize \in Nat \ {0}

\* The cases are numbered by created_at
ASSUME CasesAreNumbered == Cases \subseteq Nat

VARIABLE report  \* the reader under way

reportVars == <<vars, report>>

(* ------------------------------- types -------------------------------- *)

Reports == {"overview", "stats", "agent"}

\* Mutant: history is read before the row it explains
HistoryFirst(kind) ==
  [overview |-> <<"volume", "category", "fcr", "escalation", "resolved">>,
   stats |-> <<"total", "by_status", "by_priority", "by_category">>,
   agent |-> <<"workload">>,
   case |-> <<"notes", "history", "row">>][kind]

\* The SELECTs on the case tables, in order.  Those on calls, breaches and evaluations read
\* what only the data generator writes; sessions, reopened cases and resolution codes are
\* counted once and compared with nothing.
Statements(kind) ==
  [overview |-> <<"volume", "category", "fcr", "escalation", "resolved">>,
   stats |-> <<"total", "by_status", "by_priority", "by_category">>,
   agent |-> <<"workload">>,
   case |-> <<"row", "notes", "history">>][kind]

Figures == [total : Nat, active : Nat, resolved : Nat, escalated : Nat]

\* What a look at a case returned: the status, who wrote notes, the statuses in its history
Sight == [status : Statuses] \cup [authors : SUBSET Users] \cup [reached : SUBSET Statuses]

NoReport == [kind |-> "none"]

\* done: what the statements so far returned; writes: the commits on cases meanwhile.
\* Of a listing, kept: the cases that matched all the time; left: how many ceased to.
ReportTypeOK ==
  \/ report = NoReport
  \/ /\ report.kind \in Reports /\ report.of \in Users \cup {Null}
     /\ report.done \in Seq(Figures) /\ Len(report.done) <= Len(Statements(report.kind))
     /\ report.writes \in Nat
  \/ /\ report.kind = "case" /\ report.of \in DOMAIN cases
     /\ report.done \in Seq(Sight) /\ Len(report.done) <= Len(Statements("case"))
     /\ report.writes \in Nat
  \/ /\ report.kind = "list" /\ report.of \in Filters
     /\ report.done \in Seq(SUBSET DOMAIN cases)
     /\ report.kept \subseteq DOMAIN cases /\ report.left \in Nat /\ report.writes \in Nat

(* ------------------------------ statements ---------------------------- *)

Among(rows, statuses) == Cardinality({c \in rows : cases[c].status \in statuses})

ActiveStatuses == {"open", "in_progress", "pending_customer"}

\* Mutant: a case that waits for the customer is in no column
ForgetPending(rows) ==
  [total |-> Cardinality(rows), active |-> Among(rows, {"open", "in_progress"}),
   resolved |-> Among(rows, DoneStatuses), escalated |-> Among(rows, {"escalated"})]

\* Mutant: SUM(CASE ...) of no rows is NULL, as in agent_performance
SumsOfRows(rows) ==
  IF rows = {} THEN [total |-> 0, active |-> Null, resolved |-> Null, escalated |-> Null]
  ELSE [total |-> Cardinality(rows), active |-> Among(rows, ActiveStatuses),
        resolved |-> Among(rows, DoneStatuses), escalated |-> Among(rows, {"escalated"})]

\* The columns of the daily volume, and the groups by status of case_stats and agent_stats
Columns(rows) ==
  [total |-> Cardinality(rows), active |-> Among(rows, ActiveStatuses),
   resolved |-> Among(rows, DoneStatuses), escalated |-> Among(rows, {"escalated"})]

Tally(total, resolved, escalated) ==
  [total |-> total, active |-> 0, resolved |-> resolved, escalated |-> escalated]

\* Mutant: no longer escalated is never escalated
SolvedNow == Among(DOMAIN cases, DoneStatuses)

\* SUM(... AND case_id NOT IN (SELECT case_id FROM escalations)), or 0
FirstContact ==
  Cardinality({c \in DOMAIN cases : cases[c].status \in DoneStatuses /\ escalations[c] = <<>>})

\* Mutant: the cases still to be solved
Unsolved == Cardinality(DOMAIN cases) - Among(DOMAIN cases, DoneStatuses)

\* COUNT(*) of the rates
Population == Cardinality(DOMAIN cases)

\* COUNT(DISTINCT e.case_id): by the rows of escalations, not by status
EscalatedCases == Cardinality({c \in DOMAIN cases : escalations[c] # <<>>})

\* What a statement returns now
Read(statement, u) ==
  CASE statement = "fcr" -> Tally(Population, FirstContact, 0)
    [] statement = "escalation" -> Tally(Population, 0, EscalatedCases)
    [] statement \in {"category", "resolved"} -> Tally(Population, Among(DOMAIN cases, DoneStatuses), 0)
    [] statement \in {"total", "by_priority", "by_category"} -> Tally(Population, 0, 0)
    [] statement = "workload" -> Columns({c \in DOMAIN cases : cases[c].owner = u})
    [] OTHER -> Columns(DOMAIN cases)

\* What a look at case c returns now
Look(statement, c) ==
  CASE statement = "row" -> [status |-> cases[c].status]
    [] statement = "notes" -> [authors |-> {notes[c][i] : i \in 1 .. Len(notes[c])}]
    [] statement = "history" ->
         [reached |-> {history[c][i].new : i \in {j \in 1 .. Len(history[c]) :
                                                   history[c][j].field = "status"}}]

\* WHERE c.status = ?, if asked for
Matching(table, filter) == {c \in DOMAIN table : filter # Null => table[c].status = filter}

\* Mutant: ORDER BY updated_at DESC
LastTouched(d, c) == IF Len(history[d]) = Len(history[c]) THEN d > c
                     ELSE Len(history[d]) > Len(history[c])

\* ORDER BY c.created_at DESC
Before(d, c) == d > c

\* LIMIT and OFFSET, after n pages
Page(filter, n) ==
  LET found == Matching(cases, filter)
  IN  {c \in found : Cardinality({d \in found : Before(d, c)}) \in n * PageSize .. (n + 1) * PageSize - 1}

(* ----------------------------- the readers ---------------------------- *)

Begin(kind, u) ==
  /\ report = NoReport
  /\ report' = [kind |-> kind, of |-> IF kind = "agent" THEN u ELSE Null, done |-> <<>>, writes |-> 0]
  /\ UNCHANGED vars

Step ==
  /\ report # NoReport /\ report.kind \in Reports
  /\ Len(report.done) < Len(Statements(report.kind))
  /\ report' = [report EXCEPT
       !.done = Append(@, Read(Statements(report.kind)[Len(@) + 1], report.of))]
  /\ UNCHANGED vars

\* GET /cases/{id}, or by its number
BeginCase(c) ==
  /\ report = NoReport
  /\ c \in DOMAIN cases
  /\ report' = [kind |-> "case", of |-> c, done |-> <<>>, writes |-> 0]
  /\ UNCHANGED vars

StepCase ==
  /\ report # NoReport /\ report.kind = "case"
  /\ Len(report.done) < Len(Statements("case"))
  /\ report' = [report EXCEPT !.done = Append(@, Look(Statements("case")[Len(@) + 1], report.of))]
  /\ UNCHANGED vars

\* A client starts at offset 0 ...
BeginList(filter) ==
  /\ report = NoReport
  /\ report' = [kind |-> "list", of |-> filter, done |-> <<>>, writes |-> 0,
                kept |-> Matching(cases, filter), left |-> 0]
  /\ UNCHANGED vars

\* ... and asks for one page after the other until one is not full
Listed == report.done # <<>> /\ Cardinality(report.done[Len(report.done)]) < PageSize

StepList ==
  /\ report # NoReport /\ report.kind = "list"
  /\ ~Listed
  /\ report' = [report EXCEPT !.done = Append(@, Page(report.of, Len(@)))]
  /\ UNCHANGED vars

\* return
End ==
  /\ report # NoReport
  /\ IF report.kind = "list" THEN Listed ELSE Len(report.done) = Len(Statements(report.kind))
  /\ report' = NoReport
  /\ UNCHANGED vars

\* A commit on cases, as a reader under way remembers it
Noted ==
  IF report.kind # "list" THEN [report EXCEPT !.writes = @ + 1]
  ELSE LET now == Matching(cases', report.of)
       IN  [report EXCEPT !.writes = @ + 1, !.kept = @ \cap now,
                          !.left = @ + Cardinality(Matching(cases, report.of) \ now)]

\* A step of the case workflow; created_at grows with the numbers of the cases
Meanwhile ==
  /\ Next
  /\ \A c \in DOMAIN cases' \ DOMAIN cases, d \in DOMAIN cases : c > d
  /\ IF report = NoReport \/ cases' = cases THEN report' = report
     ELSE report.writes < MaxWrites /\ report' = Noted

ReportInit == SeededInit /\ report = NoReport

ReportNext ==
  \/ \E kind \in Reports, u \in Users : Begin(kind, u)
  \/ Step
  \/ \E c \in Cases : BeginCase(c)
  \/ StepCase
  \/ \E filter \in Filters : BeginList(filter)
  \/ StepList
  \/ End
  \/ Meanwhile

ReportSpec == ReportInit /\ [][ReportNext]_reportVars

(* ----------------------------- properties ----------------------------- *)

ReportUnderWay == report # NoReport /\ report.kind \in Reports

Got(statement) ==
  {report.done[i] : i \in {j \in 1 .. Len(report.done) : Statements(report.kind)[j] = statement}}

\* Each table of a report adds up, and no rate exceeds 100 %: the columns of a table are a
\* partition of its total, cases solved at first contact and escalated cases are counted
\* once each.  (The rate of reopened cases is of two statements and has no such bound.)
TablesAddUp ==
  ReportUnderWay =>
    /\ \A f \in UNION {Got(s) : s \in {"volume", "by_status", "workload"}} :
         f.active + f.resolved + f.escalated = f.total
    /\ \A f \in UNION {Got(s) : s \in {"category", "fcr", "escalation"}} :
         f.resolved + f.escalated <= f.total

Close(m, n) == m <= n + report.writes /\ n <= m + report.writes

\* The statements of a report that should tell the same differ by no more than the writes
\* committed while it was made: a report nobody disturbed agrees with itself, and no case is
\* both solved at first contact and escalated
TornByWritesOnly ==
  ReportUnderWay =>
    /\ \A v \in Got("volume") :
         /\ \A g \in Got("category") : /\ Close(v.total, g.total)
                                       /\ Close(v.resolved, g.resolved)
         /\ \A g \in Got("resolved") : Close(v.resolved, g.resolved)
    /\ \A f \in Got("fcr"), e \in Got("escalation") :
         f.resolved + e.escalated <= e.total + report.writes
    /\ \A t \in Got("total"), s \in Got("by_status") :
         Close(t.total, s.active + s.resolved + s.escalated)

\* What is counted later in a report is never fewer cases: none is ever deleted, so a torn
\* report errs to one side, and a denominator is at least what an earlier part showed
TotalsNeverShrink ==
  ReportUnderWay =>
    /\ \A v \in Got("volume"), f \in Got("fcr") : v.total <= f.total
    /\ \A f \in Got("fcr"), e \in Got("escalation") : f.total <= e.total
    /\ \A t \in Got("total"), g \in Got("by_category") : t.total <= g.total

\* The history shown with a case explains the status shown with it, although each is read on
\* a connection of its own: history may be ahead of the row but never behind
StatusExplained ==
  report # NoReport /\ report.kind = "case" /\ Len(report.done) = Len(Statements("case")) =>
    \A i, j \in 1 .. Len(report.done) :
      Statements("case")[i] = "row" /\ Statements("case")[j] = "history" =>
        report.done[i].status \in {"open"} \cup report.done[j].reached

\* A listing read page by page while cases are created and change misses none but as many as
\* left the filter meanwhile, each of which pulls one up across the boundary of a page: a
\* listing of all cases misses nothing
MissedByLeaversOnly ==
  report # NoReport /\ report.kind = "list" /\ Listed =>
    Cardinality(report.kept \ UNION {report.done[i] : i \in 1 .. Len(report.done)}) <= report.left

=============================================================================

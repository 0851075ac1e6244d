---------------------------- MODULE FailingCycles ----------------------------
(***************************************************************************)
(* PageViews with a history of the cleaning cycles that ended early, by a  *)
(* failed statement, a lost answer or a kill, and left rows due.  It says  *)
(* what such a cycle may cost, and bounds how many there are: a cycle that *)
(* fails for ever never counts anything.                                   *)
(***************************************************************************)
EXTENDS PageViews

CONSTANT MaxAbandoned   \* bound on the cycles that leave rows due

ASSUME AbandonedAssumption == MaxAbandoned \in Nat

VARIABLE abandoned      \* history: how many there were

cycleVars == <<vars, abandoned>>

CyclesInit == Init /\ abandoned = 0

LeavesRowsDue ==
  pc \in {"aggregate", "delete"} /\ pc' \notin {"aggregate", "delete"} /\ Due' # {}

NoteAbandoned ==
  /\ abandoned' = IF LeavesRowsDue THEN abandoned + 1 ELSE abandoned
  /\ abandoned' <= MaxAbandoned

CyclesSpec == CyclesInit /\ [][Next /\ NoteAbandoned]_cycleVars

\* The supervisor restarts the cleaner, its statements and timers complete,
\* statements of the API complete, time passes.  Nobody has to send views.
CyclesFairness ==
  /\ WF_cycleVars(Tick /\ NoteAbandoned)
  /\ WF_cycleVars(Start /\ NoteAbandoned)
  /\ WF_cycleVars(Cleaner /\ NoteAbandoned)
  /\ \A v \in Views : WF_cycleVars(InsertCommit(v) /\ NoteAbandoned)

FairCyclesSpec == CyclesSpec /\ CyclesFairness

-----------------------------------------------------------------------------
(* Properties *)

Deleted == {v \in Views : row[v] = "deleted"}
totalBar == [b \in Buckets |-> Reportable(b)]
Counter == INSTANCE ViewCounter WITH Singles <- Views, recorded <- Recorded,
             settled <- Deleted, failures <- abandoned, total <- totalBar

\* Whatever statement fails or is not acknowledged, and wherever the cleaner is
\* stopped or killed, the API and the cleaner implement the counter: recording
\* a request changes what will be reported by its delta, once; no view is ever
\* taken back; and only a cycle that leaves rows due may count again, each of
\* those rows once ("at most one cycle's worth", design.md:143).
CounterSpec == Counter!CounterSpec
=============================================================================

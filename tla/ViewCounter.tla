----------------------------- MODULE ViewCounter -----------------------------
(***************************************************************************)
(* What 08-analytics promises of page views: a recorded request adds its   *)
(* views to its page/hour buckets exactly once, and nothing else changes   *)
(* what those buckets will report, but for one accepted limitation         *)
(* (design.md): each time a cleaning cycle fails or is killed, the single  *)
(* views not settled yet may be counted once more.                         *)
(***************************************************************************)
EXTENDS Naturals, FiniteSets

CONSTANTS Requests,   \* increments sent to the API
          Singles,    \* those of them that are single views
          Buckets,    \* page/hour pairs
          Delta       \* [Requests -> [Buckets -> Nat]]: what each one adds

VARIABLES recorded,   \* the requests that took effect
          settled,    \* the single views that no cycle will ever count again
          failures,   \* the cycles that failed or were killed
          total       \* [Buckets -> Nat]: the views to be reported

counterVars == <<recorded, settled, failures, total>>

CounterInit == /\ recorded = {} /\ settled = {} /\ failures = 0
               /\ total = [b \in Buckets |-> 0]

Unsettled == (recorded \cap Singles) \ settled

Record(r) ==
  /\ r \notin recorded
  /\ recorded' = recorded \cup {r}
  /\ total' = [b \in Buckets |-> total[b] + Delta[r][b]]
  /\ UNCHANGED <<settled, failures>>

Settle ==
  /\ settled' \in {settled \cup S : S \in SUBSET Unsettled}
  /\ UNCHANGED <<recorded, failures, total>>

\* A cycle ends early: it may have settled some views, and counts others again.
Fail ==
  /\ settled' \in {settled \cup S : S \in SUBSET Unsettled}
  /\ \E again \in SUBSET (Unsettled \ settled') :
       total' = [b \in Buckets |-> total[b] + Cardinality({v \in again : Delta[v][b] = 1})]
  /\ failures' = failures + 1
  /\ UNCHANGED recorded

CounterNext == (\E r \in Requests : Record(r)) \/ Settle \/ Fail

CounterSpec == CounterInit /\ [][CounterNext]_counterVars
=============================================================================

------------------------------ MODULE PageViews ------------------------------
(***************************************************************************)
(* 08-analytics: the increments API (page-views.service.ts) and the        *)
(* cleaner process (cleaner/cycle.ts, cleaner/main.ts) over one Postgres   *)
(* database.  A single view is one INSERT into page_view_raw; a multi      *)
(* payload is one upsert into page_view_hourly; the cleaner aggregates the *)
(* raw rows up to a cutoff into page_view_hourly and then deletes them, in *)
(* separate statements, while inserts keep committing.                     *)
(*                                                                         *)
(* Every SQL statement is one step; an INSERT takes two, because its       *)
(* inserted_at (clock_timestamp()) is read before its row is visible.      *)
(***************************************************************************)
EXTENDS Integers, FiniteSets

CONSTANTS Views,        \* POST /page-views/single requests
          Multis,       \* POST /page-views/multi requests
          Buckets,      \* page/hour pairs
          BucketOf,     \* [Views -> Buckets]: page and date_trunc('hour', ts)
          HourKeys,     \* page/hour-key pairs as written in a multi payload
          HourBucket,   \* [HourKeys -> Buckets]: parseHourKey
          Payload,      \* [Multis -> [SUBSET of HourKeys -> Nat]]
          Grace,        \* GRACE_PERIOD_MS
          MaxLatency,   \* from clock_timestamp() to the commit of an INSERT
          MaxSkew,      \* between the cleaner's clock and the database's
          BatchSize,    \* DELETE_BATCH_SIZE
          Horizon,      \* bound on the modelled time
          Events        \* what may go wrong

EventNames == {"insertFails", "aggregateFails", "aggregateAckLost",
               "deleteFails", "deleteAckLost", "crash", "sigterm"}

ASSUME ViewsAssumption ==
  /\ IsFiniteSet(Views) /\ Views \cap Multis = {}
  /\ BucketOf \in [Views -> Buckets]
  /\ HourBucket \in [HourKeys -> Buckets]
  /\ \A m \in Multis : /\ DOMAIN Payload[m] \subseteq HourKeys
                       /\ \A h \in DOMAIN Payload[m] : Payload[m][h] \in Nat
  /\ Grace \in Nat /\ MaxLatency \in Nat /\ MaxSkew \in Nat
  /\ BatchSize \in Nat \ {0} /\ Horizon \in Nat
  /\ Events \subseteq EventNames

\* The margin the cutoff needs: design.md asks for a grace period "larger than
\* realistic transaction latency".
GraceSuffices == Grace > MaxLatency + MaxSkew

VARIABLES now,      \* the database's clock
          row,      \* [Views -> "none", "running", "visible", "deleted", "failed"]
          stamp,    \* [Views -> inserted_at]
          multi,    \* [Multis -> "none", "applied", "failed"]
          hourly,   \* [Buckets -> views]: page_view_hourly
          pc,       \* where the cleaner's loop is
          cutoff,   \* the cutoff of its current cycle
          stopped   \* set by SIGTERM/SIGINT

vars == <<now, row, stamp, multi, hourly, pc, cutoff, stopped>>
tables == <<row, stamp, multi, hourly>>

Init ==
  /\ now = 0
  /\ row = [v \in Views |-> "none"]
  /\ stamp = [v \in Views |-> 0]
  /\ multi = [m \in Multis |-> "none"]
  /\ hourly = [b \in Buckets |-> 0]
  /\ pc = "ended" /\ cutoff = 0 /\ stopped = FALSE

-----------------------------------------------------------------------------
(* The increments API *)

\* The INSERT is running and has read the clock; its row is not visible yet.
InsertStart(v) ==
  /\ row[v] = "none"
  /\ now + Grace + MaxSkew <= Horizon
  /\ row' = [row EXCEPT ![v] = "running"]
  /\ stamp' = [stamp EXCEPT ![v] = now]
  /\ UNCHANGED <<now, multi, hourly, pc, cutoff, stopped>>

InsertCommit(v) ==
  /\ row[v] = "running"
  /\ \/ row' = [row EXCEPT ![v] = "visible"]
     \/ "insertFails" \in Events /\ row' = [row EXCEPT ![v] = "failed"]
  /\ UNCHANGED <<now, stamp, multi, hourly, pc, cutoff, stopped>>

\* Two keys of one payload can name the same hour (hour 24 of a day is hour 0
\* of the next); one statement cannot upsert a row twice, so it fails.
KeysOf(m, b) == {h \in DOMAIN Payload[m] : HourBucket[h] = b}
Upsertable(m) == \A b \in Buckets : \A h, g \in KeysOf(m, b) : h = g
MultiDelta(m, b) ==
  IF KeysOf(m, b) = {} THEN 0 ELSE Payload[m][CHOOSE h \in KeysOf(m, b) : TRUE]

UpsertMulti(m) ==
  /\ multi[m] = "none"
  /\ \/ /\ Upsertable(m)
        /\ hourly' = [b \in Buckets |-> hourly[b] + MultiDelta(m, b)]
        /\ multi' = [multi EXCEPT ![m] = "applied"]
     \/ /\ ~Upsertable(m) \/ "insertFails" \in Events
        /\ multi' = [multi EXCEPT ![m] = "failed"] /\ UNCHANGED hourly
  /\ UNCHANGED <<now, row, stamp, pc, cutoff, stopped>>

-----------------------------------------------------------------------------
(* The cleaner *)

Aged(v) == stamp[v] <= cutoff
Due == {v \in Views : row[v] = "visible" /\ Aged(v)}
DueIn(b) == {v \in Due : BucketOf[v] = b}

\* `cutoff = Date.now() - GRACE_PERIOD_MS` on the cleaner's own clock; the
\* first statement is sent before anything else can run.
BeginCycleWithoutGrace ==
  /\ pc' = "aggregate" /\ cutoff' \in (now - MaxSkew) .. (now + MaxSkew)

BeginCycleAddingGrace ==
  /\ pc' = "aggregate"
  /\ cutoff' \in (now + Grace - MaxSkew) .. (now + Grace + MaxSkew)

BeginCycle ==
  /\ pc' = "aggregate"
  /\ cutoff' \in (now - Grace - MaxSkew) .. (now - Grace + MaxSkew)

\* `if (stopped) break`, else sleep.
EndCycle == pc' = IF stopped THEN "ended" ELSE "sleep"

\* A supervisor starts the one cleaner: migrations, handlers, first cycle.
Start ==
  /\ pc = "ended"
  /\ BeginCycle /\ stopped' = FALSE
  /\ UNCHANGED <<now, tables>>

AddDue == hourly' = [b \in Buckets |-> hourly[b] + Cardinality(DueIn(b))]

\* The catch block logs, whatever the statement did or did not do.
Aggregate ==
  /\ pc = "aggregate"
  /\ \/ AddDue /\ pc' = "delete"
     \/ "aggregateFails" \in Events /\ UNCHANGED hourly /\ EndCycle
     \/ "aggregateAckLost" \in Events /\ AddDue /\ EndCycle
  /\ UNCHANGED <<now, row, stamp, multi, cutoff, stopped>>

DeleteRows(S) == row' = [v \in Views |-> IF v \in S THEN "deleted" ELSE row[v]]

BatchesOfAnyAge ==
  LET visible == {v \in Views : row[v] = "visible"}
  IN  {S \in SUBSET visible : Cardinality(S) <= BatchSize /\ (S = {} => visible = {})}

\* LIMIT picks any BatchSize of the rows due.
Batches == {S \in SUBSET Due : \/ Cardinality(S) = BatchSize
                               \/ Cardinality(S) < BatchSize /\ S = Due}

DeleteBatchForever ==
  /\ pc = "delete"
  /\ \E S \in Batches : DeleteRows(S)
  /\ UNCHANGED <<now, stamp, multi, hourly, pc, cutoff, stopped>>

DeleteBatch ==
  /\ pc = "delete"
  /\ \E S \in Batches :
       \/ DeleteRows(S) /\ IF S = {} THEN EndCycle ELSE UNCHANGED pc
       \/ "deleteAckLost" \in Events /\ DeleteRows(S) /\ EndCycle
       \/ "deleteFails" \in Events /\ UNCHANGED row /\ EndCycle
  /\ UNCHANGED <<now, stamp, multi, hourly, cutoff, stopped>>

WakeKeepingCutoff ==
  /\ pc = "sleep"
  /\ pc' = IF stopped THEN "ended" ELSE "aggregate"
  /\ UNCHANGED <<now, tables, cutoff, stopped>>

\* The timer fires, or SIGTERM calls wakeEarly; then `while (!stopped)`.
Wake ==
  /\ pc = "sleep"
  /\ IF stopped THEN pc' = "ended" /\ UNCHANGED cutoff ELSE BeginCycle
  /\ UNCHANGED <<now, tables, stopped>>

Sigterm ==
  /\ "sigterm" \in Events
  /\ pc # "ended" /\ ~stopped
  /\ stopped' = TRUE
  /\ UNCHANGED <<now, tables, pc, cutoff>>

\* SIGKILL, OOM, a crash, in a cycle or between two: the database keeps what
\* was committed.
Crash ==
  /\ pc # "ended"
  /\ "crash" \in Events
  /\ pc' = "ended"
  /\ UNCHANGED <<now, tables, cutoff, stopped>>

-----------------------------------------------------------------------------
\* An INSERT does not outlive MaxLatency.
Tick ==
  /\ now < Horizon
  /\ \A v \in Views : row[v] = "running" => now - stamp[v] < MaxLatency
  /\ now' = now + 1
  /\ UNCHANGED <<tables, pc, cutoff, stopped>>

Cleaner == Aggregate \/ DeleteBatch \/ Wake
Next == \/ Tick \/ Start \/ Cleaner \/ Sigterm \/ Crash
        \/ \E v \in Views : InsertStart(v) \/ InsertCommit(v)
        \/ \E m \in Multis : UpsertMulti(m)

Spec == Init /\ [][Next]_vars

-----------------------------------------------------------------------------
(* Properties *)

TypeOK ==
  /\ now \in Nat
  /\ row \in [Views -> {"none", "running", "visible", "deleted", "failed"}]
  /\ stamp \in [Views -> Nat]
  /\ multi \in [Multis -> {"none", "applied", "failed"}]
  /\ hourly \in [Buckets -> Nat]
  /\ pc \in {"ended", "aggregate", "delete", "sleep"}
  /\ cutoff \in Int /\ cutoff <= now + MaxSkew /\ stopped \in BOOLEAN

\* The rows the next aggregation still has to count: those the current cycle
\* has counted and not yet deleted are in page_view_hourly already.
Pending(b) == {v \in Views : /\ row[v] = "visible" /\ BucketOf[v] = b
                             /\ ~(pc = "delete" /\ Aged(v))}
Reportable(b) == hourly[b] + Cardinality(Pending(b))

Requests == Views \cup Multis
Delta == [r \in Requests |-> [b \in Buckets |->
            IF r \in Views THEN IF BucketOf[r] = b THEN 1 ELSE 0
            ELSE MultiDelta(r, b)]]
Recorded == {v \in Views : row[v] \in {"visible", "deleted"}}
              \cup {m \in Multis : multi[m] = "applied"}

\* No INSERT still running is old enough for the cycle in progress: nothing
\* becomes visible behind the cutoff after the aggregation, to be deleted
\* uncounted (the purpose of GRACE_PERIOD_MS, design.md).
NoLateRow ==
  \A v \in Views : row[v] = "running" /\ pc \in {"aggregate", "delete"} => ~Aged(v)

\* Every view recorded is eventually counted and removed from page_view_raw,
\* however often the cleaner is stopped, killed and restarted, and whatever
\* statements fail, once the cycles stop failing.
EveryViewCounted == \A v \in Views : row[v] = "visible" ~> row[v] = "deleted"

\* SIGTERM ends the cleaner, in whatever state it finds the cycle and whatever
\* statements of the cycle fail from then on.
StopsOnSigterm == stopped ~> pc = "ended"
=============================================================================

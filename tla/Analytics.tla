------------------------------ MODULE Analytics ------------------------------
(***************************************************************************)
(* 08-analytics whole: the api and the cleaner boot (Migrations), the api  *)
(* records views and the cleaner aggregates them (PageViews), reports are  *)
(* read from page_view_hourly (Report).  Processes are killed and started  *)
(* again at any moment; the statement a killed cleaner was waiting for     *)
(* runs on in the database, next to those of its successor.                *)
(***************************************************************************)
EXTENDS PageViews, Migrations, Report

CONSTANTS Times,       \* `now` parameters of reports
          Takes,       \* `take` parameters of reports
          MaxSpoiled   \* bound on the cycles that fail or are killed

ASSUME AnalyticsAssumption ==
  /\ Procs = {"api", "cleaner"} /\ MaxSpoiled \in Nat
  /\ Times \subseteq Nat /\ Takes \subseteq Int
  /\ \A b \in Buckets : b = <<b[1], b[2]>> /\ b[2] \in Int

VARIABLES orphans,  \* statements of killed cleaners that still run
          counted,  \* history: [Views -> how often its row was aggregated]
          spoiled   \* history: cycles that ended with rows not deleted

allVars == <<vars, migrationVars, orphans, counted, spoiled>>
history == <<counted, spoiled>>

AnalyticsInit ==
  /\ Init /\ MigrationsInit
  /\ orphans = {} /\ counted = [v \in Views |-> 0] /\ spoiled = 0

-----------------------------------------------------------------------------
Count(S) == counted' = [v \in Views |-> IF v \in S THEN counted[v] + 1 ELSE counted[v]]

\* bootstrap and main: runMigrations, then listen or the first cycle.  An api
\* that is up has no state to lose: it is killed while it migrates only.
Migrate ==
  /\ \/ \E p \in Procs : Boot(p) \/ (p = "api" /\ proc[p] = "migrating" /\ Kill(p))
     \/ \E s \in Sessions : MigrationStep(s)
  /\ UNCHANGED <<vars, orphans, history>>

\* A statement the database has been sent completes without its client.
Increment ==
  /\ \/ proc["api"] = "up" /\ ((\E v \in Views : InsertStart(v)) \/ \E m \in Multis : UpsertMulti(m))
     \/ \E v \in Views : InsertCommit(v)
     \/ Tick
  /\ UNCHANGED <<migrationVars, orphans, history>>

Clean ==
  /\ proc["cleaner"] = "up"
  /\ Start \/ Cleaner \/ Sigterm
  /\ IF pc # "ended" /\ pc' = "ended" THEN Exit("cleaner") ELSE UNCHANGED migrationVars
  /\ IF hourly' # hourly THEN Count(Due) ELSE UNCHANGED counted
  /\ spoiled' = IF pc \in {"aggregate", "delete"} /\ pc' \in {"sleep", "ended"} /\ Due' # {}
                THEN spoiled + 1 ELSE spoiled
  /\ spoiled' <= MaxSpoiled
  /\ UNCHANGED orphans

\* Killed between two statements, or within one.
Statements ==
  CASE pc = "aggregate" -> {[kind |-> "aggregate", rows |-> Due, nr |-> spoiled]}
    [] pc = "delete"    -> {[kind |-> "delete", rows |-> S, nr |-> spoiled] : S \in Batches}
    [] OTHER            -> {}

KillCleaner ==
  /\ Kill("cleaner") /\ spoiled < MaxSpoiled
  /\ Crash \/ (pc = "ended" /\ UNCHANGED vars)
  /\ \/ UNCHANGED orphans
     \/ \E o \in Statements : orphans' = orphans \cup {o}
  /\ spoiled' = IF pc \in {"aggregate", "delete"} THEN spoiled + 1 ELSE spoiled
  /\ UNCHANGED counted

\* The aggregation sees the rows as they were when it started, or as they are;
\* the deletion deletes those that are left.
FinishOrphan(o) ==
  /\ orphans' = orphans \ {o}
  /\ LET left == {v \in o.rows : row[v] = "visible"} IN
       IF o.kind = "delete" THEN DeleteRows(left) /\ UNCHANGED <<hourly, counted>>
       ELSE \E S \in {o.rows, left} :
              /\ hourly' = [b \in Buckets |-> hourly[b] + Cardinality({v \in S : BucketOf[v] = b})]
              /\ Count(S) /\ UNCHANGED row
  /\ UNCHANGED <<now, stamp, multi, pc, cutoff, stopped, migrationVars, spoiled>>

AnalyticsNext ==
  Migrate \/ Increment \/ Clean \/ KillCleaner \/ \E o \in orphans : FinishOrphan(o)

AnalyticsSpec == AnalyticsInit /\ [][AnalyticsNext]_allVars

-----------------------------------------------------------------------------
(* Properties *)

\* The sum of f over S, as the number of pairs of an x in S and one of 1 .. f[x].
Sum(f, S) == Cardinality(UNION {{x} \X (1 .. f[x]) : x \in S})

\* Nobody inserts, aggregates or deletes before the schema is complete, nor
\* migrates beside another.
MigratedFirst ==
  /\ MigrationsSafe
  /\ (\E v \in Views : row[v] = "running") \/ pc # "ended" => applied = 1 .. Files

\* Every number in page_view_hourly is explained: by the payloads applied and
\* by aggregations of rows; no row is deleted that was not aggregated; and it
\* is aggregated again only for a cycle that failed or was killed ("at most one
\* cycle's worth of rows can be double-counted per crash", design.md), whatever
\* a killed cleaner's statement does beside the next cleaner.
CountsExplained ==
  /\ \A b \in Buckets :
       hourly[b] = Sum(counted, {v \in Views : BucketOf[v] = b})
                   + Sum([m \in Multis |-> MultiDelta(m, b)], {m \in Multis : multi[m] = "applied"})
  /\ \A v \in Views : /\ row[v] = "deleted" => counted[v] >= 1
                      /\ counted[v] <= 1 + spoiled

\* A report shows the round hours of the last 24, each once and under its own
\* UTC hour, with all its views and only those, ones without views included;
\* `desc` reverses it and `take` leaves its first rows.
Recent(time, hour) ==
  LET start == hour * UnitsPerHour
  IN  start <= time /\ time - start < HoursInWindow * UnitsPerHour

ReportRight(page, time) ==
  LET asc == getReport(hourly, page, time, "asc", MaxTake) IN
  /\ \A hour \in 0 .. time : Recent(time, hour) =>
       \E i \in DOMAIN asc :
          /\ asc[i].h = hour % HoursPerDay
          /\ asc[i].v = IF <<page, hour>> \in Buckets THEN hourly[<<page, hour>>] ELSE 0
          /\ \A j \in DOMAIN asc : asc[j].h = asc[i].h => j = i
  /\ Sum([i \in DOMAIN asc |-> asc[i].v], DOMAIN asc)
       = Sum(hourly, {b \in Buckets : b[1] = page /\ Recent(time, b[2])})
  /\ \A k \in Takes :
       /\ IsPrefix(getReport(hourly, page, time, "asc", k), asc)
       /\ IsPrefix(getReport(hourly, page, time, "desc", k), Reverse(asc))

ReportShows == \A page \in {b[1] : b \in Buckets}, time \in Times : ReportRight(page, time)
=============================================================================

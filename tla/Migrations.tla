------------------------------ MODULE Migrations ------------------------------
(***************************************************************************)
(* 08-analytics, db/migrate.ts: every process applies the SQL files before *)
(* it does anything else, in a session that holds an advisory lock.  The   *)
(* file's statements are CREATE ... IF NOT EXISTS, which look first and    *)
(* create later.  A session outlives its process until the server notices: *)
(* a statement that runs completes, a backend that waits for the lock      *)
(* keeps its place.                                                        *)
(***************************************************************************)
EXTENDS Naturals, FiniteSets

CONSTANTS Procs,     \* processes that call runMigrations
          Sessions,  \* bound on the sessions open at once
          Files,     \* number of migration files
          Failures   \* subset of {"migration", "kill"}

ASSUME MigrationsAssumption ==
  /\ IsFiniteSet(Sessions) /\ Files \in Nat /\ Failures \subseteq {"migration", "kill"}

VARIABLES proc,     \* [Procs -> "down", "migrating" or "up"]
          session,  \* [Sessions -> where it is, for which process]
          applied   \* the files whose tables and indexes exist

migrationVars == <<proc, session, applied>>

Closed(s) == session[s].at = "closed"

At(place, p) == [at |-> place, of |-> p, file |-> 1, missing |-> FALSE, alive |-> TRUE]
NoSession == At("closed", "nobody")

MigrationsInit ==
  /\ proc = [p \in Procs |-> "down"]
  /\ session = [s \in Sessions |-> NoSession]
  /\ applied = {}

-----------------------------------------------------------------------------
(* runMigrations *)

\* The process starts, connects and asks for the lock.
Boot(p) ==
  /\ proc[p] = "down" /\ \E s \in Sessions : Closed(s)
  /\ proc' = [proc EXCEPT ![p] = "migrating"]
  /\ LET s == CHOOSE s \in Sessions : Closed(s)
     IN  session' = [session EXCEPT ![s] = At("waiting", p)]
  /\ UNCHANGED applied

Holding(s) == session[s].at \in {"locked", "running", "failed"}

GrantToAll(s) ==
  /\ session[s].at = "waiting"
  /\ session' = [session EXCEPT ![s].at = "locked"]
  /\ UNCHANGED <<proc, applied>>

\* pg_advisory_lock returns, also to a session whose process is gone.
Grant(s) ==
  /\ session[s].at = "waiting" /\ \A t \in Sessions : ~Holding(t)
  /\ session' = [session EXCEPT ![s].at = "locked"]
  /\ UNCHANGED <<proc, applied>>

\* The next file's statements run: do its tables exist?
RunFile(s) ==
  /\ session[s].at = "locked" /\ session[s].alive /\ session[s].file <= Files
  /\ session' = [session EXCEPT ![s].at = "running",
                                ![s].missing = session[s].file \notin applied]
  /\ UNCHANGED <<proc, applied>>

DuplicateKey(s) == session[s].missing /\ session[s].file \in applied

\* All of a file's statements commit, or none.
CommitFile(s) ==
  /\ session[s].at = "running"
  /\ \/ /\ ~DuplicateKey(s)
        /\ applied' = applied \cup {session[s].file}
        /\ session' = [session EXCEPT ![s].at = "locked", ![s].file = @ + 1, ![s].missing = FALSE]
     \/ /\ DuplicateKey(s) \/ "migration" \in Failures
        /\ session' = [session EXCEPT ![s].at = "failed"]
        /\ UNCHANGED applied
  /\ UNCHANGED proc

ReleaseHolding(s) ==
  /\ session[s].alive
  /\ \/ session[s].at = "failed" /\ proc' = [proc EXCEPT ![session[s].of] = "down"]
     \/ session[s].at = "locked" /\ session[s].file > Files
        /\ proc' = [proc EXCEPT ![session[s].of] = "up"]
  /\ UNCHANGED <<session, applied>>

\* The two finally blocks: unlock, release.  An error ends the process.
Unlock(s) ==
  /\ session[s].alive
  /\ \/ session[s].at = "failed" /\ proc' = [proc EXCEPT ![session[s].of] = "down"]
     \/ session[s].at = "locked" /\ session[s].file > Files
        /\ proc' = [proc EXCEPT ![session[s].of] = "up"]
  /\ session' = [session EXCEPT ![s] = NoSession]
  /\ UNCHANGED applied

-----------------------------------------------------------------------------

\* The process ends; what its session was doing goes on.
Exit(p) ==
  /\ proc' = [proc EXCEPT ![p] = "down"]
  /\ session' = [s \in Sessions |->
       IF session[s].of = p THEN [session[s] EXCEPT !.alive = FALSE] ELSE session[s]]
  /\ UNCHANGED applied

Kill(p) == "kill" \in Failures /\ proc[p] # "down" /\ Exit(p)

\* The server finds the connection closed when it next reads from it.
Reap(s) ==
  /\ ~session[s].alive /\ session[s].at \in {"locked", "failed"}
  /\ session' = [session EXCEPT ![s] = NoSession]
  /\ UNCHANGED <<proc, applied>>

MigrationStep(s) == Grant(s) \/ RunFile(s) \/ CommitFile(s) \/ Unlock(s) \/ Reap(s)

-----------------------------------------------------------------------------
(* Properties *)

\* What a session found missing is still missing when it creates it, also when
\* another process, or the leftover session of a killed one, migrates at the
\* same time; nobody is past its migrations before the schema is complete.
MigrationsSafe ==
  /\ \A s \in Sessions : session[s].at = "running" => ~DuplicateKey(s)
  /\ \A p \in Procs : proc[p] = "up" => applied = 1 .. Files

\* The lock is with a process that migrates, or comes free by itself: one that
\* serves, has failed or was killed keeps nobody waiting.
LockGivenBack ==
  \A s \in Sessions : Holding(s) => \/ ~session[s].alive
                                   \/ proc[session[s].of] = "migrating"
=============================================================================

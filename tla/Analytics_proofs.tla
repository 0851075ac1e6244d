--------------------------- MODULE Analytics_proofs ---------------------------
(***************************************************************************)
(* 08-analytics, whatever fails and whoever is killed.  For any number of  *)
(* sessions and files one process migrates at a time, the lock comes free, *)
(* and nobody serves or cleans before the schema is complete.  For any     *)
(* requests, buckets and killed cleaners, every number in page_view_hourly *)
(* is explained, and every report shows the hours of its window.           *)
(***************************************************************************)
EXTENDS Analytics, PageViews_proofs, SequenceTheorems

-----------------------------------------------------------------------------
(* The invariant *)

Places == {"closed", "waiting", "locked", "running", "failed"}
SessionRecord == [at : Places, of : Procs \cup {"nobody"}, file : Nat \ {0},
                  missing : BOOLEAN, alive : BOOLEAN]

MigrationTypes ==
  /\ proc \in [Procs -> {"down", "migrating", "up"}]
  /\ session \in [Sessions -> SessionRecord]
  /\ applied \subseteq 1 .. Files

\* A session whose process is there belongs to one that migrates in it alone.
Attended(s) == session[s].alive /\ ~Closed(s)
Owned(s) == Attended(s) => session[s].of \in Procs /\ proc[session[s].of] = "migrating"
OwnerInv ==
  /\ \A s \in Sessions : Owned(s)
  /\ \A s, t \in Sessions : Attended(s) /\ Attended(t) /\ session[s].of = session[t].of => s = t

\* One session holds the lock.  It has applied the files before its next one,
\* and what it found missing is.
LockInv == \A s, t \in Sessions : Holding(s) /\ Holding(t) => s = t
Progress(s) ==
  /\ session[s].at = "waiting" => session[s].file = 1
  /\ Holding(s) => 1 .. session[s].file - 1 \subseteq applied
  /\ session[s].at = "running" => session[s].file \in 1 .. Files /\ ~DuplicateKey(s)

ProgressInv == \A s \in Sessions : Progress(s)

UpInv == \A p \in Procs : proc[p] = "up" => applied = 1 .. Files

SchemaInv == MigrationTypes /\ OwnerInv /\ LockInv /\ ProgressInv /\ UpInv

\* Whoever cleans or has an INSERT running is past the migrations.
UsedInv == (\E v \in Views : row[v] = "running") \/ pc # "ended" => applied = 1 .. Files

-----------------------------------------------------------------------------
LEMMA RecordTyped ==
  ASSUME NEW place \in Places, NEW p \in Procs \cup {"nobody"}
  PROVE  At(place, p) \in SessionRecord
<1>1. 1 \in Nat \ {0}
  OBVIOUS
<1> QED
  BY <1>1, Zenon DEF At, SessionRecord

LEMMA NoSessionFields == NoSession \in SessionRecord /\ NoSession.at = "closed"
<1>1. NoSession \in SessionRecord
  BY RecordTyped DEF NoSession, Places
<1> QED
  BY <1>1 DEF NoSession, At

\* One session changes: s becomes r.
Becomes(s, r) == r \in SessionRecord /\ session' = [session EXCEPT ![s] = r]

LEMMA BecomesTyped ==
  ASSUME MigrationTypes, NEW s \in Sessions, NEW r, Becomes(s, r)
  PROVE  /\ session' \in [Sessions -> SessionRecord] /\ session'[s] = r
         /\ \A t \in Sessions : t # s => session'[t] = session[t]
BY DEF MigrationTypes, Becomes

LEMMA BootEffect ==
  ASSUME MigrationTypes, NEW p \in Procs, Boot(p)
  PROVE  \E s \in Sessions :
           /\ Closed(s) /\ Becomes(s, At("waiting", p))
           /\ proc[p] = "down" /\ proc' = [proc EXCEPT ![p] = "migrating"]
           /\ applied' = applied
<1> DEFINE s == CHOOSE s \in Sessions : Closed(s)
<1>1. s \in Sessions /\ Closed(s)
  BY DEF Boot
<1>2. session' = [session EXCEPT ![s] = At("waiting", p)]
  BY Zenon DEF Boot
<1>3. At("waiting", p) \in SessionRecord
  BY RecordTyped DEF Places
<1> QED
  BY <1>1, <1>2, <1>3 DEF Boot, Becomes

LEMMA GrantEffect ==
  ASSUME MigrationTypes, NEW s \in Sessions, Grant(s)
  PROVE  \E r \in SessionRecord :
           /\ session[s].at = "waiting" /\ (\A t \in Sessions : ~Holding(t))
           /\ Becomes(s, r) /\ r.at = "locked"
           /\ r.of = session[s].of /\ r.file = session[s].file /\ r.alive = session[s].alive
           /\ UNCHANGED <<proc, applied>>
<1> DEFINE r == [session[s] EXCEPT !.at = "locked"]
<1>1. session[s] \in SessionRecord
  BY DEF MigrationTypes
<1>2. r \in SessionRecord /\ r.at = "locked" /\ r.of = session[s].of
      /\ r.file = session[s].file /\ r.alive = session[s].alive
  BY <1>1 DEF SessionRecord, Places
<1>3. session' = [session EXCEPT ![s] = r]
  BY Zenon DEF Grant
<1> QED
  BY <1>2, <1>3 DEF Grant, Becomes

LEMMA RunEffect ==
  ASSUME MigrationTypes, NEW s \in Sessions, RunFile(s)
  PROVE  \E r \in SessionRecord :
           /\ session[s].at = "locked" /\ session[s].alive /\ session[s].file <= Files
           /\ Becomes(s, r) /\ r.at = "running" /\ (r.missing <=> session[s].file \notin applied)
           /\ r.of = session[s].of /\ r.file = session[s].file /\ r.alive = session[s].alive
           /\ UNCHANGED <<proc, applied>>
<1>1. PICK b \in BOOLEAN : b = (session[s].file \notin applied)
  OBVIOUS
<1> DEFINE r == [session[s] EXCEPT !.at = "running", !.missing = b]
<1>2. session[s] \in SessionRecord
  BY DEF MigrationTypes
<1>3. r \in SessionRecord /\ r.at = "running" /\ r.of = session[s].of /\ r.missing = b
      /\ r.file = session[s].file /\ r.alive = session[s].alive
  BY <1>2 DEF SessionRecord, Places
<1>4. session' = [session EXCEPT ![s] = r]
  BY <1>1, Zenon DEF RunFile
<1> QED
  BY <1>1, <1>3, <1>4 DEF RunFile, Becomes

LEMMA CommitEffect ==
  ASSUME MigrationTypes, NEW s \in Sessions, CommitFile(s)
  PROVE  \E r \in SessionRecord :
           /\ session[s].at = "running" /\ Becomes(s, r) /\ proc' = proc
           /\ r.of = session[s].of /\ r.alive = session[s].alive
           /\ \/ /\ r.at = "locked" /\ r.file = session[s].file + 1
                 /\ applied' = applied \cup {session[s].file}
              \/ r.at = "failed" /\ r.file = session[s].file /\ applied' = applied
<1>1. session[s] \in SessionRecord
  BY DEF MigrationTypes
<1>2. ASSUME session' = [session EXCEPT ![s].at = "locked", ![s].file = @ + 1, ![s].missing = FALSE]
      PROVE  \E r \in SessionRecord : /\ Becomes(s, r) /\ r.at = "locked" /\ r.file = session[s].file + 1
                                      /\ r.of = session[s].of /\ r.alive = session[s].alive
  <2>1. PICK b \in BOOLEAN : b = FALSE
    OBVIOUS
  <2>2. PICK f \in Nat \ {0} : f = session[s].file + 1
    BY <1>1 DEF SessionRecord
  <2> DEFINE r == [session[s] EXCEPT !.at = "locked", !.file = f, !.missing = b]
  <2>3. r \in SessionRecord /\ r.at = "locked" /\ r.file = f
        /\ r.of = session[s].of /\ r.alive = session[s].alive
    BY <1>1 DEF SessionRecord, Places
  <2>4. session' = [session EXCEPT ![s] = r]
    BY <1>2, <2>1, <2>2, Zenon
  <2> QED
    BY <2>2, <2>3, <2>4 DEF Becomes
<1>3. ASSUME session' = [session EXCEPT ![s].at = "failed"]
      PROVE  \E r \in SessionRecord : /\ Becomes(s, r) /\ r.at = "failed" /\ r.file = session[s].file
                                      /\ r.of = session[s].of /\ r.alive = session[s].alive
  <2> DEFINE r == [session[s] EXCEPT !.at = "failed"]
  <2>1. r \in SessionRecord /\ r.at = "failed" /\ r.file = session[s].file
        /\ r.of = session[s].of /\ r.alive = session[s].alive
    BY <1>1 DEF SessionRecord, Places
  <2>2. session' = [session EXCEPT ![s] = r]
    BY <1>3, Zenon
  <2> QED
    BY <2>1, <2>2 DEF Becomes
<1>4. session[s].at = "running" /\ proc' = proc
  BY DEF CommitFile
<1>5. \/ /\ applied' = applied \cup {session[s].file}
         /\ session' = [session EXCEPT ![s].at = "locked", ![s].file = @ + 1, ![s].missing = FALSE]
      \/ applied' = applied /\ session' = [session EXCEPT ![s].at = "failed"]
  BY Zenon DEF CommitFile
<1>6. CASE session' = [session EXCEPT ![s].at = "failed"] /\ applied' = applied
  BY <1>3, <1>4, <1>6
<1>7. CASE /\ applied' = applied \cup {session[s].file}
           /\ session' = [session EXCEPT ![s].at = "locked", ![s].file = @ + 1, ![s].missing = FALSE]
  BY <1>2, <1>4, <1>7
<1> QED
  BY <1>5, <1>6, <1>7

\* Unlock by a process that is done or has failed; Reap of a session left over.
LEMMA CloseEffect ==
  ASSUME NEW s \in Sessions, Unlock(s) \/ Reap(s)
  PROVE  /\ Becomes(s, NoSession) /\ applied' = applied
         /\ \/ ~session[s].alive /\ proc' = proc
            \/ /\ session[s].alive /\ ~Closed(s)
               /\ \/ proc' = [proc EXCEPT ![session[s].of] = "down"]
                  \/ /\ proc' = [proc EXCEPT ![session[s].of] = "up"]
                     /\ session[s].at = "locked" /\ session[s].file > Files
BY NoSessionFields DEF Unlock, Reap, Becomes, Closed

LEMMA ExitEffect ==
  ASSUME MigrationTypes, NEW p \in Procs, Exit(p)
  PROVE  /\ proc' = [proc EXCEPT ![p] = "down"] /\ applied' = applied
         /\ session' \in [Sessions -> SessionRecord]
         /\ \A s \in Sessions :
              /\ session'[s].at = session[s].at /\ session'[s].of = session[s].of
              /\ session'[s].file = session[s].file /\ session'[s].missing = session[s].missing
              /\ session'[s].alive <=> session[s].alive /\ session[s].of # p
<1>1. \A s \in Sessions : session[s] \in SessionRecord
  BY DEF MigrationTypes
<1>2. PICK b \in BOOLEAN : b = FALSE
  OBVIOUS
<1>3. \A s \in Sessions :
        session'[s] = IF session[s].of = p THEN [session[s] EXCEPT !.alive = b] ELSE session[s]
  BY <1>2, Zenon DEF Exit
<1>4. ASSUME NEW s \in Sessions
      PROVE  /\ session'[s] \in SessionRecord
             /\ session'[s].at = session[s].at /\ session'[s].of = session[s].of
             /\ session'[s].file = session[s].file /\ session'[s].missing = session[s].missing
             /\ session'[s].alive = IF session[s].of = p THEN b ELSE session[s].alive
  BY <1>1, <1>3, ZenonT(30) DEF SessionRecord
<1>5. session' = [s \in Sessions |-> session'[s]]
  BY Zenon DEF Exit
<1>6. session' \in [Sessions -> SessionRecord]
  BY <1>4, <1>5, Zenon
<1>7. \A s \in Sessions : session'[s].alive <=> session[s].alive /\ session[s].of # p
  BY <1>2, <1>4, Zenon
<1> QED
  BY <1>4, <1>6, <1>7 DEF Exit

-----------------------------------------------------------------------------
(* The steps of the migrations *)

LEMMA BootKeeps ==
  ASSUME SchemaInv, NEW p \in Procs, Boot(p)
  PROVE  SchemaInv'
<1>0. MigrationTypes
  BY DEF SchemaInv
<1>1. PICK s \in Sessions :
        /\ Closed(s) /\ Becomes(s, At("waiting", p))
        /\ proc[p] = "down" /\ proc' = [proc EXCEPT ![p] = "migrating"] /\ applied' = applied
  BY <1>0, BootEffect
<1>2. /\ session' \in [Sessions -> SessionRecord] /\ session'[s] = At("waiting", p)
      /\ \A t \in Sessions : t # s => session'[t] = session[t]
  BY <1>0, <1>1, BecomesTyped
<1>3. session'[s].at = "waiting" /\ session'[s].of = p /\ session'[s].file = 1
  BY <1>2 DEF At
<1>4. proc'[p] = "migrating" /\ \A q \in Procs : q # p => proc'[q] = proc[q]
  BY <1>0, <1>1 DEF MigrationTypes
<1>5. MigrationTypes'
  BY <1>0, <1>1, <1>2 DEF MigrationTypes
<1>6. \A t \in Sessions : t # s /\ Attended(t) => session[t].of # p
  BY <1>1 DEF SchemaInv, OwnerInv, Owned
<1>7. OwnerInv'
  <2>1. \A t \in Sessions : t # s => (Attended(t)' <=> Attended(t))
    BY <1>2 DEF Attended, Closed
  <2>2. ASSUME NEW t \in Sessions PROVE Owned(t)'
    <3>1. CASE t = s
      BY <1>3, <1>4, <3>1 DEF Owned
    <3>2. CASE t # s
      BY <1>2, <1>4, <1>6, <2>1, <3>2 DEF SchemaInv, OwnerInv, Owned
    <3> QED
      BY <3>1, <3>2
  <2>3. ASSUME NEW t \in Sessions, NEW u \in Sessions, Attended(t)', Attended(u)',
               session'[t].of = session'[u].of
        PROVE  t = u
    BY <1>2, <1>3, <1>6, <2>1, <2>3 DEF SchemaInv, OwnerInv
  <2> QED
    BY <2>2, <2>3 DEF OwnerInv
<1>8. \A t \in Sessions : Holding(t)' => Holding(t)
  BY <1>2, <1>3 DEF Holding
<1>9. LockInv'
  BY <1>8 DEF SchemaInv, LockInv
<1>10. ProgressInv'
  <2>1. ASSUME NEW t \in Sessions PROVE Progress(t)'
    BY <1>1, <1>2, <1>3 DEF SchemaInv, ProgressInv, Progress, Holding, DuplicateKey
  <2> QED
    BY <2>1 DEF ProgressInv
<1>11. UpInv'
  BY <1>1, <1>4 DEF SchemaInv, UpInv
<1> QED
  BY <1>5, <1>7, <1>9, <1>10, <1>11 DEF SchemaInv

\* A step of a session that stays with its process keeps the owners.
LEMMA OwnersStay ==
  ASSUME SchemaInv, NEW s \in Sessions, NEW r \in SessionRecord, Becomes(s, r), ~Closed(s),
         r.of = session[s].of, r.alive = session[s].alive, r.at # "closed", proc' = proc
  PROVE  OwnerInv'
<1>0. MigrationTypes
  BY DEF SchemaInv
<1>1. session'[s] = r /\ \A t \in Sessions : t # s => session'[t] = session[t]
  BY <1>0, BecomesTyped
<1>2. \A t \in Sessions : session'[t].of = session[t].of /\ (Attended(t)' <=> Attended(t))
  BY <1>1 DEF Attended, Closed
<1>3. \A t \in Sessions : Owned(t)'
  BY <1>2 DEF SchemaInv, OwnerInv, Owned
<1> QED
  BY <1>2, <1>3 DEF SchemaInv, OwnerInv

LEMMA GrantKeeps ==
  ASSUME SchemaInv, NEW s \in Sessions, Grant(s)
  PROVE  SchemaInv'
<1>0. MigrationTypes
  BY DEF SchemaInv
<1>1. PICK r \in SessionRecord :
        /\ session[s].at = "waiting" /\ (\A t \in Sessions : ~Holding(t))
        /\ Becomes(s, r) /\ r.at = "locked"
        /\ r.of = session[s].of /\ r.file = session[s].file /\ r.alive = session[s].alive
        /\ UNCHANGED <<proc, applied>>
  BY <1>0, GrantEffect
<1>2. /\ session' \in [Sessions -> SessionRecord] /\ session'[s] = r
      /\ \A t \in Sessions : t # s => session'[t] = session[t]
  BY <1>0, <1>1, BecomesTyped
<1>3. MigrationTypes' /\ UpInv'
  BY <1>0, <1>1, <1>2 DEF MigrationTypes, SchemaInv, UpInv
<1>4. OwnerInv'
  BY <1>1, OwnersStay DEF Closed
<1>5. \A t \in Sessions : t # s => ~Holding(t)'
  BY <1>1, <1>2 DEF Holding
<1>6. LockInv'
  BY <1>5 DEF LockInv
<1>7. session[s].file = 1
  BY <1>1 DEF SchemaInv, ProgressInv, Progress
<1>8. Progress(s)'
  BY <1>1, <1>2, <1>7 DEF Progress, Holding
<1>9. ASSUME NEW t \in Sessions, t # s PROVE Progress(t)'
  BY <1>1, <1>2, <1>9 DEF SchemaInv, ProgressInv, Progress, Holding, DuplicateKey
<1> QED
  BY <1>3, <1>4, <1>6, <1>8, <1>9 DEF SchemaInv, ProgressInv

LEMMA RunKeeps ==
  ASSUME SchemaInv, NEW s \in Sessions, RunFile(s)
  PROVE  SchemaInv'
<1>0. MigrationTypes
  BY DEF SchemaInv
<1>1. PICK r \in SessionRecord :
        /\ session[s].at = "locked" /\ session[s].alive /\ session[s].file <= Files
        /\ Becomes(s, r) /\ r.at = "running" /\ (r.missing <=> session[s].file \notin applied)
        /\ r.of = session[s].of /\ r.file = session[s].file /\ r.alive = session[s].alive
        /\ UNCHANGED <<proc, applied>>
  BY <1>0, RunEffect
<1>2. /\ session' \in [Sessions -> SessionRecord] /\ session'[s] = r
      /\ \A t \in Sessions : t # s => session'[t] = session[t]
  BY <1>0, <1>1, BecomesTyped
<1>3. MigrationTypes' /\ UpInv'
  BY <1>0, <1>1, <1>2 DEF MigrationTypes, SchemaInv, UpInv
<1>4. OwnerInv'
  BY <1>1, OwnersStay DEF Closed
<1>5. \A t \in Sessions : Holding(t)' <=> Holding(t)
  BY <1>1, <1>2 DEF Holding
<1>6. LockInv'
  BY <1>5 DEF SchemaInv, LockInv
<1>7. ASSUME NEW t \in Sessions, t # s PROVE Progress(t)'
  BY <1>1, <1>2, <1>7 DEF SchemaInv, ProgressInv, Progress, Holding, DuplicateKey
<1>8. Progress(s)'
  <2>1. 1 .. session[s].file - 1 \subseteq applied
    BY <1>1 DEF SchemaInv, ProgressInv, Progress, Holding
  <2>2. session'[s].file = session[s].file /\ session'[s].at = "running"
    BY <1>1, <1>2
  <2>3. session[s].file \in 1 .. Files
    <3>1. session[s].file \in Nat \ {0} /\ Files \in Nat
      BY <1>0, MigrationsAssumption DEF MigrationTypes, SessionRecord
    <3> QED
      BY <1>1, <3>1
  <2>4. ~DuplicateKey(s)'
    BY <1>1, <1>2 DEF DuplicateKey
  <2> QED
    BY <1>1, <2>1, <2>2, <2>3, <2>4 DEF Progress
<1> QED
  BY <1>3, <1>4, <1>6, <1>7, <1>8 DEF SchemaInv, ProgressInv

LEMMA CommitKeeps ==
  ASSUME SchemaInv, NEW s \in Sessions, CommitFile(s)
  PROVE  SchemaInv' /\ applied \subseteq applied'
<1>0. MigrationTypes
  BY DEF SchemaInv
<1>1. PICK r \in SessionRecord :
        /\ session[s].at = "running" /\ Becomes(s, r) /\ proc' = proc
        /\ r.of = session[s].of /\ r.alive = session[s].alive
        /\ \/ /\ r.at = "locked" /\ r.file = session[s].file + 1
              /\ applied' = applied \cup {session[s].file}
           \/ r.at = "failed" /\ r.file = session[s].file /\ applied' = applied
  BY <1>0, CommitEffect
<1>2. /\ session' \in [Sessions -> SessionRecord] /\ session'[s] = r
      /\ \A t \in Sessions : t # s => session'[t] = session[t]
  BY <1>0, <1>1, BecomesTyped
<1>3. session[s].file \in 1 .. Files /\ 1 .. session[s].file - 1 \subseteq applied
  BY <1>1 DEF SchemaInv, ProgressInv, Progress, Holding
<1>4. applied \subseteq applied' /\ applied' \subseteq 1 .. Files
  BY <1>0, <1>1, <1>3 DEF MigrationTypes
<1>5. MigrationTypes'
  BY <1>0, <1>1, <1>2, <1>4 DEF MigrationTypes
<1>6. UpInv'
  BY <1>0, <1>1, <1>4 DEF MigrationTypes, SchemaInv, UpInv
<1>7. OwnerInv'
  BY <1>1, OwnersStay DEF Closed
<1>8. \A t \in Sessions : (Holding(t)' <=> Holding(t)) /\ (Holding(t) => t = s)
  <2>1. Holding(s) /\ Holding(s)'
    BY <1>1, <1>2 DEF Holding
  <2>2. \A t \in Sessions : t # s => (Holding(t)' <=> Holding(t))
    BY <1>2 DEF Holding
  <2> QED
    BY <2>1, <2>2 DEF SchemaInv, LockInv
<1>9. LockInv'
  BY <1>8 DEF LockInv
<1>10. ASSUME NEW t \in Sessions, t # s PROVE Progress(t)'
  <2>1. ~Holding(t)' /\ session'[t] = session[t]
    BY <1>2, <1>8, <1>10
  <2> QED
    BY <2>1 DEF SchemaInv, ProgressInv, Progress, Holding
<1>11. Progress(s)'
  <2>1. 1 .. r.file - 1 \subseteq applied'
    BY <1>1, <1>3
  <2>2. r.at # "waiting" /\ r.at # "running"
    BY <1>1
  <2> QED
    BY <1>2, <2>1, <2>2 DEF Progress
<1> QED
  BY <1>4, <1>5, <1>6, <1>7, <1>9, <1>10, <1>11 DEF SchemaInv, ProgressInv

LEMMA CloseKeeps ==
  ASSUME SchemaInv, NEW s \in Sessions, Unlock(s) \/ Reap(s)
  PROVE  SchemaInv' /\ applied' = applied
<1>0. MigrationTypes
  BY DEF SchemaInv
<1>1. /\ Becomes(s, NoSession) /\ applied' = applied
      /\ \/ ~session[s].alive /\ proc' = proc
         \/ /\ session[s].alive /\ ~Closed(s)
            /\ \/ proc' = [proc EXCEPT ![session[s].of] = "down"]
               \/ /\ proc' = [proc EXCEPT ![session[s].of] = "up"]
                  /\ session[s].at = "locked" /\ session[s].file > Files
  BY CloseEffect
<1>2. /\ session' \in [Sessions -> SessionRecord] /\ session'[s].at = "closed"
      /\ \A t \in Sessions : t # s => session'[t] = session[t]
  BY <1>0, <1>1, BecomesTyped, NoSessionFields
<1>3. \A t \in Sessions : /\ Attended(t)' => t # s /\ Attended(t)
                          /\ Holding(t)' => t # s /\ Holding(t)
  BY <1>2 DEF Attended, Closed, Holding
<1>4. MigrationTypes'
  BY <1>0, <1>1, <1>2 DEF MigrationTypes
<1>5. \A t \in Sessions : Attended(t)' => proc'[session[t].of] = proc[session[t].of]
  <2>1. \A t \in Sessions : Attended(s) /\ Attended(t)' => session[t].of # session[s].of
    BY <1>3 DEF SchemaInv, OwnerInv
  <2>2. session[s].alive /\ ~Closed(s) => Attended(s)
    BY DEF Attended
  <2>3. \A t \in Sessions : Attended(t)' => session[t].of \in Procs
    BY <1>3 DEF SchemaInv, OwnerInv, Owned
  <2> QED
    BY <1>0, <1>1, <2>1, <2>2, <2>3 DEF MigrationTypes
<1>6. OwnerInv'
  <2>1. \A t \in Sessions : Owned(t)'
    BY <1>2, <1>3, <1>5 DEF SchemaInv, OwnerInv, Owned
  <2> QED
    BY <1>2, <1>3, <2>1 DEF SchemaInv, OwnerInv
<1>7. LockInv'
  BY <1>3 DEF SchemaInv, LockInv
<1>8. ProgressInv'
  <2>1. ASSUME NEW t \in Sessions PROVE Progress(t)'
    <3>1. CASE t = s
      BY <1>2, <3>1 DEF Progress, Holding
    <3>2. CASE t # s
      BY <1>1, <1>2, <3>2 DEF SchemaInv, ProgressInv, Progress, Holding, DuplicateKey
    <3> QED
      BY <3>1, <3>2
  <2> QED
    BY <2>1 DEF ProgressInv
<1>9. UpInv'
  <2>1. session[s].at = "locked" /\ session[s].file > Files => applied = 1 .. Files
    <3>1. session[s].file \in Nat \ {0} /\ Files \in Nat
      BY <1>0, MigrationsAssumption DEF MigrationTypes, SessionRecord
    <3>2. session[s].at = "locked" => 1 .. session[s].file - 1 \subseteq applied
      BY DEF SchemaInv, ProgressInv, Progress, Holding
    <3>3. session[s].file > Files => 1 .. Files \subseteq 1 .. session[s].file - 1
      BY <3>1
    <3>4. applied \subseteq 1 .. Files
      BY <1>0 DEF MigrationTypes
    <3> QED
      BY <3>2, <3>3, <3>4, Zenon
  <2>2. ASSUME NEW p \in Procs, proc'[p] = "up"
        PROVE  proc[p] = "up" \/ (session[s].at = "locked" /\ session[s].file > Files)
    BY <1>0, <1>1, <2>2 DEF MigrationTypes
  <2> QED
    BY <1>1, <2>1, <2>2 DEF SchemaInv, UpInv
<1> QED
  BY <1>1, <1>4, <1>6, <1>7, <1>8, <1>9 DEF SchemaInv

LEMMA ExitKeeps ==
  ASSUME SchemaInv, NEW p \in Procs, Exit(p)
  PROVE  SchemaInv' /\ applied' = applied
<1>0. MigrationTypes
  BY DEF SchemaInv
<1>1. /\ proc' = [proc EXCEPT ![p] = "down"] /\ applied' = applied
      /\ session' \in [Sessions -> SessionRecord]
      /\ \A s \in Sessions :
           /\ session'[s].at = session[s].at /\ session'[s].of = session[s].of
           /\ session'[s].file = session[s].file /\ session'[s].missing = session[s].missing
           /\ session'[s].alive <=> session[s].alive /\ session[s].of # p
  BY <1>0, ExitEffect
<1>2. \A s \in Sessions : /\ Attended(s)' => Attended(s) /\ session[s].of # p
                          /\ Holding(s)' <=> Holding(s)
  BY <1>1 DEF Attended, Closed, Holding
<1>3. \A q \in Procs : (q # p => proc'[q] = proc[q]) /\ (q = p => proc'[q] = "down")
  BY <1>0, <1>1 DEF MigrationTypes
<1>4. MigrationTypes'
  BY <1>0, <1>1 DEF MigrationTypes
<1>5. OwnerInv'
  <2>1. \A s \in Sessions : Owned(s)'
    BY <1>1, <1>2, <1>3 DEF SchemaInv, OwnerInv, Owned
  <2> QED
    BY <1>1, <1>2, <2>1 DEF SchemaInv, OwnerInv
<1>6. LockInv'
  BY <1>2 DEF SchemaInv, LockInv
<1>7. ProgressInv'
  <2>1. ASSUME NEW s \in Sessions PROVE Progress(s)'
    <3>1. DuplicateKey(s)' <=> DuplicateKey(s)
      BY <1>1 DEF DuplicateKey
    <3> QED
      BY <1>1, <1>2, <3>1 DEF SchemaInv, ProgressInv, Progress
  <2> QED
    BY <2>1 DEF ProgressInv
<1>8. UpInv'
  BY <1>1, <1>3 DEF SchemaInv, UpInv
<1> QED
  BY <1>1, <1>4, <1>5, <1>6, <1>7, <1>8 DEF SchemaInv

-----------------------------------------------------------------------------
(* The whole system *)

LEMMA SchemaInit == MigrationsInit => SchemaInv
<1> SUFFICES ASSUME MigrationsInit PROVE SchemaInv
  OBVIOUS
<1>1. \A s \in Sessions : session[s] = NoSession /\ session[s].at = "closed"
  BY NoSessionFields DEF MigrationsInit
<1>2. MigrationTypes
  BY NoSessionFields, Zenon DEF MigrationsInit, MigrationTypes
<1>3. OwnerInv /\ LockInv /\ ProgressInv
  BY <1>1 DEF OwnerInv, Owned, Attended, Closed, LockInv, Holding, ProgressInv, Progress
<1>4. UpInv
  BY DEF MigrationsInit, UpInv
<1> QED
  BY <1>2, <1>3, <1>4 DEF SchemaInv

LEMMA StaysComplete ==
  ASSUME SchemaInv', applied \subseteq applied', applied = 1 .. Files
  PROVE  applied' = 1 .. Files
BY DEF SchemaInv, MigrationTypes

LEMMA MigrateKeeps ==
  ASSUME SchemaInv, UsedInv, Migrate
  PROVE  SchemaInv' /\ UsedInv'
<1>1. SchemaInv' /\ applied \subseteq applied'
  <2>1. CASE \E p \in Procs : Boot(p)
    BY <2>1, BootKeeps DEF Boot
  <2>2. CASE \E p \in Procs : Kill(p)
    BY <2>2, ExitKeeps DEF Kill
  <2>3. ASSUME NEW s \in Sessions, MigrationStep(s) PROVE SchemaInv' /\ applied \subseteq applied'
    <3>1. CASE Grant(s)
      BY <3>1, GrantKeeps DEF Grant
    <3>2. CASE RunFile(s)
      BY <3>2, RunKeeps DEF RunFile
    <3>3. CASE CommitFile(s)
      BY <3>3, CommitKeeps
    <3>4. CASE Unlock(s) \/ Reap(s)
      BY <3>4, CloseKeeps
    <3> QED
      BY <2>3, <3>1, <3>2, <3>3, <3>4 DEF MigrationStep
  <2> QED
    BY <2>1, <2>2, <2>3 DEF Migrate
<1>2. row' = row /\ pc' = pc
  BY DEF Migrate, vars
<1> QED
  BY <1>1, <1>2, StaysComplete DEF UsedInv

LEMMA SchemaUntouched ==
  ASSUME SchemaInv, UNCHANGED migrationVars
  PROVE  SchemaInv'
<1>1. proc' = proc /\ session' = session /\ applied' = applied
  BY DEF migrationVars
<1>2. \A s \in Sessions : /\ Owned(s)' <=> Owned(s)
                          /\ Attended(s)' <=> Attended(s)
                          /\ Holding(s)' <=> Holding(s)
                          /\ Progress(s)' <=> Progress(s)
  BY <1>1 DEF Owned, Attended, Closed, Holding, Progress, DuplicateKey
<1>3. MigrationTypes' /\ OwnerInv' /\ LockInv' /\ ProgressInv' /\ UpInv'
  BY <1>1, <1>2 DEF SchemaInv, MigrationTypes, OwnerInv, LockInv, ProgressInv, UpInv
<1> QED
  BY <1>3 DEF SchemaInv

LEMMA IncrementKeeps ==
  ASSUME SchemaInv, UsedInv, Increment
  PROVE  SchemaInv' /\ UsedInv'
<1>1. SchemaInv' /\ applied' = applied
  BY SchemaUntouched DEF Increment, migrationVars
<1>2. CASE proc["api"] = "up"
  BY <1>1, <1>2, AnalyticsAssumption DEF SchemaInv, UpInv, UsedInv
<1>3. CASE \E v \in Views : InsertCommit(v)
  BY <1>1, <1>3 DEF InsertCommit, UsedInv
<1>4. CASE Tick
  BY <1>1, <1>4 DEF Tick, tables, UsedInv
<1> QED
  BY <1>2, <1>3, <1>4 DEF Increment

LEMMA CleanKeeps ==
  ASSUME SchemaInv, UsedInv, Clean
  PROVE  SchemaInv' /\ UsedInv'
<1>1. "cleaner" \in Procs /\ proc["cleaner"] = "up"
  BY AnalyticsAssumption DEF Clean
<1>2. applied = 1 .. Files
  BY <1>1 DEF SchemaInv, UpInv
<1>3. Exit("cleaner") \/ UNCHANGED migrationVars
  BY DEF Clean
<1>4. SchemaInv' /\ applied' = applied
  BY <1>1, <1>3, ExitKeeps, SchemaUntouched DEF migrationVars
<1> QED
  BY <1>2, <1>4 DEF UsedInv

LEMMA KillKeeps ==
  ASSUME SchemaInv, UsedInv, KillCleaner
  PROVE  SchemaInv' /\ UsedInv'
<1>1. SchemaInv' /\ applied' = applied
  BY ExitKeeps, AnalyticsAssumption DEF KillCleaner, Kill
<1>2. row' = row /\ (pc' = pc \/ pc' = "ended")
  BY DEF KillCleaner, Crash, vars, tables
<1> QED
  BY <1>1, <1>2 DEF UsedInv

LEMMA OrphanKeeps ==
  ASSUME SchemaInv, UsedInv, NEW o \in orphans, FinishOrphan(o)
  PROVE  SchemaInv' /\ UsedInv'
<1>1. SchemaInv' /\ applied' = applied /\ pc' = pc
  BY SchemaUntouched DEF FinishOrphan, migrationVars
<1>2. \A v \in Views : row'[v] = "running" => row[v] = "running"
  BY DEF FinishOrphan, DeleteRows
<1> QED
  BY <1>1, <1>2 DEF UsedInv

LEMMA SchemaInvariant == AnalyticsSpec => [](SchemaInv /\ UsedInv)
<1>1. AnalyticsInit => SchemaInv /\ UsedInv
  BY SchemaInit DEF AnalyticsInit, Init, UsedInv
<1>2. SchemaInv /\ UsedInv /\ [AnalyticsNext]_allVars => (SchemaInv /\ UsedInv)'
  <2>1. SchemaInv /\ UsedInv /\ AnalyticsNext => (SchemaInv /\ UsedInv)'
    BY MigrateKeeps, IncrementKeeps, CleanKeeps, KillKeeps, OrphanKeeps DEF AnalyticsNext
  <2>2. SchemaInv /\ UsedInv /\ UNCHANGED allVars => (SchemaInv /\ UsedInv)'
    BY SchemaUntouched DEF allVars, vars, migrationVars, UsedInv
  <2> QED
    BY <2>1, <2>2
<1> QED
  BY <1>1, <1>2, PTL DEF AnalyticsSpec

\* Both mains call runMigrations first: for any number of sessions and files,
\* whichever process fails or is killed while it migrates and whatever its
\* session still does, no statement creates what exists, and nobody serves,
\* inserts or cleans before every file has been applied.
THEOREM SchemaComesFirst == AnalyticsSpec => []MigratedFirst
<1>1. SchemaInv /\ UsedInv => MigratedFirst
  BY DEF SchemaInv, UsedInv, ProgressInv, Progress, UpInv, MigratedFirst, MigrationsSafe
<1> QED
  BY <1>1, SchemaInvariant, PTL

\* The advisory lock is never left with a process that has finished or failed:
\* it is held by one that migrates or by a session the server will close.
THEOREM LockComesFree == AnalyticsSpec => []LockGivenBack
<1>1. SchemaInv => LockGivenBack
  BY DEF SchemaInv, OwnerInv, Owned, Attended, Closed, Holding, LockGivenBack
<1> QED
  BY <1>1, SchemaInvariant, PTL
-----------------------------------------------------------------------------
(* The aggregations *)

\* A row that a cycle has yet to count, or to count again.
Open(v) == row[v] \in {"none", "running", "visible"} /\ ~(pc = "delete" /\ row[v] = "visible" /\ Aged(v))

\* Statements of killed cleaners that will count it.
Claims(v) == {o \in orphans : o.kind = "aggregate" /\ v \in o.rows}

OrphanRecord == [kind : {"aggregate", "delete"}, rows : SUBSET Views, nr : Nat]

AnalyticsTypes ==
  /\ TypeOK /\ TimeInv
  /\ counted \in [Views -> Nat] /\ spoiled \in Nat
  /\ IsFiniteSet(orphans) /\ orphans \subseteq OrphanRecord
  /\ \A o \in orphans : o.nr < spoiled

\* Every count in hand, to come from a killed cleaner's statement or to come
\* from a cycle is the first one or stands for a spoiled cycle.
Budget(v) == counted[v] + Cardinality(Claims(v)) + (IF Open(v) THEN 1 ELSE 0) <= 1 + spoiled
BudgetInv == \A v \in Views : Budget(v)

\* Whatever is deleted, or may be by a statement sent, has been counted.
CountedInv ==
  /\ \A v \in Views : row[v] = "deleted" \/ (pc = "delete" /\ v \in Due) => counted[v] >= 1
  /\ \A o \in orphans : o.kind = "delete" => \A v \in o.rows : counted[v] >= 1

ViewsOf(b) == {v \in Views : BucketOf[v] = b}
AppliedMultis == {m \in Multis : multi[m] = "applied"}
Deltas(b) == [m \in Multis |-> MultiDelta(m, b)]
HourlyInv ==
  /\ IsFiniteSet(AppliedMultis)
  /\ \A b \in Buckets : hourly[b] = Sum(counted, ViewsOf(b)) + Sum(Deltas(b), AppliedMultis)

CountInv == AnalyticsTypes /\ BudgetInv /\ CountedInv /\ HourlyInv

-----------------------------------------------------------------------------
(* Sums *)

Pairs(f, S) == UNION {{x} \X (1 .. f[x]) : x \in S}

LEMMA SumType ==
  ASSUME NEW S, IsFiniteSet(S), NEW f, \A x \in S : f[x] \in Nat
  PROVE  IsFiniteSet(Pairs(f, S)) /\ Sum(f, S) = Cardinality(Pairs(f, S)) /\ Sum(f, S) \in Nat
<1> DEFINE Row(x) == {x} \X (1 .. f[x])
           Rows == {Row(x) : x \in S}
           g == [x \in S |-> Row(x)]
<1>1. IsFiniteSet(Rows)
  <2>1. g \in Surjection(S, Rows)
    BY DEF Surjection
  <2> HIDE DEF g, Rows
  <2> QED
    BY <2>1, FS_Surjection
<1>2. \A R \in Rows : IsFiniteSet(R)
  <2> SUFFICES ASSUME NEW x \in S PROVE IsFiniteSet({x} \X (1 .. f[x]))
    OBVIOUS
  <2>1. IsFiniteSet({x})
    BY FS_Singleton
  <2>2. IsFiniteSet(1 .. f[x])
    BY FS_Interval
  <2> QED
    BY <2>1, <2>2, FS_Product
<1>3. Pairs(f, S) = UNION Rows
  BY DEF Pairs
<1>4. IsFiniteSet(Pairs(f, S))
  <2> HIDE DEF Rows
  <2> QED
    BY <1>1, <1>2, <1>3, FS_UNION
<1>5. Sum(f, S) = Cardinality(Pairs(f, S))
  BY DEF Sum, Pairs
<1> QED
  BY <1>4, <1>5, FS_CardinalityType

LEMMA EmptySum ==
  ASSUME NEW f
  PROVE  Sum(f, {}) = 0
<1>1. UNION {{x} \X (1 .. f[x]) : x \in {}} = {}
  OBVIOUS
<1> QED
  BY <1>1, FS_EmptySet DEF Sum

LEMMA DisjointUnion ==
  ASSUME NEW S, NEW T, IsFiniteSet(S), IsFiniteSet(T), S \cap T = {}
  PROVE  Cardinality(S \cup T) = Cardinality(S) + Cardinality(T)
<1>1. Cardinality(S \cup T) = Cardinality(S) + Cardinality(T) - Cardinality(S \cap T)
  BY FS_Union
<1>2. Cardinality(S \cap T) = 0
  BY FS_EmptySet
<1>3. Cardinality(S) \in Nat /\ Cardinality(T) \in Nat
  BY FS_CardinalityType
<1> QED
  BY <1>1, <1>2, <1>3

\* One more for each x of T.
LEMMA SumOneMore ==
  ASSUME NEW S, IsFiniteSet(S), NEW T, T \subseteq S, NEW f, NEW g,
         \A x \in S : f[x] \in Nat /\ g[x] = IF x \in T THEN f[x] + 1 ELSE f[x]
  PROVE  Sum(g, S) = Sum(f, S) + Cardinality(T)
<1> DEFINE new == {<<x, f[x] + 1>> : x \in T}
           h == [x \in T |-> <<x, f[x] + 1>>]
<1>1. /\ IsFiniteSet(Pairs(f, S)) /\ Sum(f, S) = Cardinality(Pairs(f, S))
      /\ Sum(g, S) = Cardinality(Pairs(g, S))
  BY SumType
<1>2. IsFiniteSet(T)
  BY FS_Subset
<1>3. IsFiniteSet(new) /\ Cardinality(new) = Cardinality(T)
  <2>1. h \in [T -> new] /\ (\A n \in new : \E x \in T : h[x] = n)
    OBVIOUS
  <2>2. ASSUME NEW x \in T, NEW y \in T, h[x] = h[y] PROVE x = y
    BY <2>2
  <2> HIDE DEF h, new
  <2>3. h \in Bijection(T, new)
    BY <2>1, <2>2 DEF Bijection, Injection, IsInjective, Surjection
  <2>4. ExistsBijection(T, new)
    BY <2>3 DEF ExistsBijection
  <2> QED
    BY <1>2, <2>4, FS_Bijection
<1>4. Pairs(g, S) = Pairs(f, S) \cup new
  <2>1. ASSUME NEW x \in S PROVE {x} \X (1 .. g[x]) = ({x} \X (1 .. f[x])) \cup {<<y, f[y] + 1>> : y \in T \cap {x}}
    <3>1. CASE x \in T
      <4>1. 1 .. g[x] = (1 .. f[x]) \cup {f[x] + 1}
        BY <3>1
      <4>2. {<<y, f[y] + 1>> : y \in T \cap {x}} = {<<x, f[x] + 1>>}
        BY <3>1
      <4>3. {x} \X ((1 .. f[x]) \cup {f[x] + 1}) = ({x} \X (1 .. f[x])) \cup {<<x, f[x] + 1>>}
        OBVIOUS
      <4> QED
        BY <4>1, <4>2, <4>3
    <3>2. CASE x \notin T
      BY <3>2
    <3> QED
      BY <3>1, <3>2
  <2>2. ASSUME NEW p \in Pairs(g, S) PROVE p \in Pairs(f, S) \cup new
    BY <2>1 DEF Pairs
  <2>3. ASSUME NEW p \in Pairs(f, S) \cup new PROVE p \in Pairs(g, S)
    <3>1. CASE p \in Pairs(f, S)
      BY <2>1, <3>1 DEF Pairs
    <3>2. CASE p \in new
      <4>1. PICK x \in T : p = <<x, f[x] + 1>>
        BY <3>2
      <4>2. p \in {x} \X (1 .. g[x])
        <5>1. g[x] = f[x] + 1 /\ f[x] \in Nat
          BY <4>1
        <5> QED
          BY <4>1, <5>1
      <4> QED
        BY <4>1, <4>2 DEF Pairs
    <3> QED
      BY <2>3, <3>1, <3>2
  <2> QED
    BY <2>2, <2>3
<1>5. Pairs(f, S) \cap new = {}
  <2> SUFFICES ASSUME NEW p \in Pairs(f, S), p \in new PROVE FALSE
    OBVIOUS
  <2>1. PICK x \in T : p = <<x, f[x] + 1>>
    OBVIOUS
  <2>2. PICK y \in S : p \in {y} \X (1 .. f[y])
    BY DEF Pairs
  <2> QED
    BY <2>1, <2>2
<1> HIDE DEF new
<1> QED
  BY <1>1, <1>3, <1>4, <1>5, DisjointUnion

\* One more x.
LEMMA SumAdds ==
  ASSUME NEW S, IsFiniteSet(S), NEW y, y \notin S, NEW f,
         \A x \in S \cup {y} : f[x] \in Nat
  PROVE  Sum(f, S \cup {y}) = Sum(f, S) + f[y]
<1> DEFINE new == {y} \X (1 .. f[y])
<1>1. IsFiniteSet(S \cup {y})
  BY FS_AddElement
<1>2. /\ IsFiniteSet(Pairs(f, S)) /\ Sum(f, S) = Cardinality(Pairs(f, S))
      /\ Sum(f, S \cup {y}) = Cardinality(Pairs(f, S \cup {y}))
  BY <1>1, SumType
<1>3. IsFiniteSet(new) /\ Cardinality(new) = f[y]
  <2>1. IsFiniteSet({y}) /\ Cardinality({y}) = 1
    BY FS_Singleton
  <2>2. IsFiniteSet(1 .. f[y]) /\ Cardinality(1 .. f[y]) = f[y]
    BY FS_Interval
  <2>3. IsFiniteSet(new) /\ Cardinality(new) = 1 * f[y]
    BY <2>1, <2>2, FS_Product
  <2> QED
    BY <2>3
<1>4. Pairs(f, S \cup {y}) = Pairs(f, S) \cup new
  BY DEF Pairs
<1>5. Pairs(f, S) \cap new = {}
  BY DEF Pairs
<1>6. Cardinality(Pairs(f, S) \cup new) = Cardinality(Pairs(f, S)) + Cardinality(new)
  <2> HIDE DEF new
  <2> QED
    BY <1>2, <1>3, <1>5, DisjointUnion
<1> QED
  BY <1>2, <1>3, <1>4, <1>6
-----------------------------------------------------------------------------
(* What a step does to the counts *)

\* The rows of S are counted, in their buckets and in the history.
Aggregates(S) ==
  /\ S \subseteq Views
  /\ hourly' = [b \in Buckets |-> hourly[b] + Cardinality({v \in S : BucketOf[v] = b})]
  /\ Count(S)

LEMMA CountIsOne ==
  ASSUME AnalyticsTypes, NEW S, Count(S)
  PROVE  /\ counted' \in [Views -> Nat]
         /\ \A v \in Views : /\ counted[v] \in Nat /\ counted'[v] \in Nat
                             /\ v \in S => counted'[v] = counted[v] + 1
                             /\ v \notin S => counted'[v] = counted[v]
BY DEF AnalyticsTypes, Count

\* The cleaner's own aggregation counts what is due, also when nothing is.
LEMMA AddDueCounts ==
  ASSUME AnalyticsTypes, AddDue,
         IF hourly' # hourly THEN Count(Due) ELSE UNCHANGED counted
  PROVE  Aggregates(Due)
<1>1. \A b \in Buckets : DueIn(b) = {v \in Due : BucketOf[v] = b}
  BY DEF DueIn
<1>2. Due \subseteq Views
  BY DEF Due
<1>3. hourly' = [b \in Buckets |-> hourly[b] + Cardinality({v \in Due : BucketOf[v] = b})]
  BY <1>1 DEF AddDue
<1>4. CASE hourly' # hourly
  BY <1>2, <1>3, <1>4 DEF Aggregates
<1>5. CASE hourly' = hourly
  <2>1. ASSUME NEW v \in Due PROVE FALSE
    <3>1. BucketOf[v] \in Buckets
      BY <1>2, ViewsAssumption
    <3> DEFINE T == {u \in Due : BucketOf[u] = BucketOf[v]}
    <3>2. IsFiniteSet(T) /\ Cardinality(T) \in Nat
      BY <1>2, CountsAreNat
    <3>3. hourly[BucketOf[v]] = hourly[BucketOf[v]] + Cardinality(T)
      BY <1>3, <1>5, <3>1, Zenon
    <3>4. hourly[BucketOf[v]] \in Nat
      BY <3>1 DEF AnalyticsTypes, TypeOK
    <3>5. Cardinality(T) = 0
      <4> HIDE DEF T
      <4> QED
        BY <3>2, <3>3, <3>4
    <3>6. v \in T
      OBVIOUS
    <3> QED
      BY <3>2, <3>5, <3>6, FS_EmptySet
  <2>2. Due = {}
    BY <2>1
  <2>3. counted' = counted
    BY <1>5
  <2>4. counted = [v \in Views |-> counted[v]]
    BY DEF AnalyticsTypes
  <2>5. Count(Due)
    BY <2>2, <2>3, <2>4 DEF Count
  <2> QED
    BY <1>2, <1>3, <2>5 DEF Aggregates
<1> QED
  BY <1>4, <1>5

LEMMA AggregatesHourly ==
  ASSUME AnalyticsTypes, HourlyInv, NEW S, Aggregates(S), multi' = multi
  PROVE  HourlyInv'
<1>1. AppliedMultis' = AppliedMultis
  BY DEF AppliedMultis
<1>2. ASSUME NEW b \in Buckets
      PROVE  hourly'[b] = Sum(counted', ViewsOf(b)) + Sum(Deltas(b), AppliedMultis)
  <2> DEFINE T == {v \in S : BucketOf[v] = b}
  <2>1. T \subseteq ViewsOf(b) /\ ViewsOf(b) \subseteq Views /\ IsFiniteSet(ViewsOf(b))
        /\ Cardinality(T) \in Nat
    BY CountsAreNat DEF Aggregates, ViewsOf
  <2>2. \A v \in ViewsOf(b) :
          counted[v] \in Nat /\ counted'[v] = IF v \in T THEN counted[v] + 1 ELSE counted[v]
    BY <2>1, CountIsOne DEF Aggregates, ViewsOf
  <2>3. hourly'[b] = hourly[b] + Cardinality(T)
    BY DEF Aggregates
  <2>4. Sum(counted', ViewsOf(b)) = Sum(counted, ViewsOf(b)) + Cardinality(T)
    <3> HIDE DEF T
    <3> QED
      BY <2>1, <2>2, SumOneMore
  <2>5. Sum(counted, ViewsOf(b)) \in Nat
    BY <2>1, <2>2, SumType
  <2>6. Sum(Deltas(b), AppliedMultis) \in Nat
    <3>1. \A m \in AppliedMultis : Deltas(b)[m] \in Nat
      BY DeltaIsNat DEF Deltas, AppliedMultis
    <3> QED
      BY <3>1, SumType DEF HourlyInv
  <2>7. hourly[b] = Sum(counted, ViewsOf(b)) + Sum(Deltas(b), AppliedMultis)
    BY DEF HourlyInv
  <2> HIDE DEF T
  <2> QED
    BY <2>1, <2>3, <2>4, <2>5, <2>6, <2>7
<1>3. \A b \in Buckets : ViewsOf(b)' = ViewsOf(b) /\ Deltas(b)' = Deltas(b)
  BY DEF ViewsOf, Deltas, MultiDelta, KeysOf
<1>4. IsFiniteSet(AppliedMultis')
  BY <1>1 DEF HourlyInv
<1>5. ASSUME NEW b \in Buckets
      PROVE  hourly'[b] = Sum(counted', ViewsOf(b)') + Sum(Deltas(b)', AppliedMultis')
  BY <1>1, <1>2, <1>3
<1>6. \A b \in Buckets : hourly'[b] = (Sum(counted, ViewsOf(b)) + Sum(Deltas(b), AppliedMultis))'
  BY <1>5 DEF Sum
<1> QED
  BY <1>4, <1>6 DEF HourlyInv

LEMMA UpsertHourly ==
  ASSUME AnalyticsTypes, HourlyInv, NEW m \in Multis, UpsertMulti(m), counted' = counted
  PROVE  HourlyInv'
<1>0. multi \in [Multis -> {"none", "applied", "failed"}] /\ hourly \in [Buckets -> Nat]
  BY DEF AnalyticsTypes, TypeOK
<1>1. \A b \in Buckets : ViewsOf(b)' = ViewsOf(b) /\ Deltas(b)' = Deltas(b)
  BY DEF ViewsOf, Deltas, MultiDelta, KeysOf
<1>2. CASE multi' = [multi EXCEPT ![m] = "failed"] /\ hourly' = hourly
  <2>1. multi[m] = "none"
    BY DEF UpsertMulti
  <2>2. AppliedMultis' = AppliedMultis
    BY <1>0, <1>2, <2>1 DEF AppliedMultis
  <2> QED
    BY <1>1, <1>2, <2>2 DEF HourlyInv, Sum
<1>3. CASE /\ multi' = [multi EXCEPT ![m] = "applied"]
           /\ hourly' = [b \in Buckets |-> hourly[b] + MultiDelta(m, b)]
  <2>1. multi[m] = "none"
    BY DEF UpsertMulti
  <2>2. m \notin AppliedMultis /\ AppliedMultis' = AppliedMultis \cup {m}
    BY <1>0, <1>3, <2>1 DEF AppliedMultis
  <2>3. IsFiniteSet(AppliedMultis) /\ IsFiniteSet(AppliedMultis')
    BY <2>2, FS_AddElement DEF HourlyInv
  <2>4. ASSUME NEW b \in Buckets
        PROVE  hourly'[b] = Sum(counted, ViewsOf(b)) + Sum(Deltas(b), AppliedMultis')
    <3>1. \A n \in AppliedMultis \cup {m} : Deltas(b)[n] \in Nat
      BY DeltaIsNat DEF Deltas, AppliedMultis
    <3>2. Sum(Deltas(b), AppliedMultis \cup {m}) = Sum(Deltas(b), AppliedMultis) + Deltas(b)[m]
      BY <2>2, <2>3, <3>1, SumAdds
    <3>3. Deltas(b)[m] = MultiDelta(m, b) /\ MultiDelta(m, b) \in Nat
      BY DeltaIsNat DEF Deltas
    <3>4. Sum(Deltas(b), AppliedMultis) \in Nat
      BY <2>3, <3>1, SumType
    <3>5. Sum(counted, ViewsOf(b)) \in Nat
      <4>1. IsFiniteSet(ViewsOf(b)) /\ \A v \in ViewsOf(b) : counted[v] \in Nat
        BY CountsAreNat DEF ViewsOf, AnalyticsTypes
      <4> QED
        BY <4>1, SumType
    <3>6. hourly[b] = Sum(counted, ViewsOf(b)) + Sum(Deltas(b), AppliedMultis)
      BY DEF HourlyInv
    <3>7. hourly'[b] = hourly[b] + MultiDelta(m, b)
      BY <1>3
    <3>8. Sum(Deltas(b), AppliedMultis') = Sum(Deltas(b), AppliedMultis) + MultiDelta(m, b)
      BY <2>2, <3>2, <3>3
    <3> QED
      BY <3>3, <3>4, <3>5, <3>6, <3>7, <3>8
  <2>5. \A b \in Buckets : hourly'[b] = (Sum(counted, ViewsOf(b)) + Sum(Deltas(b), AppliedMultis))'
    BY <1>1, <2>4 DEF Sum
  <2> QED
    BY <2>3, <2>5 DEF HourlyInv
<1> QED
  BY <1>2, <1>3 DEF UpsertMulti

LEMMA HourlyStays ==
  ASSUME HourlyInv, UNCHANGED <<hourly, multi, counted>>
  PROVE  HourlyInv'
<1>1. AppliedMultis' = AppliedMultis
  BY DEF AppliedMultis
<1>2. \A b \in Buckets : ViewsOf(b)' = ViewsOf(b) /\ Deltas(b)' = Deltas(b)
  BY DEF ViewsOf, Deltas, MultiDelta, KeysOf
<1> QED
  BY <1>1, <1>2 DEF HourlyInv, Sum

\* The set of claims on a view can be counted.
LEMMA ClaimsFinite ==
  ASSUME AnalyticsTypes, NEW v
  PROVE  IsFiniteSet(Claims(v)) /\ Cardinality(Claims(v)) \in Nat
BY FS_Subset, FS_CardinalityType DEF AnalyticsTypes, Claims

\* A step that neither counts v nor claims it may reopen it when it spoils.
LEMMA BudgetStays ==
  ASSUME AnalyticsTypes, NEW v \in Views, Budget(v), orphans' = orphans,
         counted'[v] = counted[v], spoiled' \in {spoiled, spoiled + 1},
         Open(v)' => Open(v) \/ spoiled' = spoiled + 1
  PROVE  Budget(v)'
<1>1. Claims(v)' = Claims(v) /\ Cardinality(Claims(v)) \in Nat
  BY ClaimsFinite DEF Claims
<1>2. counted[v] \in Nat /\ spoiled \in Nat
  BY DEF AnalyticsTypes
<1> DEFINE n == Cardinality(Claims(v))
<1>3. Cardinality(Claims(v)') = n /\ n \in Nat
  BY <1>1
<1>4. counted[v] + n + (IF Open(v) THEN 1 ELSE 0) <= 1 + spoiled
  BY DEF Budget
<1>5. counted'[v] + n + (IF Open(v)' THEN 1 ELSE 0) <= 1 + spoiled'
  <2> HIDE DEF n
  <2>1. CASE Open(v)'
    BY <1>2, <1>3, <1>4, <2>1
  <2>2. CASE ~Open(v)'
    BY <1>2, <1>3, <1>4, <2>2
  <2> QED
    BY <2>1, <2>2
<1> QED
  BY <1>3, <1>5 DEF Budget

\* A cycle counts a view that is open, and closes it or is spoiled.
LEMMA BudgetSpent ==
  ASSUME AnalyticsTypes, NEW v \in Views, Budget(v), orphans' = orphans,
         Open(v), counted'[v] = counted[v] + 1, spoiled' \in {spoiled, spoiled + 1},
         Open(v)' => spoiled' = spoiled + 1
  PROVE  Budget(v)'
<1>1. Claims(v)' = Claims(v) /\ Cardinality(Claims(v)) \in Nat
  BY ClaimsFinite DEF Claims
<1>2. counted[v] \in Nat /\ spoiled \in Nat
  BY DEF AnalyticsTypes
<1> DEFINE n == Cardinality(Claims(v))
<1>3. Cardinality(Claims(v)') = n /\ n \in Nat
  BY <1>1
<1>4. counted[v] + n + 1 <= 1 + spoiled
  BY DEF Budget
<1>5. counted'[v] + n + (IF Open(v)' THEN 1 ELSE 0) <= 1 + spoiled'
  <2> HIDE DEF n
  <2>1. CASE Open(v)'
    BY <1>2, <1>3, <1>4, <2>1
  <2>2. CASE ~Open(v)'
    BY <1>2, <1>3, <1>4, <2>2
  <2> QED
    BY <2>1, <2>2
<1> QED
  BY <1>3, <1>5 DEF Budget

LEMMA CountedStays ==
  ASSUME AnalyticsTypes, CountedInv, orphans' \subseteq orphans,
         \A v \in Views : counted'[v] \in Nat /\ counted'[v] >= counted[v],
         \A v \in Views : row'[v] = "deleted" \/ (pc' = "delete" /\ v \in Due') =>
           \/ row[v] = "deleted" \/ (pc = "delete" /\ v \in Due)
           \/ counted'[v] >= 1
  PROVE  CountedInv'
<1>1. \A v \in Views : counted[v] \in Nat
  BY DEF AnalyticsTypes
<1>2. \A v \in Views : row'[v] = "deleted" \/ (pc' = "delete" /\ v \in Due') => counted'[v] >= 1
  BY <1>1 DEF CountedInv
<1>3. ASSUME NEW o \in orphans', o.kind = "delete", NEW v \in o.rows PROVE counted'[v] >= 1
  <2>1. v \in Views
    BY DEF AnalyticsTypes, OrphanRecord
  <2> QED
    BY <1>1, <1>3, <2>1 DEF CountedInv
<1> QED
  BY <1>2, <1>3 DEF CountedInv
-----------------------------------------------------------------------------
(* The steps of the api and the cleaner *)

\* A step of PageViews that leaves the killed cleaners' statements alone.
LEMMA TypesKept ==
  ASSUME AnalyticsTypes, [Next]_vars, orphans' = orphans,
         counted' \in [Views -> Nat], spoiled' \in {spoiled, spoiled + 1}
  PROVE  AnalyticsTypes'
<1>1. TypeOK' /\ TimeInv'
  BY TypeStep, TimeStep DEF AnalyticsTypes
<1>2. spoiled' \in Nat /\ spoiled' >= spoiled /\ spoiled \in Nat
  BY DEF AnalyticsTypes
<1>3. \A o \in orphans : o.nr \in Nat /\ o.nr < spoiled
  BY DEF AnalyticsTypes, OrphanRecord
<1>4. \A o \in orphans : o.nr < spoiled'
  BY <1>2, <1>3
<1> QED
  BY <1>1, <1>2, <1>4 DEF AnalyticsTypes, OrphanRecord

LEMMA StutterCounts ==
  ASSUME CountInv, UNCHANGED <<vars, orphans, history>>
  PROVE  CountInv'
<1>0. AnalyticsTypes /\ CountedInv /\ HourlyInv
  BY DEF CountInv
<1>1. /\ counted' = counted /\ spoiled' = spoiled /\ orphans' = orphans
      /\ row' = row /\ stamp' = stamp /\ cutoff' = cutoff /\ pc' = pc
      /\ hourly' = hourly /\ multi' = multi
  BY DEF history, vars
<1>2. counted \in [Views -> Nat]
  BY DEF CountInv, AnalyticsTypes
<1>3. AnalyticsTypes'
  BY <1>0, <1>1, <1>2, TypesKept
<1>4. \A v \in Views : Open(v)' = Open(v)
  BY <1>1 DEF Open, Aged
<1>5. BudgetInv'
  BY <1>0, <1>1, <1>4, BudgetStays DEF CountInv, BudgetInv
<1>6. Due' = Due
  BY <1>1 DEF Due, Aged
<1>7. CountedInv'
  BY <1>0, <1>1, <1>2, <1>6, CountedStays
<1>8. HourlyInv'
  BY <1>0, <1>1, HourlyStays
<1> QED
  BY <1>3, <1>5, <1>7, <1>8 DEF CountInv

LEMMA IncrementCounts ==
  ASSUME GraceSuffices, CountInv, Increment
  PROVE  CountInv'
<1>0. AnalyticsTypes /\ CountedInv /\ HourlyInv /\ BudgetInv /\ TypeOK /\ NoLateRow
  BY GraceExcludesLateRows DEF CountInv, AnalyticsTypes
<1>1. counted' = counted /\ spoiled' = spoiled /\ orphans' = orphans
  BY DEF Increment, history
<1>2. counted \in [Views -> Nat]
  BY <1>0 DEF AnalyticsTypes
<1>3. Next
  BY DEF Increment, Next
<1>4. AnalyticsTypes'
  BY <1>0, <1>1, <1>2, <1>3, TypesKept
<1>5. pc' = pc /\ cutoff' = cutoff
  BY DEF Increment, InsertStart, InsertCommit, UpsertMulti, Tick
<1>6. ASSUME NEW v \in Views
      PROVE  /\ Open(v)' => Open(v)
             /\ row'[v] = "deleted" => row[v] = "deleted"
             /\ pc = "delete" /\ v \in Due' => v \in Due
  <2>1. CASE UNCHANGED <<row, stamp>>
    BY <1>5, <2>1 DEF Open, Due, Aged
  <2>2. ASSUME NEW u \in Views, InsertStart(u)
        PROVE  /\ Open(v)' => Open(v)
               /\ row'[v] = "deleted" => row[v] = "deleted"
               /\ pc = "delete" /\ v \in Due' => v \in Due
    BY <1>0, <1>5, <2>2 DEF InsertStart, Open, Due, Aged, TypeOK
  <2>3. ASSUME NEW u \in Views, InsertCommit(u)
        PROVE  /\ Open(v)' => Open(v)
               /\ row'[v] = "deleted" => row[v] = "deleted"
               /\ pc = "delete" /\ v \in Due' => v \in Due
    BY <1>0, <1>5, <2>3 DEF InsertCommit, Open, Due, Aged, NoLateRow, TypeOK
  <2> QED
    BY <2>1, <2>2, <2>3 DEF Increment, UpsertMulti, Tick, tables
<1>7. BudgetInv'
  BY <1>0, <1>1, <1>6, BudgetStays DEF BudgetInv
<1>8. CountedInv'
  BY <1>0, <1>1, <1>2, <1>5, <1>6, CountedStays
<1>9. HourlyInv'
  <2>1. CASE UNCHANGED <<hourly, multi>>
    BY <1>0, <1>1, <2>1, HourlyStays
  <2>2. ASSUME NEW m \in Multis, UpsertMulti(m) PROVE HourlyInv'
    BY <1>0, <1>1, <2>2, UpsertHourly
  <2> QED
    BY <2>1, <2>2 DEF Increment, InsertStart, InsertCommit, Tick, tables
<1> QED
  BY <1>4, <1>7, <1>8, <1>9 DEF CountInv

\* A cycle that ends with rows not deleted is spoiled.
LEMMA SpoiledWhenLeft ==
  ASSUME AnalyticsTypes, Clean
  PROVE  /\ spoiled' \in {spoiled, spoiled + 1}
         /\ pc \in {"aggregate", "delete"} /\ pc' \in {"sleep", "ended"} /\ Due' # {}
              => spoiled' = spoiled + 1
BY DEF Clean

LEMMA CycleAggregates ==
  ASSUME CountInv, Clean, Aggregate
  PROVE  CountInv'
<1>0. AnalyticsTypes /\ CountedInv /\ HourlyInv /\ BudgetInv /\ TypeOK
  BY DEF CountInv, AnalyticsTypes
<1>1. /\ pc = "aggregate" /\ pc' \in {"delete", "sleep", "ended"} /\ orphans' = orphans
      /\ UNCHANGED <<row, stamp, multi, cutoff>>
  BY DEF Aggregate, EndCycle, Clean
<1>2. IF hourly' # hourly THEN Count(Due) ELSE UNCHANGED counted
  BY DEF Clean
<1>3. Due' = Due
  BY <1>1 DEF Due, Aged
<1>4. \/ AddDue
      \/ hourly' = hourly /\ counted' = counted /\ pc' \in {"sleep", "ended"}
  BY <1>2 DEF Aggregate, EndCycle
<1>5. Next
  BY DEF Next, Cleaner
<1>6. CASE AddDue
  <2>1. Aggregates(Due)
    BY <1>0, <1>2, <1>6, AddDueCounts
  <2>2. /\ counted' \in [Views -> Nat]
        /\ \A v \in Views : /\ counted[v] \in Nat /\ counted'[v] \in Nat
                            /\ v \in Due => counted'[v] = counted[v] + 1
                            /\ v \notin Due => counted'[v] = counted[v]
    BY <1>0, <2>1, CountIsOne DEF Aggregates
  <2>3. AnalyticsTypes'
    BY <1>0, <1>1, <1>5, <2>2, SpoiledWhenLeft, TypesKept
  <2>4. ASSUME NEW v \in Views PROVE Budget(v)'
    <3>1. CASE v \in Due
      <4>1. Open(v)
        BY <1>1, <3>1 DEF Open, Due
      <4>2. Open(v)' => spoiled' = spoiled + 1
        <5>1. Open(v)' => pc' # "delete"
          BY <1>3, <3>1 DEF Open, Due
        <5> QED
          BY <1>0, <1>1, <1>3, <3>1, <5>1, SpoiledWhenLeft
      <4> QED
        BY <1>0, <1>1, <2>2, <3>1, <4>1, <4>2, SpoiledWhenLeft, BudgetSpent DEF BudgetInv
    <3>2. CASE v \notin Due
      <4>1. Open(v)' => Open(v)
        BY <1>1 DEF Open
      <4> QED
        BY <1>0, <1>1, <2>2, <3>2, <4>1, SpoiledWhenLeft, BudgetStays DEF BudgetInv
    <3> QED
      BY <3>1, <3>2
  <2>5. CountedInv'
    <3>1. \A v \in Views : counted'[v] \in Nat /\ counted'[v] >= counted[v]
      BY <2>2
    <3>2. \A v \in Due : counted'[v] >= 1
      BY <2>2 DEF Due
    <3> QED
      BY <1>0, <1>1, <1>3, <3>1, <3>2, CountedStays
  <2>6. HourlyInv'
    BY <1>0, <1>1, <2>1, AggregatesHourly
  <2> QED
    BY <2>3, <2>4, <2>5, <2>6 DEF CountInv, BudgetInv
<1>7. CASE hourly' = hourly /\ counted' = counted /\ pc' \in {"sleep", "ended"}
  <2>1. counted \in [Views -> Nat]
    BY <1>0 DEF AnalyticsTypes
  <2>2. AnalyticsTypes'
    BY <1>0, <1>1, <1>5, <1>7, <2>1, SpoiledWhenLeft, TypesKept
  <2>3. ASSUME NEW v \in Views PROVE Budget(v)'
    <3>1. Open(v)' => Open(v)
      BY <1>1 DEF Open
    <3> QED
      BY <1>0, <1>1, <1>7, <3>1, SpoiledWhenLeft, BudgetStays DEF BudgetInv
  <2>4. CountedInv'
    BY <1>0, <1>1, <1>7, <2>1, CountedStays
  <2>5. HourlyInv'
    BY <1>0, <1>1, <1>7, HourlyStays
  <2> QED
    BY <2>2, <2>3, <2>4, <2>5 DEF CountInv, BudgetInv
<1> QED
  BY <1>4, <1>6, <1>7

LEMMA CycleDeletes ==
  ASSUME CountInv, Clean, DeleteBatch
  PROVE  CountInv'
<1>0. AnalyticsTypes /\ CountedInv /\ HourlyInv /\ BudgetInv /\ TypeOK
  BY DEF CountInv, AnalyticsTypes
<1>1. /\ pc = "delete" /\ orphans' = orphans /\ UNCHANGED <<stamp, multi, hourly, cutoff>>
      /\ pc' \in {"delete", "sleep", "ended"}
  BY DEF DeleteBatch, EndCycle, Clean
<1>2. counted' = counted /\ counted \in [Views -> Nat]
  BY <1>0, <1>1 DEF Clean, AnalyticsTypes
<1>3. \A v \in Views : row'[v] = row[v] \/ (v \in Due /\ row'[v] = "deleted")
  BY DEF DeleteBatch, DeleteRows, Batches
<1>4. Next
  BY DEF Next, Cleaner
<1>5. AnalyticsTypes'
  BY <1>0, <1>1, <1>2, <1>4, SpoiledWhenLeft, TypesKept
<1>6. ASSUME NEW v \in Views PROVE Budget(v)'
  <2>1. Open(v)' => Open(v) \/ spoiled' = spoiled + 1
    <3>1. ASSUME Open(v)', ~Open(v) PROVE v \in Due' /\ pc' \in {"sleep", "ended"}
      <4>1. row'[v] = row[v]
        BY <1>3, <3>1 DEF Open
      <4>2. row[v] = "visible" /\ Aged(v) /\ Aged(v)'
        BY <1>1, <3>1, <4>1 DEF Open, Aged
      <4>3. pc' # "delete"
        BY <3>1, <4>1, <4>2 DEF Open
      <4> QED
        BY <1>1, <4>1, <4>2, <4>3 DEF Due
    <3> QED
      BY <1>0, <1>1, <3>1, SpoiledWhenLeft
  <2> QED
    BY <1>0, <1>1, <1>2, <2>1, SpoiledWhenLeft, BudgetStays DEF BudgetInv
<1>7. CountedInv'
  <2>1. \A v \in Views : v \in Due' => v \in Due
    BY <1>1, <1>3 DEF Due, Aged
  <2> QED
    BY <1>0, <1>1, <1>2, <1>3, <2>1, CountedStays
<1>8. HourlyInv'
  BY <1>0, <1>1, <1>2, HourlyStays
<1> QED
  BY <1>5, <1>6, <1>7, <1>8 DEF CountInv, BudgetInv

\* The loop goes on, or a signal arrives.
LEMMA CycleTurns ==
  ASSUME CountInv, Clean, Start \/ Wake \/ Sigterm
  PROVE  CountInv'
<1>0. AnalyticsTypes /\ CountedInv /\ HourlyInv /\ BudgetInv /\ TypeOK
  BY DEF CountInv, AnalyticsTypes
<1>1. /\ orphans' = orphans /\ UNCHANGED <<row, stamp, multi, hourly>>
      /\ \/ pc # "delete" /\ pc' # "delete"
         \/ pc' = pc /\ cutoff' = cutoff
  BY DEF Clean, Start, Wake, Sigterm, BeginCycle, tables
<1>2. counted' = counted /\ counted \in [Views -> Nat]
  BY <1>0, <1>1 DEF Clean, AnalyticsTypes
<1>3. Next
  BY DEF Next, Cleaner
<1>4. AnalyticsTypes'
  BY <1>0, <1>1, <1>2, <1>3, SpoiledWhenLeft, TypesKept
<1>5. ASSUME NEW v \in Views PROVE Budget(v)'
  <2>1. Open(v)' => Open(v)
    BY <1>1 DEF Open, Aged
  <2> QED
    BY <1>0, <1>1, <1>2, <2>1, SpoiledWhenLeft, BudgetStays DEF BudgetInv
<1>6. CountedInv'
  <2>1. \A v \in Views : pc' = "delete" /\ v \in Due' => pc = "delete" /\ v \in Due
    BY <1>1 DEF Due, Aged
  <2> QED
    BY <1>0, <1>1, <1>2, <2>1, CountedStays
<1>7. HourlyInv'
  BY <1>0, <1>1, <1>2, HourlyStays
<1> QED
  BY <1>4, <1>5, <1>6, <1>7 DEF CountInv, BudgetInv

-----------------------------------------------------------------------------
(* Killed cleaners *)

LEMMA KillCounts ==
  ASSUME CountInv, KillCleaner
  PROVE  CountInv'
<1>0. AnalyticsTypes /\ CountedInv /\ HourlyInv /\ BudgetInv /\ TypeOK
  BY DEF CountInv, AnalyticsTypes
<1>1. /\ pc' = "ended" /\ UNCHANGED <<row, stamp, multi, hourly, cutoff>>
      /\ counted' = counted /\ [Next]_vars
  BY DEF KillCleaner, Crash, tables, vars, Next
<1>2. spoiled' = IF pc \in {"aggregate", "delete"} THEN spoiled + 1 ELSE spoiled
  BY DEF KillCleaner
<1>3. counted \in [Views -> Nat] /\ spoiled \in Nat
  BY <1>0 DEF AnalyticsTypes
<1>4. HourlyInv'
  BY <1>0, <1>1, HourlyStays
<1>5. CASE orphans' = orphans
  <2>1. AnalyticsTypes'
    BY <1>0, <1>1, <1>2, <1>3, <1>5, TypesKept
  <2>2. ASSUME NEW v \in Views PROVE Budget(v)'
    <3>1. Open(v)' => Open(v) \/ spoiled' = spoiled + 1
      BY <1>1, <1>2 DEF Open
    <3> QED
      BY <1>0, <1>1, <1>2, <1>5, <3>1, BudgetStays DEF BudgetInv
  <2>3. CountedInv'
    BY <1>0, <1>1, <1>3, <1>5, CountedStays
  <2> QED
    BY <1>4, <2>1, <2>2, <2>3 DEF CountInv, BudgetInv
<1>6. ASSUME NEW o \in Statements, orphans' = orphans \cup {o} PROVE CountInv'
  <2>1. /\ o.kind = pc /\ o.nr = spoiled /\ o.rows \subseteq Due /\ o.rows \subseteq Views
        /\ pc \in {"aggregate", "delete"} /\ o \in OrphanRecord
    <3>1. CASE pc = "aggregate"
      <4>1. o = [kind |-> "aggregate", rows |-> Due, nr |-> spoiled]
        BY <1>6, <3>1 DEF Statements
      <4> QED
        BY <1>3, <3>1, <4>1 DEF Due, OrphanRecord
    <3>2. CASE pc = "delete"
      <4>1. PICK S \in Batches : o = [kind |-> "delete", rows |-> S, nr |-> spoiled]
        BY <1>6, <3>2 DEF Statements
      <4>2. S \subseteq Due
        BY DEF Batches
      <4> QED
        BY <1>3, <3>2, <4>1, <4>2 DEF Due, OrphanRecord
    <3>3. CASE pc \notin {"aggregate", "delete"}
      BY <1>6, <3>3 DEF Statements
    <3> QED
      BY <3>1, <3>2, <3>3
  <2>2. spoiled' = spoiled + 1
    BY <1>2, <2>1
  <2>3. o \notin orphans
    BY <1>0, <1>3, <2>1 DEF AnalyticsTypes
  <2>4. AnalyticsTypes'
    <3>1. TypeOK' /\ TimeInv'
      BY <1>0, <1>1, TypeStep, TimeStep DEF AnalyticsTypes
    <3>2. IsFiniteSet(orphans') /\ orphans' \subseteq OrphanRecord
      BY <1>0, <1>6, <2>1, FS_AddElement DEF AnalyticsTypes
    <3>3. \A p \in orphans : p.nr \in Nat /\ p.nr < spoiled
      BY <1>0 DEF AnalyticsTypes, OrphanRecord
    <3>4. \A p \in orphans' : p.nr < spoiled'
      BY <1>3, <1>6, <2>1, <2>2, <3>3
    <3> QED
      BY <1>1, <1>3, <2>2, <3>1, <3>2, <3>4 DEF AnalyticsTypes
  <2>5. ASSUME NEW v \in Views PROVE Budget(v)'
    <3> DEFINE n == Cardinality(Claims(v))
               m == Cardinality(Claims(v)')
    <3>1. n \in Nat /\ IsFiniteSet(Claims(v)) /\ counted[v] \in Nat
      BY <1>0, <1>3, ClaimsFinite
    <3>2. counted[v] + n + (IF Open(v) THEN 1 ELSE 0) <= 1 + spoiled
      BY <1>0 DEF BudgetInv, Budget
    <3>3. counted'[v] + m + (IF Open(v)' THEN 1 ELSE 0) <= 1 + spoiled'
      <4>1. CASE pc = "aggregate"
        <5>1. Open(v)' => Open(v)
          BY <1>1, <4>1 DEF Open
        <5>2. Claims(v)' = Claims(v) \/ Claims(v)' = Claims(v) \cup {o}
          BY <1>6 DEF Claims
        <5>3. o \notin Claims(v)
          BY <2>3 DEF Claims
        <5>4. m = n \/ m = n + 1
          BY <3>1, <5>2, <5>3, FS_AddElement
        <5> HIDE DEF n, m
        <5> QED
          BY <1>1, <1>3, <2>2, <3>1, <3>2, <5>1, <5>4
      <4>2. CASE pc = "delete"
        <5>1. Claims(v)' = Claims(v)
          BY <1>6, <2>1, <4>2 DEF Claims
        <5>2. m = n
          BY <5>1
        <5> HIDE DEF n, m
        <5> QED
          BY <1>1, <1>3, <2>2, <3>1, <3>2, <5>2
      <4> QED
        BY <2>1, <4>1, <4>2
    <3> QED
      BY <3>3 DEF Budget
  <2>6. CountedInv'
    <3>1. pc = "delete" => \A v \in Due : counted[v] >= 1
      BY <1>0 DEF CountedInv, Due
    <3>2. \A p \in orphans' : p.kind = "delete" => \A v \in p.rows : counted'[v] >= 1
      BY <1>0, <1>1, <1>6, <2>1, <3>1 DEF CountedInv
    <3>3. \A v \in Views : row'[v] = "deleted" => counted'[v] >= 1
      BY <1>0, <1>1 DEF CountedInv
    <3> QED
      BY <1>1, <3>2, <3>3 DEF CountedInv
  <2> QED
    BY <1>4, <2>4, <2>5, <2>6 DEF CountInv, BudgetInv
<1> QED
  BY <1>5, <1>6 DEF KillCleaner

LEMMA OrphanAdds ==
  ASSUME TypeOK, NEW o \in orphans, o.rows \subseteq Views, FinishOrphan(o)
  PROVE  TypeOK' /\ \A v \in Views : row'[v] = "running" => row[v] = "running"
<1>1. /\ row' \in [Views -> {"none", "running", "visible", "deleted", "failed"}]
      /\ \A v \in Views : row'[v] = "running" => row[v] = "running"
  BY DEF FinishOrphan, DeleteRows, TypeOK
<1>2. hourly' \in [Buckets -> Nat]
  <2>1. CASE hourly' = hourly
    BY <2>1 DEF TypeOK
  <2>2. ASSUME NEW S \in SUBSET Views,
               hourly' = [b \in Buckets |-> hourly[b] + Cardinality({v \in S : BucketOf[v] = b})]
        PROVE  hourly' \in [Buckets -> Nat]
    <3>1. \A b \in Buckets : Cardinality({v \in S : BucketOf[v] = b}) \in Nat /\ hourly[b] \in Nat
      BY CountsAreNat DEF TypeOK
    <3> QED
      BY <2>2, <3>1
  <2> QED
    BY <2>1, <2>2 DEF FinishOrphan
<1> QED
  BY <1>1, <1>2 DEF FinishOrphan, TypeOK

LEMMA OrphanTypes ==
  ASSUME AnalyticsTypes, NEW o \in orphans, FinishOrphan(o)
  PROVE  AnalyticsTypes'
<1>1. UNCHANGED <<now, stamp, pc, cutoff, spoiled>> /\ orphans' = orphans \ {o}
  BY DEF FinishOrphan
<1>2. TypeOK' /\ \A v \in Views : row'[v] = "running" => row[v] = "running"
  BY OrphanAdds DEF AnalyticsTypes, OrphanRecord
<1>3. counted' \in [Views -> Nat]
  BY CountIsOne DEF FinishOrphan, AnalyticsTypes
<1>4. TimeInv'
  BY <1>1, <1>2 DEF AnalyticsTypes, TimeInv
<1>5. IsFiniteSet(orphans')
  BY <1>1, FS_Subset DEF AnalyticsTypes
<1> QED
  BY <1>1, <1>2, <1>3, <1>4, <1>5 DEF AnalyticsTypes, OrphanRecord

LEMMA OrphanCounts ==
  ASSUME CountInv, NEW o \in orphans, FinishOrphan(o)
  PROVE  CountInv'
<1>0. AnalyticsTypes /\ CountedInv /\ HourlyInv /\ BudgetInv /\ TypeOK
  BY DEF CountInv, AnalyticsTypes
<1>1. UNCHANGED <<stamp, multi, pc, cutoff, spoiled>> /\ orphans' = orphans \ {o}
  BY DEF FinishOrphan
<1>2. o.rows \subseteq Views /\ o.kind \in {"aggregate", "delete"}
  BY <1>0 DEF AnalyticsTypes, OrphanRecord
<1>3. AnalyticsTypes'
  BY <1>0, OrphanTypes
<1>4. counted \in [Views -> Nat] /\ spoiled \in Nat
  BY <1>0 DEF AnalyticsTypes
<1>5. CASE o.kind = "delete"
  <2>1. counted' = counted /\ hourly' = hourly
    BY <1>5 DEF FinishOrphan
  <2>2. \A v \in Views : row'[v] = row[v] \/ (v \in o.rows /\ row'[v] = "deleted")
    BY <1>5 DEF FinishOrphan, DeleteRows
  <2>3. ASSUME NEW v \in Views PROVE Budget(v)'
    <3> DEFINE n == Cardinality(Claims(v))
    <3>1. Claims(v)' = Claims(v)
      BY <1>1, <1>5 DEF Claims
    <3>2. n \in Nat /\ counted[v] \in Nat /\ Cardinality(Claims(v)') = n
      BY <1>0, <1>4, <3>1, ClaimsFinite
    <3>3. Open(v)' => Open(v)
      BY <1>1, <2>2 DEF Open, Aged
    <3>4. counted[v] + n + (IF Open(v) THEN 1 ELSE 0) <= 1 + spoiled
      BY <1>0 DEF BudgetInv, Budget
    <3>5. counted'[v] + n + (IF Open(v)' THEN 1 ELSE 0) <= 1 + spoiled'
      <4> HIDE DEF n
      <4> QED
        BY <1>1, <1>4, <2>1, <3>2, <3>3, <3>4
    <3> QED
      BY <3>2, <3>5 DEF Budget
  <2>4. CountedInv'
    <3>1. \A v \in o.rows : counted[v] >= 1
      BY <1>0, <1>5 DEF CountedInv
    <3>2. \A v \in Views : pc' = "delete" /\ v \in Due' => pc = "delete" /\ v \in Due
      BY <1>1, <2>2 DEF Due, Aged
    <3> QED
      BY <1>0, <1>1, <1>4, <2>1, <2>2, <3>1, <3>2, CountedStays
  <2>5. HourlyInv'
    BY <1>0, <1>1, <2>1, HourlyStays
  <2> QED
    BY <1>3, <2>3, <2>4, <2>5 DEF CountInv, BudgetInv
<1>6. CASE o.kind = "aggregate"
  <2>1. PICK S \in SUBSET o.rows :
          /\ hourly' = [b \in Buckets |-> hourly[b] + Cardinality({v \in S : BucketOf[v] = b})]
          /\ Count(S) /\ row' = row
    BY <1>6 DEF FinishOrphan
  <2>2. Aggregates(S)
    BY <1>2, <2>1 DEF Aggregates
  <2>3. \A v \in Views : /\ counted[v] \in Nat /\ counted'[v] \in Nat
                         /\ v \in S => counted'[v] = counted[v] + 1
                         /\ v \notin S => counted'[v] = counted[v]
    BY <1>0, <2>1, CountIsOne
  <2>4. ASSUME NEW v \in Views PROVE Budget(v)'
    <3> DEFINE n == Cardinality(Claims(v))
               m == Cardinality(Claims(v)')
    <3>1. Claims(v)' = Claims(v) \ {o}
      BY <1>1 DEF Claims
    <3>2. n \in Nat /\ m \in Nat /\ IsFiniteSet(Claims(v))
      BY <1>0, <1>3, <3>1, ClaimsFinite, FS_RemoveElement, FS_CardinalityType
    <3>3. m = IF o \in Claims(v) THEN n - 1 ELSE n
      BY <3>1, <3>2, FS_RemoveElement
    <3>4. v \in S => o \in Claims(v)
      BY <1>6, <2>1 DEF Claims
    <3>5. Open(v)' = Open(v)
      BY <1>1, <2>1 DEF Open, Aged
    <3>6. counted[v] + n + (IF Open(v) THEN 1 ELSE 0) <= 1 + spoiled
      BY <1>0 DEF BudgetInv, Budget
    <3>7. counted'[v] + m + (IF Open(v)' THEN 1 ELSE 0) <= 1 + spoiled'
      <4> HIDE DEF n, m
      <4>1. counted'[v] + m <= counted[v] + n
        BY <2>3, <3>2, <3>3, <3>4
      <4> QED
        BY <1>1, <1>4, <2>3, <3>2, <3>5, <3>6, <4>1
    <3> QED
      BY <3>7 DEF Budget
  <2>5. CountedInv'
    <3>1. Due' = Due
      BY <1>1, <2>1 DEF Due, Aged
    <3>2. \A v \in Views : counted'[v] \in Nat /\ counted'[v] >= counted[v]
      BY <2>3
    <3> QED
      BY <1>0, <1>1, <2>1, <3>1, <3>2, CountedStays
  <2>6. HourlyInv'
    BY <1>0, <1>1, <2>2, AggregatesHourly
  <2> QED
    BY <1>3, <2>4, <2>5, <2>6 DEF CountInv, BudgetInv
<1> QED
  BY <1>2, <1>5, <1>6

-----------------------------------------------------------------------------
LEMMA CountStart == AnalyticsInit => CountInv
<1> SUFFICES ASSUME AnalyticsInit PROVE CountInv
  OBVIOUS
<1>1. /\ TypeOK /\ TimeInv /\ pc = "ended"
      /\ counted = [v \in Views |-> 0] /\ spoiled = 0 /\ orphans = {}
      /\ row = [v \in Views |-> "none"] /\ multi = [m \in Multis |-> "none"]
      /\ hourly = [b \in Buckets |-> 0]
  BY TypeStart DEF AnalyticsInit, Init, TimeInv
<1>2. AnalyticsTypes
  BY <1>1, FS_EmptySet DEF AnalyticsTypes
<1>3. ASSUME NEW v \in Views PROVE Budget(v)
  <2>1. Claims(v) = {} /\ Cardinality({}) = 0
    BY <1>1, FS_EmptySet DEF Claims
  <2> QED
    BY <1>1, <2>1 DEF Budget
<1>4. CountedInv
  BY <1>1 DEF CountedInv
<1>5. AppliedMultis = {}
  BY <1>1 DEF AppliedMultis
<1>6. ASSUME NEW b \in Buckets PROVE Sum(counted, ViewsOf(b)) = 0
  <2>1. UNION {{v} \X (1 .. counted[v]) : v \in ViewsOf(b)} = {}
    BY <1>1 DEF ViewsOf
  <2> QED
    BY <2>1, FS_EmptySet DEF Sum
<1>7. \A b \in Buckets : Sum(Deltas(b), AppliedMultis) = 0
  BY <1>5, EmptySum
<1>8. HourlyInv
  BY <1>1, <1>5, <1>6, <1>7, FS_EmptySet DEF HourlyInv
<1> QED
  BY <1>2, <1>3, <1>4, <1>8 DEF CountInv, BudgetInv

\* Every number in page_view_hourly is explained, for any requests, faults and
\* kills, when the grace period covers latency and skew: each recorded view is
\* counted at most once more than there were cycles that failed or were
\* killed, and no row is deleted that was not counted.
THEOREM NumbersExplained == ASSUME GraceSuffices PROVE AnalyticsSpec => []CountsExplained
<1>1. CountInv /\ [AnalyticsNext]_allVars => CountInv'
  <2> SUFFICES ASSUME CountInv, [AnalyticsNext]_allVars PROVE CountInv'
    OBVIOUS
  <2>1. CASE Migrate \/ UNCHANGED allVars
    BY <2>1, StutterCounts DEF Migrate, allVars, history
  <2>2. CASE Increment
    BY <2>2, GraceSuffices, IncrementCounts
  <2>3. CASE Clean
    BY <2>3, CycleAggregates, CycleDeletes, CycleTurns DEF Clean, Cleaner
  <2>4. CASE KillCleaner
    BY <2>4, KillCounts
  <2>5. ASSUME NEW o \in orphans, FinishOrphan(o) PROVE CountInv'
    BY <2>5, OrphanCounts
  <2> QED
    BY <2>1, <2>2, <2>3, <2>4, <2>5 DEF AnalyticsNext
<1>2. CountInv => CountsExplained
  <2> SUFFICES ASSUME CountInv PROVE CountsExplained
    OBVIOUS
  <2>1. ASSUME NEW v \in Views PROVE counted[v] <= 1 + spoiled
    <3> DEFINE n == Cardinality(Claims(v))
    <3>1. n \in Nat /\ counted[v] \in Nat /\ spoiled \in Nat
      BY ClaimsFinite DEF CountInv, AnalyticsTypes
    <3>2. counted[v] + n + (IF Open(v) THEN 1 ELSE 0) <= 1 + spoiled
      BY DEF CountInv, BudgetInv, Budget
    <3> HIDE DEF n
    <3> QED
      BY <3>1, <3>2
  <2>2. \A v \in Views : row[v] = "deleted" => counted[v] >= 1
    BY DEF CountInv, CountedInv
  <2>3. \A b \in Buckets :
          hourly[b] = Sum(counted, {v \in Views : BucketOf[v] = b})
                      + Sum([m \in Multis |-> MultiDelta(m, b)], {m \in Multis : multi[m] = "applied"})
    BY DEF CountInv, HourlyInv, ViewsOf, Deltas, AppliedMultis
  <2> QED
    BY <2>1, <2>2, <2>3 DEF CountsExplained
<1> QED
  BY <1>1, <1>2, CountStart, PTL DEF AnalyticsSpec
-----------------------------------------------------------------------------
(* Reports *)

LEMMA Multiples ==
  ASSUME NEW a \in Int, NEW b \in Int, NEW u \in Nat, a <= b
  PROVE  a * u \in Int /\ b * u \in Int /\ a * u <= b * u
<1>1. PICK d \in Nat : b = a + d
  OBVIOUS
<1>2. d * u \in Nat /\ (a + d) * u = a * u + d * u
  OBVIOUS
<1> QED
  BY <1>1, <1>2

LEMMA Remainder ==
  ASSUME NEW x \in Int, NEW y \in Int, y > 0,
         NEW q \in Int, q = x \div y, NEW r \in Int, r = x % y
  PROVE  x = y * q + r
BY Z3T(30)

LEMMA Division ==
  ASSUME NEW x \in Int, NEW y \in Nat \ {0}
  PROVE  \E q \in Int : \E r \in 0 .. y - 1 : q = x \div y /\ r = x % y /\ x = y * q + r
<1>1. \A m \in Int, n \in Nat \ {0} : m \div n \in Int /\ m % n \in 0 .. n - 1
  OBVIOUS
<1>2. PICK q \in Int : q = x \div y
  BY <1>1, Zenon
<1>3. PICK r \in 0 .. y - 1 : r = x % y
  BY <1>1, Zenon
<1>4. x = y * q + r
  BY <1>2, <1>3, Remainder
<1> QED
  BY <1>2, <1>3, <1>4, Zenon

\* Hours less than a day apart have different hours of the day.
LEMMA HoursDiffer ==
  ASSUME NEW a \in Int, NEW b \in Int, a < b, b - a < HoursPerDay
  PROVE  a % HoursPerDay # b % HoursPerDay
<1>1. PICK d \in Nat \ {0} : d = HoursPerDay
  BY ReportAssumption
<1>2. PICK x \in Int, r \in 0 .. d - 1 : r = a % d /\ a = d * x + r
  BY Division, ZenonT(30)
<1>3. PICK y \in Int, s \in 0 .. d - 1 : s = b % d /\ b = d * y + s
  BY Division, ZenonT(30)
<1> SUFFICES ASSUME r = s PROVE FALSE
  BY <1>1, <1>2, <1>3, Zenon
<1>4. d * x \in Int /\ d * y \in Int /\ b - a = d * y - d * x
  <2>1. PICK m \in Int, n \in Int : m = d * x /\ n = d * y
    OBVIOUS
  <2>2. a = m + r /\ b = n + s
    BY <1>2, <1>3, <2>1, Zenon
  <2>3. b - a = n - m
    BY <2>2
  <2> QED
    BY <2>1, <2>3, Zenon
<1>5. CASE y <= x
  <2>1. y * d <= x * d
    BY <1>1, <1>5, Multiples
  <2> QED
    BY <1>1, <1>2, <1>3, <1>4, <2>1
<1>6. CASE y >= x + 1
  <2>1. (x + 1) * d <= y * d
    BY <1>1, <1>6, Multiples
  <2>2. (x + 1) * d = d * x + d /\ y * d = d * y
    BY <1>1
  <2> QED
    BY <1>1, <1>4, <2>1, <2>2
<1> QED
  BY <1>5, <1>6

\* The recent hours are those of the window.
LEMMA RecentHours ==
  ASSUME NEW time \in Nat
  PROVE  /\ floorToHour(time) \in Nat
         /\ \A hour \in Int : Recent(time, hour) <=>
              floorToHour(time) - HoursInWindow < hour /\ hour <= floorToHour(time)
<1>1. PICK u \in Nat \ {0} : u = UnitsPerHour
  BY ReportAssumption
<1>2. PICK w \in Nat \ {0} : w = HoursInWindow
  BY ReportAssumption
<1>3. PICK q \in Nat : q = time \div u
  BY <1>1
<1>4. PICK r \in Nat : r < u /\ time = q * u + r
  <2>1. PICK p \in Int, r \in 0 .. u - 1 : p = time \div u /\ time = u * p + r
    BY <1>1, Division
  <2>2. p = q
    BY <1>3, <2>1, Zenon
  <2> QED
    BY <1>1, <2>1, <2>2
<1>5. ASSUME NEW hour \in Int
      PROVE  (hour * u <= time /\ time - hour * u < w * u) <=> (q - w < hour /\ hour <= q)
  <2>0. hour * u \in Int /\ q * u \in Int /\ w * u \in Int
    BY <1>1, <1>2, <1>3
  <2>1. CASE hour > q
    <3>1. (q + 1) * u <= hour * u
      BY <1>1, <1>3, <2>1, Multiples
    <3>2. (q + 1) * u = q * u + u
      BY <1>1, <1>3
    <3> QED
      BY <1>1, <1>3, <1>4, <2>0, <2>1, <3>1, <3>2
  <2>2. CASE hour <= q - w
    <3>1. hour * u <= (q - w) * u
      BY <1>1, <1>2, <1>3, <2>2, Multiples
    <3>2. (q - w) * u = q * u - w * u
      BY <1>1, <1>2, <1>3
    <3> QED
      BY <1>1, <1>2, <1>3, <1>4, <2>0, <2>2, <3>1, <3>2
  <2>3. CASE q - w < hour /\ hour <= q
    <3>1. hour * u <= q * u
      BY <1>1, <1>3, <2>3, Multiples
    <3>2. (q - w + 1) * u <= hour * u
      BY <1>1, <1>2, <1>3, <2>3, Multiples
    <3>3. (q - w + 1) * u = q * u - w * u + u
      BY <1>1, <1>2, <1>3
    <3> QED
      BY <1>1, <1>2, <1>3, <1>4, <2>0, <2>3, <3>1, <3>2, <3>3
  <2> QED
    BY <1>2, <1>3, <2>1, <2>2, <2>3
<1> QED
  BY <1>1, <1>2, <1>3, <1>5 DEF Recent, floorToHour

Entry(page, hour) == [h |-> hour % HoursPerDay, v |-> viewsIn(hourly, page, hour)]
Limit(k) == IF clampTake(k) < HoursInWindow THEN clampTake(k) ELSE HoursInWindow

LEMMA LimitType ==
  ASSUME NEW k \in Int
  PROVE  Limit(k) \in Nat /\ 1 <= Limit(k) /\ Limit(k) <= HoursInWindow
BY ReportAssumption DEF Limit, clampTake

LEMMA WindowIsSeq ==
  ASSUME NEW time \in Nat
  PROVE  /\ window(time) \in Seq(Int) /\ Len(window(time)) = HoursInWindow
         /\ \A i \in 1 .. HoursInWindow :
              window(time)[i] = floorToHour(time) - HoursInWindow + i
<1>1. PICK w \in Nat : w = HoursInWindow
  BY ReportAssumption
<1>2. PICK q \in Int : q = floorToHour(time)
  BY RecentHours
<1>3. window(time) = [i \in 1 .. w |-> q - w + i]
  BY <1>1, <1>2 DEF window
<1>4. \A i \in 1 .. w : q - w + i \in Int
  BY <1>1, <1>2
<1> QED
  BY <1>1, <1>2, <1>3, <1>4

LEMMA Ascending ==
  ASSUME NEW page, NEW time \in Nat, NEW k \in Int
  PROVE  getReport(hourly, page, time, "asc", k) =
           [i \in 1 .. Limit(k) |-> Entry(page, floorToHour(time) - HoursInWindow + i)]
<1>1. PICK n \in Nat : n = Limit(k)
  BY LimitType
<1>2. \A i \in 1 .. n : i \in 1 .. HoursInWindow
  BY <1>1, LimitType, ReportAssumption
<1>3. getReport(hourly, page, time, "asc", k) =
        [i \in 1 .. n |-> [h |-> window(time)[i] % HoursPerDay, v |-> viewsIn(hourly, page, window(time)[i])]]
  BY <1>1, WindowIsSeq DEF getReport, Limit
<1>4. \A i \in 1 .. n : window(time)[i] = floorToHour(time) - HoursInWindow + i
  BY <1>2, WindowIsSeq
<1> QED
  BY <1>1, <1>3, <1>4, Zenon DEF Entry

LEMMA Descending ==
  ASSUME NEW page, NEW time \in Nat, NEW k \in Int
  PROVE  getReport(hourly, page, time, "desc", k) =
           [i \in 1 .. Limit(k) |-> Entry(page, floorToHour(time) - i + 1)]
<1>1. PICK n \in Nat : n = Limit(k)
  BY LimitType
<1>2. PICK w \in Nat : w = HoursInWindow
  BY ReportAssumption
<1>3. PICK q \in Int : q = floorToHour(time)
  BY RecentHours
<1> DEFINE hours == Reverse(window(time))
<1>4. hours = [i \in 1 .. w |-> window(time)[w - i + 1]]
  BY <1>2, WindowIsSeq DEF Reverse
<1>5. ASSUME NEW i \in 1 .. w PROVE hours[i] = q - i + 1
  <2>1. PICK j \in 1 .. w : j = w - i + 1
    BY <1>2
  <2>2. window(time)[j] = q - w + j
    BY <1>2, <1>3, <2>1, WindowIsSeq
  <2>3. hours[i] = window(time)[j]
    BY <1>4, <2>1
  <2> QED
    BY <1>2, <1>3, <2>1, <2>2, <2>3
<1>6. Len(hours) = w
  BY <1>2, <1>4
<1>7. getReport(hourly, page, time, "desc", k) =
        [i \in 1 .. n |-> [h |-> hours[i] % HoursPerDay, v |-> viewsIn(hourly, page, hours[i])]]
  BY <1>1, <1>2, <1>6 DEF getReport, Limit
<1>8. \A i \in 1 .. n : i \in 1 .. w
  BY <1>1, <1>2, LimitType
<1>9. \A i \in 1 .. n : hours[i] = q - i + 1
  BY <1>5, <1>8
<1> HIDE DEF hours
<1> QED
  BY <1>1, <1>3, <1>7, <1>9, Zenon DEF Entry

LEMMA PrefixOf ==
  ASSUME NEW m \in Nat, NEW n \in Nat, m <= n, NEW R, NEW s, NEW t,
         s \in [1 .. m -> R], t \in [1 .. n -> R],
         \A i \in 1 .. m : s[i] = t[i]
  PROVE  IsPrefix(s, t)
<1>1. Len(s) = m /\ Len(t) = n
  BY LenProperties
<1>2. SubSeq(s, 1, m) = [i \in 1 .. m |-> s[i]]
  OBVIOUS
<1>3. SubSeq(t, 1, m) = [i \in 1 .. m |-> t[i]]
  OBVIOUS
<1> QED
  BY <1>1, <1>2, <1>3 DEF IsPrefix
\* What a report shows: a row for each hour of the window, the last being now's.
Rows(page, time) ==
  [i \in 1 .. HoursInWindow |-> Entry(page, floorToHour(time) - HoursInWindow + i)]

LEMMA AllRows ==
  ASSUME NEW page, NEW time \in Nat
  PROVE  getReport(hourly, page, time, "asc", MaxTake) = Rows(page, time)
<1>1. MaxTake \in Int /\ Limit(MaxTake) = HoursInWindow
  BY ReportAssumption, WindowAssumption DEF Limit, clampTake
<1> QED
  BY <1>1, Ascending DEF Rows

LEMMA RowValues ==
  ASSUME hourly \in [Buckets -> Nat], NEW page, NEW time \in Nat, NEW i \in 1 .. HoursInWindow,
         NEW hour, hour = floorToHour(time) - HoursInWindow + i
  PROVE  /\ hour \in Int /\ Recent(time, hour)
         /\ Rows(page, time)[i].h = hour % HoursPerDay
         /\ Rows(page, time)[i].v = IF <<page, hour>> \in Buckets THEN hourly[<<page, hour>>] ELSE 0
         /\ Rows(page, time)[i].v \in Nat
<1>1. PICK w \in Nat : w = HoursInWindow
  BY ReportAssumption
<1>2. PICK q \in Nat : q = floorToHour(time)
  BY RecentHours
<1>3. hour \in Int /\ q - w < hour /\ hour <= q
  BY <1>1, <1>2
<1>4. Recent(time, hour)
  BY <1>1, <1>2, <1>3, RecentHours
<1>5. Rows(page, time)[i] = Entry(page, hour)
  BY DEF Rows
<1>6. viewsIn(hourly, page, hour) = IF <<page, hour>> \in Buckets THEN hourly[<<page, hour>>] ELSE 0
  BY DEF viewsIn
<1>7. viewsIn(hourly, page, hour) \in Nat
  BY <1>6
<1> QED
  BY <1>3, <1>4, <1>5, <1>6, <1>7 DEF Entry

LEMMA HoursShown ==
  ASSUME hourly \in [Buckets -> Nat], NEW page, NEW time \in Nat,
         NEW hour \in 0 .. time, Recent(time, hour)
  PROVE  \E i \in DOMAIN Rows(page, time) :
           /\ Rows(page, time)[i].h = hour % HoursPerDay
           /\ Rows(page, time)[i].v = IF <<page, hour>> \in Buckets THEN hourly[<<page, hour>>] ELSE 0
           /\ \A j \in DOMAIN Rows(page, time) :
                Rows(page, time)[j].h = Rows(page, time)[i].h => j = i
<1>1. PICK w \in Nat : w = HoursInWindow
  BY ReportAssumption
<1>2. PICK q \in Nat : q = floorToHour(time)
  BY RecentHours
<1>3. q - w < hour /\ hour <= q /\ hour \in Int
  BY <1>1, <1>2, RecentHours
<1>4. PICK i \in 1 .. w : hour = q - w + i
  <2>1. hour - q + w \in 1 .. w /\ hour = q - w + (hour - q + w)
    BY <1>3
  <2> QED
    BY <2>1
<1>5. DOMAIN Rows(page, time) = 1 .. w
  BY <1>1 DEF Rows
<1>6. /\ Rows(page, time)[i].h = hour % HoursPerDay
      /\ Rows(page, time)[i].v = IF <<page, hour>> \in Buckets THEN hourly[<<page, hour>>] ELSE 0
  BY <1>1, <1>2, <1>4, RowValues
<1>7. ASSUME NEW j \in 1 .. w, j # i
      PROVE  Rows(page, time)[j].h # Rows(page, time)[i].h
  <2>1. PICK other \in Int : other = q - w + j
    OBVIOUS
  <2>2. Rows(page, time)[j].h = other % HoursPerDay
    <3>1. j \in 1 .. HoursInWindow /\ other = floorToHour(time) - HoursInWindow + j
      BY <1>1, <1>2, <2>1
    <3>2. /\ Rows(page, time)[j].h = other % HoursPerDay
          /\ Rows(page, time)[j].v = IF <<page, other>> \in Buckets THEN hourly[<<page, other>>] ELSE 0
      BY <3>1, RowValues
    <3> QED
      BY <3>2
  <2>3. other # hour /\ (other < hour => hour - other < w) /\ (hour < other => other - hour < w)
    BY <1>4, <1>7, <2>1
  <2>4. w <= HoursPerDay /\ HoursPerDay \in Nat
    BY <1>1, ReportAssumption, WindowAssumption
  <2>5. (other < hour /\ hour - other < HoursPerDay) \/ (hour < other /\ other - hour < HoursPerDay)
    BY <1>3, <2>1, <2>3, <2>4
  <2>6. other % HoursPerDay # hour % HoursPerDay
    BY <1>3, <2>5, HoursDiffer
  <2> QED
    BY <1>6, <2>2, <2>6, Zenon
<1> QED
  BY <1>5, <1>6, <1>7, Zenon

LEMMA ViewsShown ==
  ASSUME hourly \in [Buckets -> Nat], NEW page, NEW time \in Nat
  PROVE  Sum([i \in DOMAIN Rows(page, time) |-> Rows(page, time)[i].v], DOMAIN Rows(page, time))
           = Sum(hourly, {b \in Buckets : b[1] = page /\ Recent(time, b[2])})
<1>1. PICK w \in Nat : w = HoursInWindow
  BY ReportAssumption
<1>2. PICK q \in Nat : q = floorToHour(time)
  BY RecentHours
<1> DEFINE f == [i \in 1 .. w |-> Rows(page, time)[i].v]
           B == {b \in Buckets : b[1] = page /\ Recent(time, b[2])}
           bucket(i) == <<page, q - w + i>>
           g == [p \in Pairs(f, 1 .. w) |-> <<bucket(p[1]), p[2]>>]
<1>3. DOMAIN Rows(page, time) = 1 .. w
  BY <1>1 DEF Rows
<1>4. ASSUME NEW i \in 1 .. w
      PROVE  /\ f[i] \in Nat
             /\ f[i] = IF bucket(i) \in Buckets THEN hourly[bucket(i)] ELSE 0
             /\ bucket(i) \in Buckets => bucket(i) \in B
  <2>1. PICK hour \in Int : hour = q - w + i
    OBVIOUS
  <2>2. /\ Recent(time, hour) /\ f[i] \in Nat
        /\ f[i] = IF <<page, hour>> \in Buckets THEN hourly[<<page, hour>>] ELSE 0
    BY <1>1, <1>2, <2>1, RowValues
  <2> QED
    BY <2>1, <2>2
<1>5. ASSUME NEW b \in B PROVE \E i \in 1 .. w : b = bucket(i)
  <2>1. b[1] = page /\ Recent(time, b[2]) /\ b = <<b[1], b[2]>> /\ b[2] \in Int
    BY AnalyticsAssumption
  <2>2. q - w < b[2] /\ b[2] <= q
    BY <1>1, <1>2, <2>1, RecentHours
  <2>3. PICK i \in 1 .. w : b[2] = q - w + i
    <3>1. b[2] - q + w \in 1 .. w /\ b[2] = q - w + (b[2] - q + w)
      BY <2>1, <2>2
    <3> QED
      BY <3>1
  <2> QED
    BY <2>1, <2>3
<1>6. /\ IsFiniteSet(Pairs(f, 1 .. w)) /\ Sum(f, 1 .. w) = Cardinality(Pairs(f, 1 .. w))
  <2>1. IsFiniteSet(1 .. w)
    BY FS_Interval
  <2>2. \A i \in 1 .. w : f[i] \in Nat
    BY <1>4
  <2> HIDE DEF f
  <2> QED
    BY <2>1, <2>2, SumType
<1>7. ASSUME NEW p
      PROVE  p \in Pairs(f, 1 .. w) <=>
               \E i \in 1 .. w : bucket(i) \in B /\ \E n \in 1 .. hourly[bucket(i)] : p = <<i, n>>
  <2>1. ASSUME NEW i \in 1 .. w
        PROVE  1 .. f[i] = IF bucket(i) \in B THEN 1 .. hourly[bucket(i)] ELSE {}
    BY <1>4
  <2>2. p \in Pairs(f, 1 .. w) <=> \E i \in 1 .. w : \E n \in 1 .. f[i] : p = <<i, n>>
    BY DEF Pairs
  <2> HIDE DEF f, B, bucket
  <2> QED
    BY <2>1, <2>2
<1>8. ASSUME NEW p
      PROVE  p \in Pairs(hourly, B) <=> \E b \in B : \E n \in 1 .. hourly[b] : p = <<b, n>>
  BY DEF Pairs
<1>9. g \in [Pairs(f, 1 .. w) -> Pairs(hourly, B)]
  <2>1. ASSUME NEW p \in Pairs(f, 1 .. w) PROVE <<bucket(p[1]), p[2]>> \in Pairs(hourly, B)
    <3>1. PICK i \in 1 .. w : bucket(i) \in B /\ \E n \in 1 .. hourly[bucket(i)] : p = <<i, n>>
      BY <1>7
    <3>2. PICK n \in 1 .. hourly[bucket(i)] : p = <<i, n>>
      BY <3>1
    <3>3. p[1] = i /\ p[2] = n
      BY <3>2
    <3> HIDE DEF f, B, bucket
    <3> QED
      BY <1>8, <3>1, <3>3
  <2> HIDE DEF f, B, bucket
  <2> QED
    BY <2>1
<1>10. ASSUME NEW p \in Pairs(hourly, B) PROVE \E r \in Pairs(f, 1 .. w) : g[r] = p
  <2>1. PICK b \in B : \E n \in 1 .. hourly[b] : p = <<b, n>>
    BY <1>8
  <2>2. PICK n \in 1 .. hourly[b] : p = <<b, n>>
    BY <2>1
  <2>3. PICK i \in 1 .. w : b = bucket(i)
    BY <1>5
  <2> HIDE DEF f, B, bucket
  <2>4. <<i, n>> \in Pairs(f, 1 .. w)
    BY <1>7, <2>2, <2>3
  <2>5. g[<<i, n>>] = <<bucket(i), n>>
    BY <2>4
  <2> QED
    BY <2>2, <2>3, <2>4, <2>5
<1>11. ASSUME NEW p \in Pairs(f, 1 .. w), NEW r \in Pairs(f, 1 .. w), g[p] = g[r] PROVE p = r
  <2>1. PICK i \in 1 .. w, n \in Int : p = <<i, n>>
    <3>1. PICK i \in 1 .. w : bucket(i) \in B /\ \E n \in 1 .. hourly[bucket(i)] : p = <<i, n>>
      BY <1>7
    <3> HIDE DEF B, bucket
    <3> QED
      BY <3>1
  <2>2. PICK j \in 1 .. w, m \in Int : r = <<j, m>>
    <3>1. PICK j \in 1 .. w : bucket(j) \in B /\ \E m \in 1 .. hourly[bucket(j)] : r = <<j, m>>
      BY <1>7
    <3> HIDE DEF B, bucket
    <3> QED
      BY <3>1
  <2>3. g[p] = <<<<page, q - w + i>>, n>> /\ g[r] = <<<<page, q - w + j>>, m>>
    BY <2>1, <2>2
  <2> HIDE DEF g
  <2>4. PICK a \in Int, c \in Int : a = q - w + i /\ c = q - w + j
    OBVIOUS
  <2>5. <<<<page, a>>, n>> = <<<<page, c>>, m>>
    BY <1>11, <2>3, <2>4, Zenon
  <2>6. n = m /\ a = c
    BY <2>5
  <2>7. i = j
    BY <2>4, <2>6
  <2> QED
    BY <2>1, <2>2, <2>6, <2>7
<1>12. Cardinality(Pairs(hourly, B)) = Cardinality(Pairs(f, 1 .. w))
  <2> HIDE DEF f, g, B, bucket
  <2>1. g \in Bijection(Pairs(f, 1 .. w), Pairs(hourly, B))
    BY <1>9, <1>10, <1>11 DEF Bijection, Injection, IsInjective, Surjection
  <2>2. ExistsBijection(Pairs(f, 1 .. w), Pairs(hourly, B))
    BY <2>1 DEF ExistsBijection
  <2> QED
    BY <1>6, <2>2, FS_Bijection
<1>13. Sum(hourly, B) = Cardinality(Pairs(hourly, B))
  BY DEF Sum, Pairs
<1>14. Sum(f, 1 .. w) = Sum(hourly, B)
  BY <1>6, <1>12, <1>13, Zenon
<1> QED
  BY <1>3, <1>14, Zenon

LEMMA PrefixesShown ==
  ASSUME NEW page, NEW time \in Nat, NEW k \in Int
  PROVE  /\ IsPrefix(getReport(hourly, page, time, "asc", k), Rows(page, time))
         /\ IsPrefix(getReport(hourly, page, time, "desc", k), Reverse(Rows(page, time)))
<1>1. PICK w \in Nat : w = HoursInWindow
  BY ReportAssumption
<1>2. PICK q \in Nat : q = floorToHour(time)
  BY RecentHours
<1>3. PICK n \in Nat : n = Limit(k) /\ n <= w
  BY <1>1, LimitType
<1> DEFINE all == Rows(page, time)
           up == getReport(hourly, page, time, "asc", k)
           down == getReport(hourly, page, time, "desc", k)
           rev == Reverse(all)
           R == {Entry(page, hour) : hour \in Int}
<1>4. all = [i \in 1 .. w |-> Entry(page, q - w + i)]
  BY <1>1, <1>2 DEF Rows
<1>5. up = [i \in 1 .. n |-> Entry(page, q - w + i)]
  BY <1>1, <1>2, <1>3, Ascending
<1>6. down = [i \in 1 .. n |-> Entry(page, q - i + 1)]
  BY <1>2, <1>3, Descending
<1> HIDE DEF all, up, down, rev
<1>7. IsPrefix(up, all)
  <2>1. up \in [1 .. n -> R] /\ all \in [1 .. w -> R]
    BY <1>4, <1>5
  <2>2. \A i \in 1 .. n : up[i] = all[i]
    BY <1>3, <1>4, <1>5
  <2> HIDE DEF R
  <2> QED
    BY <1>3, <2>1, <2>2, PrefixOf, SMTT(20)
<1>8. rev = [i \in 1 .. w |-> all[w - i + 1]]
  BY <1>4 DEF Reverse, rev
<1>9. ASSUME NEW i \in 1 .. w PROVE rev[i] = Entry(page, q - i + 1)
  <2>1. PICK j \in 1 .. w : j = w - i + 1
    OBVIOUS
  <2>2. q - w + j = q - i + 1
    BY <2>1
  <2>3. rev[i] = all[j]
    BY <1>8, <2>1
  <2>4. all[j] = Entry(page, q - w + j)
    BY <1>4
  <2> QED
    BY <2>2, <2>3, <2>4
<1>10. IsPrefix(down, rev)
  <2>1. down \in [1 .. n -> R] /\ rev \in [1 .. w -> R]
    BY <1>6, <1>8, <1>9
  <2>2. \A i \in 1 .. n : down[i] = rev[i]
    <3>1. \A i \in 1 .. n : i \in 1 .. w
      BY <1>3
    <3> QED
      BY <1>6, <1>9, <3>1
  <2> HIDE DEF R
  <2>3. n \in Nat /\ w \in Nat /\ n <= w
    BY <1>3
  <2>4. ASSUME NEW s, NEW t, s \in [1 .. n -> R], t \in [1 .. w -> R], \A i \in 1 .. n : s[i] = t[i]
        PROVE  IsPrefix(s, t)
    BY <2>3, <2>4, PrefixOf
  <2> QED
    BY <2>1, <2>2, <2>4
<1> QED
  BY <1>7, <1>10 DEF all, up, down, rev

\* Reports need the tables' types only, whatever the grace period.
HourlyTypes == TypeOK /\ \A o \in orphans : o.rows \subseteq Views

LEMMA HourlyTypesStep ==
  ASSUME HourlyTypes, [AnalyticsNext]_allVars
  PROVE  HourlyTypes'
<1>1. ASSUME [Next]_vars, orphans' = orphans PROVE HourlyTypes'
  BY <1>1, TypeStep DEF HourlyTypes
<1>2. CASE Migrate \/ Increment \/ Clean \/ UNCHANGED allVars
  BY <1>1, <1>2 DEF Migrate, Increment, Clean, allVars, Next
<1>3. CASE KillCleaner
  <2>1. [Next]_vars
    BY <1>3 DEF KillCleaner, Next
  <2>2. \A o \in Statements : o.rows \subseteq Views
    BY DEF Statements, Batches, Due
  <2> QED
    BY <1>3, <2>1, <2>2, TypeStep DEF KillCleaner, HourlyTypes
<1>4. ASSUME NEW o \in orphans, FinishOrphan(o) PROVE HourlyTypes'
  <2>1. TypeOK' /\ orphans' \subseteq orphans
    BY <1>4, OrphanAdds DEF HourlyTypes, FinishOrphan
  <2> QED
    BY <2>1 DEF HourlyTypes
<1> QED
  BY <1>2, <1>3, <1>4 DEF AnalyticsNext

\* Every report, of any page at any time, shows the hours of its window, each
\* once and under its own hour of the day, with all their views and no others;
\* `desc` reverses it and `take` leaves its first rows.
THEOREM ReportsShow == AnalyticsSpec => []ReportShows
<1>1. HourlyTypes => ReportShows
  <2> SUFFICES ASSUME HourlyTypes, NEW page \in {b[1] : b \in Buckets}, NEW time \in Times
               PROVE  ReportRight(page, time)
    BY DEF ReportShows
  <2>1. time \in Nat /\ Takes \subseteq Int /\ hourly \in [Buckets -> Nat]
    BY AnalyticsAssumption DEF HourlyTypes, TypeOK
  <2>2. getReport(hourly, page, time, "asc", MaxTake) = Rows(page, time)
    BY <2>1, AllRows
  <2> QED
    BY <2>1, <2>2, HoursShown, ViewsShown, PrefixesShown DEF ReportRight
<1>2. AnalyticsInit => HourlyTypes
  BY TypeStart DEF AnalyticsInit, HourlyTypes
<1> QED
  BY <1>1, <1>2, HourlyTypesStep, PTL DEF AnalyticsSpec
=============================================================================

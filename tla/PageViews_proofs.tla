--------------------------- MODULE PageViews_proofs ---------------------------
(***************************************************************************)
(* PageViews keeps its promises for every set of requests, every grace     *)
(* period that covers latency and skew, and every batch size.              *)
(***************************************************************************)
EXTENDS FailingCycles, FiniteSetTheorems, TLAPS

-----------------------------------------------------------------------------
(* Types *)

\* Views of a bucket are finite and can be counted.
LEMMA CountsAreNat ==
  ASSUME NEW S, S \subseteq Views
  PROVE  IsFiniteSet(S) /\ Cardinality(S) \in Nat
BY FS_Subset, FS_CardinalityType, ViewsAssumption

\* A multi payload adds a natural number to every bucket.
LEMMA DeltaIsNat ==
  ASSUME NEW m \in Multis, NEW b \in Buckets
  PROVE  MultiDelta(m, b) \in Nat
<1>1. CASE KeysOf(m, b) = {}
  BY <1>1 DEF MultiDelta
<1>2. CASE KeysOf(m, b) # {}
  <2>1. PICK h \in DOMAIN Payload[m] : h \in KeysOf(m, b)
    BY <1>2 DEF KeysOf
  <2>2. (CHOOSE g \in KeysOf(m, b) : TRUE) \in KeysOf(m, b)
    BY <2>1
  <2> QED BY <1>2, <2>2, ViewsAssumption DEF MultiDelta, KeysOf
<1> QED BY <1>1, <1>2

\* An aggregation, done or not, leaves natural numbers in page_view_hourly.
LEMMA AddDueIsNat ==
  ASSUME TypeOK, AddDue
  PROVE  hourly' \in [Buckets -> Nat]
<1>1. ASSUME NEW b \in Buckets PROVE hourly[b] + Cardinality(DueIn(b)) \in Nat
  <2>1. DueIn(b) \subseteq Views
    BY DEF DueIn, Due
  <2> QED BY <2>1, CountsAreNat DEF TypeOK
<1> QED BY <1>1 DEF AddDue

LEMMA DeleteRowsType ==
  ASSUME TypeOK, NEW S, DeleteRows(S)
  PROVE  row' \in [Views -> {"none", "running", "visible", "deleted", "failed"}]
BY DEF DeleteRows, TypeOK

\* Every step preserves the types.
LEMMA TypeStep == TypeOK /\ [Next]_vars => TypeOK'
<1> SUFFICES ASSUME TypeOK, [Next]_vars PROVE TypeOK'
  OBVIOUS
<1> USE ViewsAssumption
<1>1. CASE Tick
  BY <1>1 DEF Tick, TypeOK, tables
<1>2. ASSUME BeginCycle, now' = now
      PROVE  /\ pc' = "aggregate" /\ cutoff' \in Int /\ cutoff' <= now' + MaxSkew
  BY <1>2 DEF BeginCycle, TypeOK
<1>3. CASE Start
  BY <1>3, <1>2 DEF Start, TypeOK, tables
<1>4. CASE Wake
  BY <1>4, <1>2 DEF Wake, TypeOK, tables
<1>5. CASE Aggregate
  <2>1. hourly' \in [Buckets -> Nat]
    BY <1>5, AddDueIsNat DEF Aggregate, TypeOK
  <2>2. pc' \in {"ended", "delete", "sleep"}
    BY <1>5 DEF Aggregate, EndCycle
  <2> QED BY <1>5, <2>1, <2>2 DEF Aggregate, TypeOK
<1>6. CASE DeleteBatch
  <2>1. row' \in [Views -> {"none", "running", "visible", "deleted", "failed"}]
    BY <1>6, DeleteRowsType DEF DeleteBatch, TypeOK
  <2>2. pc' \in {"ended", "delete", "sleep"}
    BY <1>6 DEF DeleteBatch, EndCycle
  <2> QED BY <1>6, <2>1, <2>2 DEF DeleteBatch, TypeOK
<1>7. CASE Sigterm \/ Crash
  BY <1>7 DEF Sigterm, Crash, TypeOK, tables
<1>8. ASSUME NEW v \in Views, InsertStart(v) \/ InsertCommit(v) PROVE TypeOK'
  BY <1>8 DEF InsertStart, InsertCommit, TypeOK
<1>9. ASSUME NEW m \in Multis, UpsertMulti(m) PROVE TypeOK'
  <2>1. hourly' \in [Buckets -> Nat]
    BY <1>9, DeltaIsNat DEF UpsertMulti, TypeOK
  <2> QED BY <1>9, <2>1 DEF UpsertMulti, TypeOK
<1>10. CASE UNCHANGED vars
  BY <1>10 DEF vars, TypeOK
<1> QED BY <1>1, <1>3, <1>4, <1>5, <1>6, <1>7, <1>8, <1>9, <1>10 DEF Next, Cleaner

LEMMA TypeStart == Init => TypeOK
<1> SUFFICES ASSUME Init PROVE TypeOK
  OBVIOUS
<1>1. now = 0 /\ cutoff = 0 /\ stopped \in BOOLEAN /\ pc = "ended"
  BY Zenon DEF Init
<1>2. /\ row \in [Views -> {"none", "running", "visible", "deleted", "failed"}]
      /\ stamp \in [Views -> Nat] /\ hourly \in [Buckets -> Nat]
      /\ multi \in [Multis -> {"none", "applied", "failed"}]
  BY DEF Init
<1> QED BY <1>1, <1>2, ViewsAssumption DEF TypeOK

\* The tables and the cleaner's variables keep their types.
THEOREM PageViewsTypeCorrect == Spec => []TypeOK
BY TypeStart, TypeStep, PTL DEF Spec

\* With the history of abandoned cycles, PageViews does what it does without, so
\* that what is proved of Spec holds of CyclesSpec.
LEMMA HistoryAddsNothing == CyclesSpec => Spec
<1>1. CyclesInit => Init
  BY DEF CyclesInit
<1>2. [Next /\ NoteAbandoned]_cycleVars => [Next]_vars
  BY DEF cycleVars
<1> QED BY <1>1, <1>2, PTL DEF CyclesSpec, Spec

-----------------------------------------------------------------------------
(* The grace period *)

\* How far behind the clock the cutoff and the running INSERTs are.
TimeInv ==
  /\ pc \in {"aggregate", "delete"} => cutoff <= now - Grace + MaxSkew
  /\ \A v \in Views : row[v] = "running" => now - stamp[v] <= MaxLatency

LEMMA TimeStep == TypeOK /\ TimeInv /\ [Next]_vars => TimeInv'
<1> SUFFICES ASSUME TypeOK, TimeInv, [Next]_vars PROVE TimeInv'
  OBVIOUS
<1> USE ViewsAssumption DEF TypeOK, TimeInv
<1>1. CASE Tick
  BY <1>1 DEF Tick, tables
<1>2. CASE Start
  BY <1>2 DEF Start, BeginCycle, tables
<1>3. CASE Wake
  BY <1>3 DEF Wake, BeginCycle, tables
<1>4. CASE Aggregate
  BY <1>4 DEF Aggregate, EndCycle
<1>5. CASE DeleteBatch
  <2>1. \A v \in Views : row'[v] = "running" => row[v] = "running"
    BY <1>5 DEF DeleteBatch, DeleteRows
  <2>2. pc' = "delete" => pc = "delete"
    BY <1>5 DEF DeleteBatch
  <2>3. pc' # "aggregate" /\ UNCHANGED <<now, stamp, cutoff>>
    BY <1>5 DEF DeleteBatch, EndCycle
  <2> QED BY <2>1, <2>2, <2>3
<1>6. CASE Sigterm \/ Crash
  BY <1>6 DEF Sigterm, Crash, tables
<1>7. ASSUME NEW v \in Views, InsertStart(v) \/ InsertCommit(v) PROVE TimeInv'
  BY <1>7 DEF InsertStart, InsertCommit
<1>8. ASSUME NEW m \in Multis, UpsertMulti(m) PROVE TimeInv'
  BY <1>8 DEF UpsertMulti
<1>9. CASE UNCHANGED vars
  BY <1>9 DEF vars
<1> QED BY <1>1, <1>2, <1>3, <1>4, <1>5, <1>6, <1>7, <1>8, <1>9 DEF Next, Cleaner

LEMMA TimeInvariant == Spec => [](TypeOK /\ TimeInv)
<1>1. Init => TimeInv
  BY DEF Init, TimeInv
<1> QED BY <1>1, TypeStart, TypeStep, TimeStep, PTL DEF Spec

LEMMA GraceExcludesLateRows ==
  ASSUME GraceSuffices, TypeOK, TimeInv
  PROVE  NoLateRow
BY ViewsAssumption DEF GraceSuffices, TypeOK, TimeInv, NoLateRow, Aged

\* A grace period longer than the latency of an INSERT and the skew of the
\* clocks together keeps every running INSERT out of the cycle in progress.
THEOREM GraceProtects == ASSUME GraceSuffices PROVE Spec => []NoLateRow
<1>1. TypeOK /\ TimeInv => NoLateRow
  BY GraceSuffices, GraceExcludesLateRows
<1> QED BY <1>1, TimeInvariant, PTL

-----------------------------------------------------------------------------
(* What a step does to the totals that will be reported *)

Visible == {v \in Views : row[v] = "visible"}

\* Recording request r adds its delta to every bucket.
Records(r) ==
  /\ r \notin Recorded
  /\ Recorded' = Recorded \cup {r}
  /\ Deleted' = Deleted /\ pc' = pc
  /\ \A b \in Buckets : Reportable(b)' = Reportable(b) + Delta[r][b]

\* Any other step deletes visible rows if it changes any, and adds the rows it
\* counts again.
CountsAgain(again) ==
  /\ Recorded' = Recorded
  /\ Deleted \subseteq Deleted' /\ Deleted' \subseteq Deleted \cup Visible
  /\ \A b \in Buckets :
       Reportable(b)' = Reportable(b) + Cardinality({v \in again : BucketOf[v] = b})

Keeps == CountsAgain({})
Abandons == LeavesRowsDue /\ CountsAgain(Due')

\* The totals are natural numbers.
LEMMA ReportableIsNat ==
  ASSUME TypeOK, NEW b \in Buckets
  PROVE  Reportable(b) \in Nat
<1>1. Cardinality(Pending(b)) \in Nat
  BY CountsAreNat DEF Pending
<1> QED BY <1>1 DEF Reportable, TypeOK

\* Adding no row adds nothing.
LEMMA KeepsTotals ==
  ASSUME TypeOK, Recorded' = Recorded,
         Deleted \subseteq Deleted', Deleted' \subseteq Deleted \cup Visible,
         \A b \in Buckets : Reportable(b)' = Reportable(b)
  PROVE  Keeps
<1>1. ASSUME NEW b \in Buckets PROVE Cardinality({v \in {} : BucketOf[v] = b}) = 0
  <2>1. {v \in {} : BucketOf[v] = b} = {}
    OBVIOUS
  <2> QED BY <2>1, FS_EmptySet
<1>2. \A b \in Buckets : Reportable(b) + 0 = Reportable(b)
  BY ReportableIsNat
<1> QED BY <1>1, <1>2 DEF Keeps, CountsAgain

\* Totals stay and nothing is deleted.
LEMMA KeepsRows ==
  ASSUME TypeOK, Recorded' = Recorded, Deleted' = Deleted,
         \A b \in Buckets : Reportable(b)' = Reportable(b)
  PROVE  Keeps
BY KeepsTotals

\* A step that touches neither table nor the set of rows counted by the cycle
\* preserves the totals.
LEMMA QuietStep ==
  ASSUME TypeOK, UNCHANGED <<row, multi, hourly>>,
         pc = "delete" => pc' = "delete" /\ UNCHANGED <<cutoff, stamp>>,
         pc' = "delete" => pc = "delete"
  PROVE  Keeps
<1>1. \A b \in Buckets : Pending(b)' = Pending(b)
  BY DEF Pending, Aged
<1>2. \A b \in Buckets : Reportable(b)' = Reportable(b)
  BY <1>1 DEF Reportable
<1>3. Recorded' = Recorded /\ Deleted' = Deleted
  BY DEF Recorded, Deleted
<1> QED BY <1>2, <1>3, KeepsRows

\* Counting a set apart from one of its subsets.
LEMMA CountSplits ==
  ASSUME NEW S, IsFiniteSet(S), NEW T, T \subseteq S
  PROVE  Cardinality(S) = Cardinality(S \ T) + Cardinality(T)
<1> DEFINE R == S \ T
<1>1. IsFiniteSet(R) /\ IsFiniteSet(T)
  BY FS_Subset
<1>2. Cardinality(R \cup T) = Cardinality(R) + Cardinality(T) - Cardinality(R \cap T)
  BY <1>1, FS_Union
<1>3. R \cup T = S /\ R \cap T = {}
  OBVIOUS
<1>4. Cardinality(R \cap T) = 0
  BY <1>3, FS_EmptySet
<1>5. Cardinality(R) \in Nat /\ Cardinality(T) \in Nat
  BY <1>1, FS_CardinalityType
<1>6. Cardinality(R \cup T) = Cardinality(R) + Cardinality(T)
  <2> HIDE DEF R
  <2> QED BY <1>2, <1>4, <1>5
<1> QED BY <1>3, <1>6, Zenon

\* A cycle that ends after its aggregation leaves those rows pending again
\* that it has not deleted.
LEMMA EndedCycle ==
  ASSUME TypeOK, UNCHANGED <<stamp, multi, hourly, cutoff>>,
         NEW S, S \subseteq Due, DeleteRows(S), pc = "delete", pc' \in {"sleep", "ended"}
  PROVE  Keeps \/ Abandons
<1>1. Recorded' = Recorded /\ Deleted \subseteq Deleted' /\ Deleted' \subseteq Deleted \cup Visible
  BY DEF Recorded, Deleted, Visible, DeleteRows, Due, Aged, TypeOK
<1>2. ASSUME NEW b \in Buckets
      PROVE  Reportable(b)' = Reportable(b) + Cardinality({v \in Due' : BucketOf[v] = b})
  <2> DEFINE left == {v \in Due' : BucketOf[v] = b}
  <2>1. left \subseteq Pending(b)' /\ Pending(b) = Pending(b)' \ left
    BY DEF Pending, DeleteRows, Due, Aged, TypeOK
  <2>2. Pending(b)' \subseteq Views /\ Pending(b) \subseteq Views /\ left \subseteq Views
    BY DEF Pending, Due, Aged
  <2> HIDE DEF left
  <2>3. Cardinality(Pending(b)') = Cardinality(Pending(b)) + Cardinality(left)
    BY <2>1, <2>2, CountsAreNat, CountSplits
  <2>4. Cardinality(Pending(b)) \in Nat /\ Cardinality(left) \in Nat
    BY <2>2, CountsAreNat
  <2>5. Reportable(b)' = Reportable(b) + Cardinality(left)
    BY <2>3, <2>4 DEF Reportable, TypeOK
  <2> QED BY <2>5 DEF left
<1>3. CASE Due' = {}
  BY <1>1, <1>2, <1>3 DEF Keeps, CountsAgain
<1>4. CASE Due' # {}
  BY <1>1, <1>2, <1>4 DEF Abandons, LeavesRowsDue, CountsAgain
<1> QED BY <1>3, <1>4

\* The commit of an INSERT makes its view pending: the cycle in progress has
\* not counted it and will not delete it.
LEMMA CommitRecords ==
  ASSUME TypeOK, NoLateRow, NEW v \in Views, row[v] = "running",
         row' = [row EXCEPT ![v] = "visible"],
         UNCHANGED <<stamp, multi, hourly, pc, cutoff>>
  PROVE  v \in Requests /\ Records(v)
<1>1. v \notin Recorded
  BY ViewsAssumption DEF Recorded, TypeOK
<1>2. Recorded' = Recorded \cup {v}
  BY DEF Recorded, TypeOK
<1>3. ASSUME NEW b \in Buckets PROVE Reportable(b)' = Reportable(b) + Delta[v][b]
  <2>1. v \notin Pending(b)
    BY DEF Pending
  <2>2. IsFiniteSet(Pending(b)) /\ Cardinality(Pending(b)) \in Nat
    BY CountsAreNat DEF Pending
  <2>3. Delta[v][b] = IF BucketOf[v] = b THEN 1 ELSE 0
    BY DEF Delta, Requests
  <2>4. CASE BucketOf[v] = b
    <3>1. Pending(b)' = Pending(b) \cup {v}
      BY <2>4 DEF Pending, Aged, NoLateRow, TypeOK
    <3>2. Cardinality(Pending(b)') = Cardinality(Pending(b)) + 1
      BY <3>1, <2>1, <2>2, FS_AddElement
    <3> QED BY <3>2, <2>2, <2>3, <2>4 DEF Reportable, TypeOK
  <2>5. CASE BucketOf[v] # b
    <3>1. Pending(b)' = Pending(b)
      BY <2>5 DEF Pending, Aged, TypeOK
    <3> QED BY <3>1, <2>2, <2>3, <2>5 DEF Reportable, TypeOK
  <2> QED BY <2>4, <2>5
<1>4. Deleted' = Deleted
  BY DEF Deleted, TypeOK
<1> QED BY <1>1, <1>2, <1>3, <1>4 DEF Records, Requests

\* The upsert of a multi payload adds its delta to page_view_hourly.
LEMMA UpsertRecords ==
  ASSUME TypeOK, NEW m \in Multis, multi[m] = "none",
         multi' = [multi EXCEPT ![m] = "applied"],
         hourly' = [b \in Buckets |-> hourly[b] + MultiDelta(m, b)],
         UNCHANGED <<row, stamp, pc, cutoff>>
  PROVE  m \in Requests /\ Records(m)
<1>1. m \notin Recorded
  BY ViewsAssumption DEF Recorded, TypeOK
<1>2. Recorded' = Recorded \cup {m}
  BY DEF Recorded, TypeOK
<1>3. ASSUME NEW b \in Buckets PROVE Reportable(b)' = Reportable(b) + Delta[m][b]
  <2>1. Pending(b)' = Pending(b) /\ Cardinality(Pending(b)) \in Nat
    BY CountsAreNat DEF Pending, Aged
  <2>2. Delta[m][b] = MultiDelta(m, b) /\ MultiDelta(m, b) \in Nat
    BY DeltaIsNat, ViewsAssumption DEF Delta, Requests
  <2> QED BY <2>1, <2>2 DEF Reportable, TypeOK
<1>4. Deleted' = Deleted
  BY DEF Deleted, TypeOK
<1> QED BY <1>1, <1>2, <1>3, <1>4 DEF Records, Requests

\* The aggregation counts each row that is due, and those rows stop pending.
LEMMA AggregatePreserves ==
  ASSUME TypeOK, NEW b \in Buckets, pc = "aggregate", pc' = "delete", AddDue,
         UNCHANGED <<row, stamp, cutoff>>
  PROVE  Reportable(b)' = Reportable(b)
<1>1. DueIn(b) \subseteq Pending(b) /\ Pending(b) \subseteq Views
  BY DEF DueIn, Due, Aged, Pending
<1>2. Pending(b)' = Pending(b) \ DueIn(b)
  BY DEF DueIn, Due, Pending, Aged
<1>3. /\ IsFiniteSet(Pending(b)) /\ IsFiniteSet(DueIn(b)) /\ IsFiniteSet(Pending(b)')
      /\ Cardinality(Pending(b)) \in Nat /\ Cardinality(DueIn(b)) \in Nat
      /\ Cardinality(Pending(b)') \in Nat
  BY <1>1, <1>2, CountsAreNat
<1>4. Cardinality(Pending(b)) = Cardinality(Pending(b)') + Cardinality(DueIn(b))
  BY <1>1, <1>2, <1>3, CountSplits
<1>5. hourly'[b] = hourly[b] + Cardinality(DueIn(b))
  BY DEF AddDue
<1> QED BY <1>3, <1>4, <1>5 DEF Reportable, TypeOK

\* A batch of rows that the cycle has counted disappears unnoticed; the empty
\* batch ends the cycle with none left.
LEMMA DeleteAccount ==
  ASSUME TypeOK, DeleteBatch
  PROVE  Keeps \/ Abandons
<1>1. PICK S \in Batches :
        \/ DeleteRows(S) /\ IF S = {} THEN EndCycle ELSE UNCHANGED pc
        \/ "deleteAckLost" \in Events /\ DeleteRows(S) /\ EndCycle
        \/ "deleteFails" \in Events /\ UNCHANGED row /\ EndCycle
  BY DEF DeleteBatch
<1>2. S \subseteq Due /\ {} \subseteq Due
  BY DEF Batches
<1>3. UNCHANGED <<now, stamp, multi, hourly, cutoff, stopped>> /\ pc = "delete"
  BY DEF DeleteBatch
<1>4. CASE EndCycle
  <2>1. pc' \in {"sleep", "ended"}
    BY <1>4 DEF EndCycle
  <2>2. CASE DeleteRows(S)
    BY <1>2, <1>3, <2>1, <2>2, EndedCycle
  <2>3. CASE UNCHANGED row
    <3>1. DeleteRows({})
      BY <2>3 DEF DeleteRows, TypeOK
    <3> QED BY <1>2, <1>3, <2>1, <3>1, EndedCycle
  <2> QED BY <1>1, <2>2, <2>3
<1>5. CASE DeleteRows(S) /\ UNCHANGED pc
  <2>1. Recorded' = Recorded /\ Deleted \subseteq Deleted' /\ Deleted' \subseteq Deleted \cup Visible
    BY <1>2, <1>3, <1>5 DEF Recorded, Deleted, Visible, DeleteRows, Due, Aged, TypeOK
  <2>2. \A b \in Buckets : Pending(b)' = Pending(b)
    BY <1>2, <1>3, <1>5 DEF Pending, DeleteRows, Due, Aged, TypeOK
  <2>3. \A b \in Buckets : Reportable(b)' = Reportable(b)
    BY <2>2, <1>3 DEF Reportable
  <2> QED BY <2>1, <2>3, KeepsTotals
<1> QED BY <1>1, <1>4, <1>5

\* An aggregation counts, or fails and changes nothing, or counts and ends.
LEMMA AggregateAccount ==
  ASSUME TypeOK, Aggregate
  PROVE  Keeps \/ Abandons
<1>1. pc = "aggregate" /\ UNCHANGED <<row, stamp, multi, cutoff>>
  BY DEF Aggregate
<1>2. Recorded' = Recorded /\ Deleted' = Deleted
  BY <1>1 DEF Recorded, Deleted
<1>3. CASE AddDue /\ pc' = "delete"
  BY <1>1, <1>2, <1>3, AggregatePreserves, KeepsRows
<1>4. CASE UNCHANGED hourly /\ EndCycle
  BY <1>1, <1>4, QuietStep DEF EndCycle
<1>5. CASE AddDue /\ EndCycle
  <2>1. pc' \in {"sleep", "ended"} /\ Due' = Due
    BY <1>1, <1>5 DEF EndCycle, Due, Aged
  <2>2. ASSUME NEW b \in Buckets
        PROVE  Reportable(b)' = Reportable(b) + Cardinality({v \in Due' : BucketOf[v] = b})
    <3>1. Pending(b)' = Pending(b) /\ Cardinality(Pending(b)) \in Nat
      BY <1>1, <2>1, CountsAreNat DEF Pending
    <3>2. Cardinality(DueIn(b)) \in Nat
      BY CountsAreNat DEF DueIn, Due, Aged
    <3>3. hourly'[b] = hourly[b] + Cardinality(DueIn(b))
      BY <1>5 DEF AddDue
    <3>4. Reportable(b)' = Reportable(b) + Cardinality(DueIn(b))
      BY <3>1, <3>2, <3>3 DEF Reportable, TypeOK
    <3> QED BY <2>1, <3>4 DEF DueIn
  <2>3. CASE Due' = {}
    BY <1>2, <2>2, <2>3 DEF Keeps, CountsAgain
  <2>4. CASE Due' # {}
    BY <1>1, <1>2, <2>1, <2>2, <2>4 DEF Abandons, LeavesRowsDue, CountsAgain
  <2> QED BY <2>3, <2>4
<1> QED BY <1>3, <1>4, <1>5 DEF Aggregate

\* A crash leaves rows that were counted pending again.
LEMMA CrashAccount ==
  ASSUME TypeOK, Crash
  PROVE  Keeps \/ Abandons
<1>1. /\ pc' = "ended" /\ pc # "ended"
      /\ UNCHANGED <<row, stamp, multi, hourly, cutoff>>
  BY DEF Crash, tables
<1>2. CASE pc = "delete"
  <2>1. DeleteRows({}) /\ {} \subseteq Due
    BY <1>1 DEF DeleteRows, TypeOK
  <2> QED BY <2>1, <1>1, <1>2, EndedCycle
<1>3. CASE pc # "delete"
  BY <1>1, <1>3, QuietStep
<1> QED BY <1>2, <1>3

\* Every step records one request, keeps the totals, or abandons a cycle.
LEMMA StepAccount ==
  TypeOK /\ NoLateRow /\ [Next]_vars => Keeps \/ Abandons \/ \E r \in Requests : Records(r)
<1> SUFFICES ASSUME TypeOK, NoLateRow, [Next]_vars
             PROVE  Keeps \/ Abandons \/ \E r \in Requests : Records(r)
  OBVIOUS
<1>1. CASE Tick
  BY <1>1, QuietStep DEF Tick, tables
<1>2. CASE Start
  BY <1>2, QuietStep DEF Start, BeginCycle, tables
<1>3. CASE Wake
  BY <1>3, QuietStep DEF Wake, BeginCycle, tables
<1>4. CASE Sigterm
  BY <1>4, QuietStep DEF Sigterm, tables
<1>5. CASE Aggregate \/ DeleteBatch \/ Crash
  BY <1>5, AggregateAccount, DeleteAccount, CrashAccount
<1>6. ASSUME NEW v \in Views, InsertStart(v)
      PROVE  Keeps
  <2>1. /\ row' = [row EXCEPT ![v] = "running"] /\ row[v] = "none"
        /\ stamp' = [stamp EXCEPT ![v] = now]
        /\ UNCHANGED <<multi, hourly, pc, cutoff>>
    BY <1>6 DEF InsertStart
  <2>2. Recorded' = Recorded
    BY <2>1 DEF Recorded, TypeOK
  <2>3. \A b \in Buckets : Pending(b)' = Pending(b)
    BY <2>1 DEF Pending, Aged, TypeOK
  <2>4. \A b \in Buckets : Reportable(b)' = Reportable(b)
    BY <2>1, <2>3 DEF Reportable
  <2>5. Deleted' = Deleted
    BY <2>1 DEF Deleted, TypeOK
  <2> QED BY <2>2, <2>4, <2>5, KeepsRows
<1>7. ASSUME NEW v \in Views, InsertCommit(v)
      PROVE  Keeps \/ Abandons \/ \E r \in Requests : Records(r)
  <2>1. CASE row' = [row EXCEPT ![v] = "visible"]
    BY <2>1, <1>7, CommitRecords DEF InsertCommit
  <2>2. CASE row' = [row EXCEPT ![v] = "failed"]
    <3>1. row[v] = "running" /\ UNCHANGED <<stamp, multi, hourly, pc, cutoff>>
      BY <1>7 DEF InsertCommit
    <3>2. Recorded' = Recorded
      BY <2>2, <3>1 DEF Recorded, TypeOK
    <3>3. \A b \in Buckets : Pending(b)' = Pending(b)
      BY <2>2, <3>1 DEF Pending, Aged, TypeOK
    <3>4. \A b \in Buckets : Reportable(b)' = Reportable(b)
      BY <3>1, <3>3 DEF Reportable
    <3>5. Deleted' = Deleted
      BY <2>2, <3>1 DEF Deleted, TypeOK
    <3> QED BY <3>2, <3>4, <3>5, KeepsRows
  <2> QED BY <2>1, <2>2, <1>7 DEF InsertCommit
<1>8. ASSUME NEW m \in Multis, UpsertMulti(m)
      PROVE  Keeps \/ Abandons \/ \E r \in Requests : Records(r)
  <2>1. CASE multi' = [multi EXCEPT ![m] = "failed"] /\ UNCHANGED hourly
    <3>1. UNCHANGED <<row, stamp, pc, cutoff>> /\ multi[m] = "none"
      BY <1>8 DEF UpsertMulti
    <3>2. Recorded' = Recorded
      BY <2>1, <3>1 DEF Recorded, TypeOK
    <3>3. \A b \in Buckets : Reportable(b)' = Reportable(b)
      BY <2>1, <3>1 DEF Pending, Aged, Reportable
    <3>4. Deleted' = Deleted
      BY <3>1 DEF Deleted
    <3> QED BY <3>2, <3>3, <3>4, KeepsRows
  <2>2. CASE /\ hourly' = [b \in Buckets |-> hourly[b] + MultiDelta(m, b)]
             /\ multi' = [multi EXCEPT ![m] = "applied"]
    BY <2>2, <1>8, UpsertRecords DEF UpsertMulti
  <2> QED BY <2>1, <2>2, <1>8 DEF UpsertMulti
<1>9. CASE UNCHANGED vars
  BY <1>9, QuietStep DEF vars
<1> QED BY <1>1, <1>2, <1>3, <1>4, <1>5, <1>6, <1>7, <1>8, <1>9 DEF Next, Cleaner

-----------------------------------------------------------------------------
(* The promises to the reports *)

LEMMA SameCardinality == \A S : Counter!Cardinality(S) = Cardinality(S)
BY Zenon DEF Counter!Cardinality, Cardinality, Counter!IsFiniteSet, IsFiniteSet

\* What the counter calls unsettled are the rows that are visible.
LEMMA UnsettledRows ==
  ASSUME TypeOK
  PROVE  Counter!Unsettled = Visible
BY ViewsAssumption DEF Counter!Unsettled, Visible, Recorded, Deleted, TypeOK

\* A view's delta is one in its own bucket.
LEMMA DeltaOfViews ==
  ASSUME NEW S, S \subseteq Views, NEW b \in Buckets
  PROVE  {v \in S : Delta[v][b] = 1} = {v \in S : BucketOf[v] = b}
BY DEF Delta, Requests

\* Initially nothing is recorded and every total is zero.
LEMMA CounterStart == CyclesInit => Counter!CounterInit
<1> SUFFICES ASSUME CyclesInit PROVE Counter!CounterInit
  OBVIOUS
<1>1. Recorded = {} /\ Deleted = {} /\ abandoned = 0
  BY DEF CyclesInit, Init, Recorded, Deleted
<1>2. ASSUME NEW b \in Buckets PROVE Reportable(b) = 0
  <2>1. Pending(b) = {} /\ Cardinality({}) = 0
    BY FS_EmptySet DEF CyclesInit, Init, Pending
  <2> QED BY <2>1 DEF CyclesInit, Init, Reportable
<1> QED BY <1>1, <1>2 DEF Counter!CounterInit, totalBar

\* A step that keeps the totals settles the rows it deletes; it is the failure
\* of a cycle that counts nothing again if it leaves rows due.
LEMMA KeepsCounter ==
  ASSUME TypeOK, Keeps, NoteAbandoned, AbandonedAssumption, abandoned \in Nat
  PROVE  Counter!Settle \/ Counter!Fail
<1>1. Recorded' = Recorded /\ Deleted' \in {Deleted \cup S : S \in SUBSET Counter!Unsettled}
  <2>1. Deleted' = Deleted \cup (Deleted' \ Deleted) /\ Deleted' \ Deleted \subseteq Visible
    BY DEF Keeps, CountsAgain
  <2> QED BY <2>1, UnsettledRows DEF Keeps, CountsAgain
<1>2. ASSUME NEW b \in Buckets
      PROVE  /\ Reportable(b)' = Reportable(b)
             /\ Reportable(b)' = Reportable(b) + Cardinality({v \in {} : Delta[v][b] = 1})
  <2>1. {v \in {} : BucketOf[v] = b} = {} /\ {v \in {} : Delta[v][b] = 1} = {}
    OBVIOUS
  <2>2. Cardinality({}) = 0
    BY FS_EmptySet
  <2>3. Reportable(b)' = Reportable(b) + 0 /\ Reportable(b) \in Nat
    BY <2>1, <2>2, ReportableIsNat DEF Keeps, CountsAgain
  <2> QED BY <2>1, <2>2, <2>3
<1>3. CASE ~LeavesRowsDue
  <2>1. abandoned' = abandoned
    BY <1>3 DEF NoteAbandoned
  <2>2. totalBar' = totalBar
    BY <1>2 DEF totalBar
  <2> QED BY <1>1, <2>1, <2>2 DEF Counter!Settle
<1>4. CASE LeavesRowsDue
  <2>1. abandoned' = abandoned + 1
    BY <1>4 DEF NoteAbandoned
  <2>2. totalBar' = [b \in Buckets |-> totalBar[b] + Cardinality({v \in {} : Delta[v][b] = 1})]
    BY <1>2 DEF totalBar
  <2>3. {} \in SUBSET (Counter!Unsettled \ Deleted')
    OBVIOUS
  <2>4. \E again \in SUBSET (Counter!Unsettled \ Deleted') :
          totalBar' = [b \in Buckets |-> totalBar[b] + Cardinality({v \in again : Delta[v][b] = 1})]
    BY <2>2, <2>3, Zenon
  <2> QED BY <1>1, <2>1, <2>4, SameCardinality, Zenon DEF Counter!Fail
<1> QED BY <1>3, <1>4

\* A cycle that leaves rows due fails, and may count those rows again.
LEMMA AbandonsCounter ==
  ASSUME TypeOK, TypeOK', Abandons, NoteAbandoned
  PROVE  Counter!Fail
<1>1. Recorded' = Recorded /\ Deleted' \in {Deleted \cup S : S \in SUBSET Counter!Unsettled}
  <2>1. Deleted' = Deleted \cup (Deleted' \ Deleted) /\ Deleted' \ Deleted \subseteq Visible
    BY DEF Abandons, CountsAgain
  <2> QED BY <2>1, UnsettledRows DEF Abandons, CountsAgain
<1>2. Due' \in SUBSET (Counter!Unsettled \ Deleted')
  <2>1. Due' \subseteq Views /\ \A v \in Due' : v \in Recorded' /\ v \notin Deleted'
    BY DEF Due, Aged, Recorded, Deleted
  <2>2. \A v \in Due' : v \in Recorded /\ v \notin Deleted
    BY <2>1 DEF Abandons, CountsAgain
  <2> QED BY <2>1, <2>2 DEF Counter!Unsettled
<1>3. ASSUME NEW b \in Buckets
      PROVE  Reportable(b)' = Reportable(b) + Cardinality({v \in Due' : Delta[v][b] = 1})
  <2>1. {v \in Due' : Delta[v][b] = 1} = {v \in Due' : BucketOf[v] = b}
    BY DeltaOfViews DEF Due, Aged
  <2> QED BY <2>1 DEF Abandons, CountsAgain
<1>4. totalBar' = [b \in Buckets |-> totalBar[b] + Cardinality({v \in Due' : Delta[v][b] = 1})]
  BY <1>3 DEF totalBar
<1>5. abandoned' = abandoned + 1
  BY DEF NoteAbandoned, Abandons
<1>6. \E again \in SUBSET (Counter!Unsettled \ Deleted') :
        totalBar' = [b \in Buckets |-> totalBar[b] + Cardinality({v \in again : Delta[v][b] = 1})]
  BY <1>2, <1>4, Zenon
<1> QED BY <1>1, <1>5, <1>6, SameCardinality, Zenon DEF Counter!Fail

\* Recording a request does not end a cycle.
LEMMA RecordsCounter ==
  ASSUME NEW r \in Requests, Records(r), NoteAbandoned
  PROVE  Counter!Record(r)
<1>1. abandoned' = abandoned
  BY DEF Records, NoteAbandoned, LeavesRowsDue
<1>2. totalBar' = [b \in Buckets |-> totalBar[b] + Delta[r][b]]
  BY DEF Records, totalBar
<1> QED BY <1>1, <1>2 DEF Counter!Record, Records

\* Whatever fails and wherever the cleaner is stopped or killed, the API and the
\* cleaner count every recorded view, and exactly once unless a cycle leaves
\* rows due: each such cycle adds at most the rows it leaves, never a deleted
\* one, and no step ever takes a view back.
THEOREM CyclesCount == ASSUME GraceSuffices PROVE CyclesSpec => CounterSpec
<1> DEFINE Inv == TypeOK /\ TimeInv /\ abandoned \in Nat
<1>1. CyclesInit => Inv
  BY TypeStart DEF CyclesInit, Init, TimeInv
<1>2. Inv /\ [Next /\ NoteAbandoned]_cycleVars => Inv'
  <2> SUFFICES ASSUME Inv, [Next /\ NoteAbandoned]_cycleVars PROVE Inv'
    OBVIOUS
  <2>1. [Next]_vars /\ abandoned' \in Nat
    BY AbandonedAssumption DEF cycleVars, NoteAbandoned
  <2> QED BY <2>1, TypeStep, TimeStep
<1>3. Inv /\ Inv' /\ [Next /\ NoteAbandoned]_cycleVars
        => [Counter!CounterNext]_Counter!counterVars
  <2> SUFFICES ASSUME Inv, Inv', [Next /\ NoteAbandoned]_cycleVars
               PROVE  [Counter!CounterNext]_Counter!counterVars
    OBVIOUS
  <2>1. CASE Next /\ NoteAbandoned
    <3>1. Keeps \/ Abandons \/ \E r \in Requests : Records(r)
      BY <2>1, GraceSuffices, GraceExcludesLateRows, StepAccount
    <3>2. CASE Keeps
      BY <2>1, <3>2, KeepsCounter, AbandonedAssumption DEF Counter!CounterNext
    <3>3. CASE Abandons
      BY <2>1, <3>3, AbandonsCounter DEF Counter!CounterNext
    <3>4. ASSUME NEW r \in Requests, Records(r) PROVE Counter!CounterNext
      BY <2>1, <3>4, RecordsCounter DEF Counter!CounterNext
    <3> QED BY <3>1, <3>2, <3>3, <3>4
  <2>2. CASE UNCHANGED cycleVars
    BY <2>2 DEF cycleVars, vars, Counter!counterVars, Recorded, Deleted, totalBar,
                Reportable, Pending, Aged
  <2> QED BY <2>1, <2>2
<1> HIDE DEF Inv
<1> QED BY <1>1, <1>2, <1>3, CounterStart, PTL DEF CyclesSpec, CounterSpec, Counter!CounterSpec
=============================================================================

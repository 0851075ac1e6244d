------------------------------- MODULE PrimePool -------------------------------
(***************************************************************************)
(* 03-large-scale-primality-test: the main thread cuts a file of integers, *)
(* one per line, into byte ranges of whole lines (chunk.ts) and hands them *)
(* to worker threads that count the primes in one range at a time          *)
(* (pool.ts, worker.ts).  A file is its size, the positions of its         *)
(* newlines and the number on each non-empty line.                         *)
(***************************************************************************)
EXTENDS Integers, Sequences, FiniteSets

CONSTANTS MaxSize,        \* bound on the file's size in bytes
          Numbers,        \* the numbers that occur in the file
          NumWorkers,     \* os.cpus().length
          ChunksPerCore,  \* CHUNKS_PER_CORE
          Faults          \* subset of {"read"}: a worker's stream fails

ASSUME PoolAssumption ==
  /\ MaxSize \in Nat /\ Numbers \subseteq Nat
  /\ NumWorkers \in Nat /\ ChunksPerCore \in Nat \ {0}
  /\ Faults \subseteq {"read"}

Workers == 1 .. NumWorkers

VARIABLES size, newlines, number,   \* the file, which does not change
          queue,    \* ranges not handed out yet
          chunk,    \* [Workers -> the range being counted, Idle or NoChunk]
          posted,   \* [Workers -> a count on its way to the main thread]
          total,    \* the sum so far
          live,     \* workers whose "exit" event has not been handled
          promise,  \* the pool's promise: "new", "pending", "failed", "resolved"
          result    \* what it resolved with

file == <<size, newlines, number>>
vars == <<file, queue, chunk, posted, total, live, promise, result>>

NoChunk == [start |-> 0, end |-> -1]
Terminated == [start |-> 0, end |-> -2]
Nothing == -1

-----------------------------------------------------------------------------
(* The file *)

\* Bytes at which a non-empty line starts.
LineStarts(n, nls) == {p \in 0 .. n - 1 : p \notin nls /\ (p = 0 \/ p - 1 \in nls)}

Bytes(r) == r.start .. r.end

\* The bytes of the line that starts at p, without its newline.
Line(p) == {q \in p .. size - 1 : \A m \in p .. q : m \notin newlines}

\* Trial division, `i * i <= n` over odd i.
isPrime(n) ==
  /\ n >= 2
  /\ n = 2 \/ (n % 2 # 0 /\ \A i \in 3 .. n : i % 2 = 1 /\ i * i <= n => n % i # 0)

\* What readline yields of a range: a segment starts at the range's first byte
\* and after each newline; one that is not a whole line of the file reads as
\* some other number.
Segments(r) ==
  {p \in Bytes(r) : p \notin newlines /\ (p = r.start \/ p - 1 \in newlines)}
WholeLines(r) == {p \in Segments(r) : p \in DOMAIN number /\ Line(p) \subseteq Bytes(r)}

countPrimesInRange(r) ==
  LET exact == Cardinality({p \in WholeLines(r) : isPrime(number[p])})
  IN  exact .. (exact + Cardinality(Segments(r) \ WholeLines(r)))

-----------------------------------------------------------------------------
(* chunk.ts *)

findNextLineStartUnscanned(position) == position

findNextLineStartPastEnd(position) ==
  LET later == {n \in newlines : n >= position}
  IN  IF later = {} THEN size + 1
      ELSE (CHOOSE n \in later : \A m \in later : n <= m) + 1

findNextLineStart(position) ==
  LET later == {n \in newlines : n >= position}
  IN  IF later = {} THEN size ELSE (CHOOSE n \in later : \A m \in later : n <= m) + 1

\* A k of 0 yields the same cuts as 1.
K == IF NumWorkers = 0 THEN 1 ELSE NumWorkers * ChunksPerCore

computeCutPoints ==
  [i \in 1 .. K + 1 |-> CASE i = 1     -> 0
                          [] i = K + 1 -> size
                          [] OTHER     -> findNextLineStart((size * (i - 1)) \div K)]

byteRangeExclusive(cuts, i) == [start |-> cuts[i], end |-> cuts[i + 1]]
byteRange(cuts, i) == [start |-> cuts[i], end |-> cuts[i + 1] - 1]

\* The ranges pushed in the first i rounds of the loop, by i.
rangesUpTo(cuts) ==
  LET ranges[i \in 0 .. K] ==
        IF i = 0 THEN <<>>
        ELSE IF cuts[i + 1] > cuts[i] THEN Append(ranges[i - 1], byteRange(cuts, i))
        ELSE ranges[i - 1]
  IN  ranges

rangesBetweenCuts(cuts) == rangesUpTo(cuts)[K]

computeChunkBoundaries == rangesBetweenCuts(computeCutPoints)

-----------------------------------------------------------------------------
(* pool.ts *)

Init ==
  /\ size \in 0 .. MaxSize
  /\ newlines \in SUBSET (0 .. size - 1)
  /\ number \in [LineStarts(size, newlines) -> Numbers]
  /\ queue = <<>> /\ chunk = [w \in Workers |-> NoChunk]
  /\ posted = [w \in Workers |-> Nothing]
  /\ total = 0 /\ live = Workers /\ promise = "new" /\ result = Nothing

runPoolIdling ==
  /\ promise = "new"
  /\ LET chunks == computeChunkBoundaries
     IN  /\ chunk' = [w \in Workers |-> IF w <= Len(chunks) THEN chunks[w] ELSE NoChunk]
         /\ queue' = SubSeq(chunks, NumWorkers + 1, Len(chunks))
  /\ promise' = "pending"
  /\ UNCHANGED <<file, posted, total, live, result>>

\* The ranges are cut and every worker is started and given its first one, or
\* terminated at once, before any event is handled.
runPool ==
  /\ promise = "new"
  /\ LET chunks == computeChunkBoundaries
     IN  /\ chunk' = [w \in Workers |-> IF w <= Len(chunks) THEN chunks[w] ELSE Terminated]
         /\ queue' = SubSeq(chunks, NumWorkers + 1, Len(chunks))
  /\ promise' = "pending"
  /\ UNCHANGED <<file, posted, total, live, result>>

\* The worker posts the count of its range.
CountRange(w) ==
  /\ promise = "pending"
  /\ chunk[w] \notin {NoChunk, Terminated}
  /\ \E n \in countPrimesInRange(chunk[w]) : posted' = [posted EXCEPT ![w] = n]
  /\ chunk' = [chunk EXCEPT ![w] = NoChunk]
  /\ UNCHANGED <<file, queue, total, live, promise, result>>

\* Its stream fails: the rejection is unhandled in the worker, the promise of
\* the pool rejects and run().catch ends the process.
FailRange(w) ==
  /\ "read" \in Faults
  /\ promise = "pending"
  /\ chunk[w] \notin {NoChunk, Terminated}
  /\ promise' = "failed"
  /\ UNCHANGED <<file, queue, chunk, posted, total, live, result>>

assignNextTerminating(w) == chunk' = [chunk EXCEPT ![w] = Terminated] /\ UNCHANGED queue

assignNext(w) ==
  IF queue = <<>>
  THEN chunk' = [chunk EXCEPT ![w] = Terminated] /\ UNCHANGED queue
  ELSE chunk' = [chunk EXCEPT ![w] = Head(queue)] /\ queue' = Tail(queue)

OnMessage(w) ==
  /\ promise = "pending"
  /\ posted[w] # Nothing
  /\ total' = total + posted[w]
  /\ posted' = [posted EXCEPT ![w] = Nothing]
  /\ assignNext(w)
  /\ UNCHANGED <<file, live, promise, result>>

OnExit(w) ==
  /\ promise = "pending"
  /\ chunk[w] = Terminated /\ w \in live
  /\ live' = live \ {w}
  /\ IF live = {w} THEN promise' = "resolved" /\ result' = total
                   ELSE UNCHANGED <<promise, result>>
  /\ UNCHANGED <<file, queue, chunk, posted, total>>

Settled == promise \in {"failed", "resolved"} /\ UNCHANGED vars

Next == \/ runPool \/ Settled
        \/ \E w \in Workers : CountRange(w) \/ FailRange(w) \/ OnMessage(w) \/ OnExit(w)

Spec == Init /\ [][Next]_vars

\* Threads run, and the event loop delivers their messages and exits.
FairSpec == /\ Spec /\ WF_vars(runPool)
            /\ \A w \in Workers : /\ WF_vars(CountRange(w)) /\ WF_vars(OnMessage(w))
                                  /\ WF_vars(OnExit(w))

-----------------------------------------------------------------------------
(* Properties *)

Ranges == [start : 0 .. size, end : -2 .. size - 1]

TypeOK ==
  /\ size \in 0 .. MaxSize /\ newlines \subseteq 0 .. size - 1
  /\ queue \in Seq(Ranges) /\ chunk \in [Workers -> Ranges]
  /\ posted \in [Workers -> {Nothing} \cup Nat] /\ total \in 0 .. size
  /\ live \subseteq Workers
  /\ promise \in {"new", "pending", "failed", "resolved"}
  /\ result \in {Nothing} \cup 0 .. size

\* A number is prime when it has exactly two divisors.
Prime(n) == Cardinality({d \in 1 .. n : n % d = 0}) = 2
PrimeCount == Cardinality({p \in DOMAIN number : Prime(number[p])})

\* The count the pool resolves with is the number of lines that are prime: no
\* line is counted by two workers, missed or cut in two at a range's end, and
\* no count is lost when a worker is terminated.
CountCorrect == promise = "resolved" => result = PrimeCount

\* "each containing only whole lines - no line is ever split across two ranges
\* or counted in both": the ranges are consecutive, cover the file, and end at
\* newlines.
ChunksAreWholeLines ==
  LET c == computeChunkBoundaries
  IN  /\ size > 0 => c # <<>> /\ c[1].start = 0 /\ c[Len(c)].end = size - 1
      /\ \A i \in 1 .. Len(c) - 1 : /\ c[i + 1].start = c[i].end + 1
                                    /\ c[i].end \in newlines

\* "no core sits idle": no worker is let go while a range waits.
NoIdleWorker == queue # <<>> => \A w \in Workers : chunk[w] # Terminated

\* The pool settles, unless there is no worker to run.
Resolves == <>(promise \in {"failed", "resolved"})
=============================================================================

--------------------------------- MODULE Dedup ---------------------------------
(***************************************************************************)
(* 01-large-scale-dedup: the input is partitioned into bucket files by a   *)
(* seeded hash (partition.ts); each bucket is either split again, under    *)
(* another seed, or read line by line against the set of lines seen in it  *)
(* (dedup.ts).  A file is a bag of lines: the order of its lines is never  *)
(* used.  The recursion of dedupBucket is a stack of directories, each     *)
(* with its bucket files and the next one to process; files before it have *)
(* been unlinked.                                                          *)
(***************************************************************************)
EXTENDS Integers, Sequences, FiniteSets

CONSTANTS Lines,              \* non-blank lines
          Bytes,              \* [Lines -> Nat]: length with its newline
          Hash,               \* [Lines -> [Seeds -> Nat]]: fnv1a
          MaxCopies,          \* bound on the copies of one line
          MaxBlank,           \* bound on the bytes of blank lines
          TargetBucketBytes,  \* TARGET_BUCKET_BYTES
          SafeLoadBytes,      \* SAFE_LOAD_BYTES
          MinBuckets,         \* MIN_BUCKETS
          MaxDepth,           \* MAX_RECURSION_DEPTH
          Faults              \* subset of {"io"}: a file operation fails

Seeds == 0 .. MaxDepth

ASSUME DedupAssumption ==
  /\ IsFiniteSet(Lines) /\ Bytes \in [Lines -> Nat \ {0}] /\ Hash \in [Lines -> [Seeds -> Nat]]
  /\ MaxCopies \in Nat /\ MaxBlank \in Nat /\ SafeLoadBytes \in Nat
  /\ TargetBucketBytes \in Nat \ {0} /\ MinBuckets \in Nat \ {0} /\ MaxDepth \in Nat
  /\ Faults \subseteq {"io"}

VARIABLES input,    \* the bag of lines of the input file, which does not change
          blank,    \* the bytes its blank lines add
          phase,    \* "start", "dedup", "done" or "failed"
          stack,    \* directories of bucket files, the innermost last
          loading,  \* a bucket is being read
          rest,     \* its lines not read yet
          seen,     \* the set of lines found in it
          output    \* the bag of lines written

file == <<input, blank>>
bucket == <<loading, rest, seen>>
vars == <<file, phase, stack, bucket, output>>

-----------------------------------------------------------------------------
(* primes.ts, partition.ts *)

isPrime(n) ==
  /\ n >= 2
  /\ n = 2 \/ (n % 2 # 0 /\ \A i \in 3 .. n : i % 2 = 1 /\ i * i <= n => n % i # 0)

\* There is one below twice its start.
nextPrime(n) ==
  LET from == IF n < 2 THEN 2 ELSE n
  IN  CHOOSE p \in from .. 2 * from : isPrime(p) /\ \A q \in from .. p - 1 : ~isPrime(q)

Empty == [l \in Lines |-> 0]

\* The sum of f over S, as the number of pairs of an l in S and one of 1 .. f[l].
Sum(f, S) == Cardinality(UNION {{l} \X (1 .. f[l]) : l \in S})
Size(bag) == Sum([l \in Lines |-> bag[l] * Bytes[l]], Lines)

\* The most bytes a file can have, and that there are primes for its buckets.
MaxFile == Size([l \in Lines |-> MaxCopies]) + MaxBlank
ASSUME PrimesAssumption == \A n \in 2 .. MaxFile + MinBuckets + 2 : \E p \in n .. 2 * n : isPrime(p)

computeBucketCount(size) ==
  LET raw == (size + TargetBucketBytes - 1) \div TargetBucketBytes
  IN  nextPrime(IF raw < MinBuckets THEN MinBuckets ELSE raw)

\* Each line goes to the file its hash names, with all its copies.
bucketOf(l, seed, n) == Hash[l][seed] % n

\* Lines dealt out in turn, for files of equal length.
partitionEvenly(bag, size, seed) ==
  LET n == computeBucketCount(size)
  IN  [i \in 0 .. n - 1 |-> [l \in Lines |-> (bag[l] + n - 1 - i) \div n]]

partitionFile(bag, size, seed) ==
  LET n == computeBucketCount(size)
  IN  [i \in 0 .. n - 1 |-> [l \in Lines |-> IF bucketOf(l, seed, n) = i THEN bag[l] ELSE 0]]

-----------------------------------------------------------------------------
(* index.ts, dedup.ts *)

Directory(files, seed, depth) ==
  [files |-> files, next |-> 0, seed |-> seed, depth |-> depth]
Count(d) == Cardinality(DOMAIN d.files)

Init ==
  /\ input \in [Lines -> 0 .. MaxCopies] /\ blank \in 0 .. MaxBlank
  /\ phase = "start" /\ stack = <<>>
  /\ loading = FALSE /\ rest = Empty /\ seen = {} /\ output = Empty

\* run: the first partition, under seed 0, into a fresh temporary directory.
PartitionInput ==
  /\ phase = "start"
  /\ phase' = "dedup"
  /\ stack' = <<Directory(partitionFile(input, Size(input) + blank, 0), 0, 0)>>
  /\ UNCHANGED <<file, bucket, output>>

top == stack[Len(stack)]
Bucket == top.files[top.next]
AtBucket == phase = "dedup" /\ ~loading /\ top.next < Count(top)

\* unlinkSync, and on to the next file of the loop.
Unlinked == [stack EXCEPT ![Len(stack)].next = @ + 1]

TooLarge == Size(Bucket) > SafeLoadBytes
MustSplit == TooLarge /\ top.depth < MaxDepth

SplitBucketWithoutDepth ==
  /\ AtBucket /\ MustSplit
  /\ stack' = Append(Unlinked,
       Directory(partitionFile(Bucket, Size(Bucket), top.seed + 1), top.seed + 1, 0))
  /\ UNCHANGED <<file, phase, bucket, output>>

SplitBucketUnderSameSeed ==
  /\ AtBucket /\ MustSplit
  /\ stack' = Append(Unlinked,
       Directory(partitionFile(Bucket, Size(Bucket), top.seed), top.seed, top.depth + 1))
  /\ UNCHANGED <<file, phase, bucket, output>>

SplitBucketKeepingIt ==
  /\ AtBucket /\ MustSplit
  /\ stack' = Append(stack,
       Directory(partitionFile(Bucket, Size(Bucket), top.seed + 1), top.seed + 1, top.depth + 1))
  /\ UNCHANGED <<file, phase, bucket, output>>

\* The bucket is replaced by sub-buckets under the next seed.
SplitBucket ==
  /\ AtBucket /\ MustSplit
  /\ stack' = Append(Unlinked,
       Directory(partitionFile(Bucket, Size(Bucket), top.seed + 1), top.seed + 1, top.depth + 1))
  /\ UNCHANGED <<file, phase, bucket, output>>

OpenOnlySmall ==
  /\ AtBucket /\ ~TooLarge
  /\ loading' = TRUE /\ rest' = Bucket /\ seen' = {}
  /\ UNCHANGED <<file, phase, stack, output>>

OpenBucket ==
  /\ AtBucket /\ ~MustSplit
  /\ loading' = TRUE /\ rest' = Bucket /\ seen' = {}
  /\ UNCHANGED <<file, phase, stack, output>>

ReadLine(l) ==
  /\ phase = "dedup" /\ loading /\ rest[l] > 0
  /\ rest' = [rest EXCEPT ![l] = @ - 1]
  /\ seen' = seen \cup {l}
  /\ output' = IF l \in seen THEN output ELSE [output EXCEPT ![l] = @ + 1]
  /\ UNCHANGED <<file, phase, stack, loading>>

CloseBucket ==
  /\ phase = "dedup" /\ loading /\ rest = Empty
  /\ loading' = FALSE /\ seen' = {} /\ stack' = Unlinked
  /\ UNCHANGED <<file, phase, rest, output>>

\* The loop over a directory's files is over: rmdirSync, and back to the
\* caller; run ends the output before it removes the outermost directory.
LeaveDirectory ==
  /\ phase = "dedup" /\ ~loading /\ top.next = Count(top)
  /\ stack' = SubSeq(stack, 1, Len(stack) - 1)
  /\ phase' = IF Len(stack) = 1 THEN "done" ELSE phase
  /\ UNCHANGED <<file, bucket, output>>

\* An error of any file or stream ends the process; the files stay.
FailIo ==
  /\ "io" \in Faults /\ phase \in {"start", "dedup"}
  /\ phase' = "failed"
  /\ UNCHANGED <<file, stack, bucket, output>>

Work == \/ PartitionInput \/ SplitBucket \/ OpenBucket \/ CloseBucket \/ LeaveDirectory
        \/ \E l \in Lines : ReadLine(l)
Next == Work \/ FailIo

Spec == Init /\ [][Next]_vars

\* The program is one chain of awaits: it goes on as long as files work.
FairSpec == Spec /\ WF_vars(Work)

-----------------------------------------------------------------------------
(* Properties *)

Bags == [Lines -> 0 .. MaxCopies]

TypeOK ==
  /\ input \in Bags /\ blank \in 0 .. MaxBlank /\ rest \in Bags /\ output \in [Lines -> Nat]
  /\ phase \in {"start", "dedup", "done", "failed"} /\ loading \in BOOLEAN
  /\ seen \subseteq Lines
  /\ \A d \in 1 .. Len(stack) :
       /\ stack[d].depth = d - 1 /\ stack[d].depth <= MaxDepth /\ stack[d].seed \in Seeds
       /\ \A i \in DOMAIN stack[d].files : stack[d].files[i] \in Bags
       /\ Count(stack[d]) > 0 /\ DOMAIN stack[d].files = 0 .. Count(stack[d]) - 1
       /\ stack[d].next \in 0 .. Count(stack[d])
  /\ phase = "dedup" => stack # <<>> /\ (loading => top.next < Count(top))

\* Bucket files not unlinked that hold a line.
Places(l) == {p \in UNION {{d} \X DOMAIN stack[d].files : d \in 1 .. Len(stack)} :
                p[2] >= stack[p[1]].next /\ stack[p[1]].files[p[2]][l] > 0}

\* "two identical lines always land in the same bucket": however deep buckets
\* are split, the copies of a line are in one file, which has them all, until
\* the line is written, and in none afterwards.
LinesTogether ==
  phase \in {"dedup", "done"} => \A l \in Lines :
    \/ Places(l) = {} /\ (input[l] > 0 <=> output[l] > 0)
    \/ \E p \in Places(l) :
         /\ Places(l) = {p} /\ stack[p[1]].files[p[2]][l] = input[l]
         /\ (output[l] > 0 <=> (loading /\ p = <<Len(stack), top.next>> /\ l \in seen))

\* "a new seed spreads them out differently": what is held in memory exceeds
\* SAFE_LOAD_BYTES only for lines that no seed tried has told apart, and only
\* after MAX_RECURSION_DEPTH of them.
MemoryBounded ==
  loading /\ Sum(Bytes, seen) > SafeLoadBytes =>
    /\ top.depth = MaxDepth
    /\ \A l, m \in seen : \A d \in 1 .. Len(stack) :
         bucketOf(l, d - 1, Count(stack[d])) = bucketOf(m, d - 1, Count(stack[d]))

\* The program implements UniqueLines: each distinct line is written once, and
\* all of them by the time it ends without an error.
Unique == INSTANCE UniqueLines WITH finished <- phase = "done"
UniqueSpec == Unique!UniqueSpec

\* Splitting ends, also for a bucket that no seed makes smaller: the program
\* ends, whatever the input.
Ends == <>(phase \in {"done", "failed"})
=============================================================================

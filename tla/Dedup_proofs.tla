----------------------------- MODULE Dedup_proofs -----------------------------
(***************************************************************************)
(* Proofs about Dedup, for every value of the constants.                   *)
(***************************************************************************)
EXTENDS Dedup, FiniteSetTheorems, SequenceTheorems, WellFoundedInduction, TLAPS

-----------------------------------------------------------------------------
(* Sums: Sum(f, S) counts pairs.                                           *)

Pairs(f, S) == UNION {{l} \X (1 .. f[l]) : l \in S}

LEMMA PairsFinite ==
  ASSUME NEW f \in [Lines -> Nat], NEW S \in SUBSET Lines
  PROVE  IsFiniteSet(Pairs(f, S))
<1> DEFINE Row(l) == {l} \X (1 .. f[l])
           Rows == {Row(l) : l \in S}
           g == [l \in S |-> Row(l)]
<1>1. IsFiniteSet(Rows)
  <2>1. g \in Surjection(S, Rows)
    BY DEF Surjection
  <2>2. IsFiniteSet(S)
    BY FS_Subset, DedupAssumption
  <2> HIDE DEF g, Rows
  <2> QED
    BY <2>1, <2>2, FS_Surjection
<1>2. \A R \in Rows : IsFiniteSet(R)
  <2> SUFFICES ASSUME NEW l \in S PROVE IsFiniteSet({l} \X (1 .. f[l]))
    OBVIOUS
  <2>1. IsFiniteSet({l})
    BY FS_Singleton
  <2>2. IsFiniteSet(1 .. f[l])
    BY FS_Interval
  <2> QED
    BY <2>1, <2>2, FS_Product
<1>3. Pairs(f, S) = UNION Rows
  BY DEF Pairs
<1> HIDE DEF Rows
<1> QED
  BY <1>1, <1>2, <1>3, FS_UNION

LEMMA SumType ==
  ASSUME NEW f \in [Lines -> Nat], NEW S \in SUBSET Lines
  PROVE  Sum(f, S) \in Nat
BY PairsFinite, FS_CardinalityType DEF Sum, Pairs

\* A sum over fewer lines of smaller numbers is smaller.
LEMMA SumMonotone ==
  ASSUME NEW f \in [Lines -> Nat], NEW g \in [Lines -> Nat],
         NEW S \in SUBSET Lines, NEW T \in SUBSET Lines,
         S \subseteq T, \A l \in S : f[l] <= g[l]
  PROVE  Sum(f, S) <= Sum(g, T)
<1>1. Pairs(f, S) \subseteq Pairs(g, T)
  BY DEF Pairs
<1>2. IsFiniteSet(Pairs(g, T))
  BY PairsFinite
<1> QED
  BY <1>1, <1>2, FS_Subset DEF Sum, Pairs

LEMMA Weight ==
  ASSUME NEW bag \in [Lines -> Nat]
  PROVE  [l \in Lines |-> bag[l] * Bytes[l]] \in [Lines -> Nat]
BY DedupAssumption

LEMMA SizeType ==
  ASSUME NEW bag \in Bags
  PROVE  Size(bag) \in Nat /\ Size(bag) <= Size([l \in Lines |-> MaxCopies])
<1> DEFINE full == [l \in Lines |-> MaxCopies]
           f == [l \in Lines |-> bag[l] * Bytes[l]]
           g == [l \in Lines |-> full[l] * Bytes[l]]
<1>1. bag \in [Lines -> Nat] /\ full \in [Lines -> Nat]
  BY DedupAssumption DEF Bags
<1>2. f \in [Lines -> Nat] /\ g \in [Lines -> Nat]
  BY <1>1, Weight
<1>3. \A l \in Lines : f[l] <= g[l]
  <2> TAKE l \in Lines
  <2>1. bag[l] \in Nat /\ bag[l] <= MaxCopies /\ Bytes[l] \in Nat /\ MaxCopies \in Nat
    BY DedupAssumption DEF Bags
  <2>2. \A x, y, z \in Nat : x <= y => x * z <= y * z
    OBVIOUS
  <2> QED
    BY <2>1, <2>2
<1>4. Sum(f, Lines) \in Nat /\ Sum(f, Lines) <= Sum(g, Lines)
  <2> HIDE DEF f, g, full
  <2> QED
    BY <1>2, <1>3, SumType, SumMonotone
<1> QED
  BY <1>4 DEF Size

-----------------------------------------------------------------------------
(* The number of buckets.                                                  *)

\* Every non-empty set of natural numbers has a least element.
LEMMA Least ==
  ASSUME NEW S \in SUBSET Nat, S # {}
  PROVE  \E n \in S : \A m \in S : n <= m
<1> DEFINE R == OpToRel(<, Nat)
<1>1. IsWellFoundedOn(R, Nat) /\ R = {ss \in Nat \X Nat : ss[1] < ss[2]}
  BY NatLessThanWellFounded DEF OpToRel
<1>2. PICK n \in S : \A y \in S : ~ (<<y, n>> \in R)
  <2> HIDE DEF R
  <2> QED
    BY <1>1, WFMin
<1>3. \A m \in S : m < n => <<m, n>> \in R
  BY <1>1
<1>4. \A m \in S : ~(m < n)
  BY <1>2, <1>3
<1>5. \A m \in S : n <= m
  <2> HIDE DEF R
  <2> QED
    BY <1>4
<1> QED
  BY <1>5

LEMMA CeilingSmall ==
  ASSUME NEW size \in Nat, NEW T \in Nat \ {0}
  PROVE  (size + T - 1) \div T \in 0 .. size
<1> DEFINE q == (size + T - 1) \div T
<1>1. q \in Int /\ T * q <= size + T - 1 /\ size + T - 1 < T * q + T
  OBVIOUS
<1>2. 0 <= q
  BY <1>1
<1>3. q <= size
  <2> SUFFICES ASSUME q >= size + 1 PROVE FALSE
    BY <1>1
  <2>1. T * q >= T * (size + 1)
    BY <1>1
  <2>2. T * (size + 1) = T * size + T /\ T * size >= size
    OBVIOUS
  <2> QED
    BY <1>1, <2>1, <2>2
<1> QED
  BY <1>1, <1>2, <1>3

LEMMA BucketCountType ==
  ASSUME NEW size \in 0 .. MaxFile, MaxFile \in Nat
  PROVE  computeBucketCount(size) \in Nat \ {0}
<1> DEFINE raw == (size + TargetBucketBytes - 1) \div TargetBucketBytes
           n == IF raw < MinBuckets THEN MinBuckets ELSE raw
           from == IF n < 2 THEN 2 ELSE n
           S == {p \in from .. 2 * from : isPrime(p)}
<1>1. size \in Nat /\ TargetBucketBytes \in Nat \ {0} /\ MinBuckets \in Nat \ {0}
  BY DedupAssumption
<1>2. raw \in 0 .. size
  BY <1>1, CeilingSmall
<1>3. from \in 2 .. MaxFile + MinBuckets + 2
  <2> HIDE DEF raw
  <2> QED
    BY <1>1, <1>2
<1> HIDE DEF n, from
<1>4. S # {} /\ S \in SUBSET Nat
  BY <1>3, PrimesAssumption
<1>5. PICK p \in S : \A m \in S : p <= m
  BY <1>4, Least
<1>6. /\ p \in from .. 2 * from /\ isPrime(p)
      /\ \A q \in from .. p - 1 : ~isPrime(q)
  <2>1. p \in from .. 2 * from /\ isPrime(p) /\ from \in Nat
    BY <1>3
  <2>2. ASSUME NEW q \in from .. p - 1, isPrime(q) PROVE FALSE
    BY <1>5, <2>1, <2>2
  <2> QED
    BY <2>1, <2>2
<1>7. nextPrime(n) \in from .. 2 * from
  BY <1>6, Zenon DEF nextPrime, from
<1>8. computeBucketCount(size) = nextPrime(n)
  BY Zenon DEF computeBucketCount, n
<1> QED
  BY <1>3, <1>7, <1>8

-----------------------------------------------------------------------------
(* Directories and the stack                                               *)

DirType == [files : UNION {[0 .. n - 1 -> Bags] : n \in Nat \ {0}},
            next : Nat, seed : Nat, depth : Nat]

\* The stack s, as the recursion leaves it: the d-th directory holds the buckets
\* of a split at depth d - 1 under seed d - 1.
Nested(s) ==
  /\ s \in Seq(DirType)
  /\ \A d \in 1 .. Len(s) : /\ s[d].depth = d - 1 /\ s[d].seed = d - 1
                            /\ d - 1 <= MaxDepth /\ s[d].next <= Count(s[d])

LEMMA CountIs ==
  ASSUME NEW n \in Nat
  PROVE  Cardinality(0 .. n - 1) = n
<1>1. 0 \in Int /\ n - 1 \in Int
  OBVIOUS
<1>2. Cardinality(0 .. n - 1) = IF 0 > n - 1 THEN 0 ELSE (n - 1) - 0 + 1
  BY <1>1, FS_Interval, Zenon
<1> QED
  BY <1>2

LEMMA DirTyped ==
  ASSUME NEW d \in DirType
  PROVE  /\ Count(d) \in Nat \ {0}
         /\ DOMAIN d.files = 0 .. Count(d) - 1
         /\ d.files \in [0 .. Count(d) - 1 -> Bags]
         /\ d.next \in Nat /\ d.seed \in Nat /\ d.depth \in Nat
<1>1. PICK n \in Nat \ {0} : d.files \in [0 .. n - 1 -> Bags]
  BY DEF DirType
<1>2. Count(d) = n
  BY <1>1, CountIs DEF Count
<1> QED
  BY <1>1, <1>2 DEF DirType

LEMMA NestedTyped ==
  ASSUME NEW s, Nested(s), NEW d \in 1 .. Len(s)
  PROVE  /\ s[d] \in DirType
         /\ Count(s[d]) \in Nat \ {0}
         /\ DOMAIN s[d].files = 0 .. Count(s[d]) - 1
         /\ s[d].files \in [0 .. Count(s[d]) - 1 -> Bags]
         /\ s[d].next \in 0 .. Count(s[d])
         /\ s[d].depth = d - 1 /\ s[d].seed = d - 1 /\ d - 1 <= MaxDepth
<1>1. s[d] \in DirType
  BY ElementOfSeq DEF Nested
<1> QED
  BY <1>1, DirTyped DEF Nested

\* What a split makes of a bag: a directory whose only file with l is the one
\* the hash of l names, and it has all of them.
LEMMA PartitionFile ==
  ASSUME NEW bag \in Bags, NEW size \in 0 .. MaxFile, NEW seed \in Seeds,
         NEW dir, dir = Directory(partitionFile(bag, size, seed), seed, seed)
  PROVE  /\ dir \in DirType /\ dir.next = 0 /\ dir.seed = seed /\ dir.depth = seed
         /\ Count(dir) \in Nat \ {0}
         /\ \A l \in Lines : /\ bucketOf(l, seed, Count(dir)) \in 0 .. Count(dir) - 1
                             /\ \A i \in 0 .. Count(dir) - 1 : dir.files[i][l] =
                                  IF i = bucketOf(l, seed, Count(dir)) THEN bag[l] ELSE 0
<1> DEFINE n == computeBucketCount(size)
           files == partitionFile(bag, size, seed)
<1>0. MaxFile \in Nat
  BY SizeType, DedupAssumption DEF MaxFile, Bags
<1>1. n \in Nat \ {0}
  BY <1>0, BucketCountType
<1>2. files = [i \in 0 .. n - 1 |-> [l \in Lines |->
                 IF bucketOf(l, seed, n) = i THEN bag[l] ELSE 0]]
  BY DEF partitionFile
<1> HIDE DEF n, files
<1>3. files \in [0 .. n - 1 -> Bags]
  BY <1>2, DedupAssumption DEF Bags
<1>4. dir = [files |-> files, next |-> 0, seed |-> seed, depth |-> seed]
  BY DEF Directory, files
<1>5. seed \in Nat
  BY DedupAssumption DEF Seeds
<1>6. dir \in DirType
  BY <1>1, <1>3, <1>4, <1>5 DEF DirType
<1>7. Count(dir) = n
  BY <1>1, <1>3, <1>4, CountIs DEF Count
<1>8. ASSUME NEW l \in Lines
      PROVE  bucketOf(l, seed, n) \in 0 .. n - 1
  <2>1. Hash[l][seed] \in Nat
    BY DedupAssumption
  <2> QED
    BY <1>1, <2>1 DEF bucketOf
<1>9. ASSUME NEW l \in Lines, NEW i \in 0 .. n - 1
      PROVE  dir.files[i][l] = IF i = bucketOf(l, seed, n) THEN bag[l] ELSE 0
  BY <1>2, <1>4
<1> QED
  BY <1>1, <1>4, <1>6, <1>7, <1>8, <1>9

\* The stack after a file of its last directory is unlinked.
LEMMA UnlinkedIs ==
  ASSUME Nested(stack), stack # <<>>, top.next < Count(top)
  PROVE  /\ Nested(Unlinked) /\ Len(Unlinked) = Len(stack) /\ Len(stack) \in Nat \ {0}
         /\ \A d \in 1 .. Len(stack) :
              /\ Unlinked[d].files = stack[d].files
              /\ Unlinked[d].next = IF d = Len(stack) THEN stack[d].next + 1 ELSE stack[d].next
<1> DEFINE n == Len(stack)
           new == [stack[n] EXCEPT !.next = @ + 1]
<1>1. n \in Nat \ {0} /\ stack \in Seq(DirType)
  BY EmptySeq DEF Nested
<1>2. stack[n] \in DirType /\ stack[n].next < Count(stack[n])
  BY <1>1, NestedTyped DEF top
<1>3. /\ new \in DirType /\ new.files = stack[n].files /\ new.next = stack[n].next + 1
      /\ new.seed = stack[n].seed /\ new.depth = stack[n].depth
  BY <1>2, SMTT(20) DEF DirType
<1>4. Unlinked = [stack EXCEPT ![n] = new]
  BY DEF Unlinked
<1> HIDE DEF n, new
<1>5. /\ Unlinked \in Seq(DirType) /\ Len(Unlinked) = n
      /\ \A d \in 1 .. n : Unlinked[d] = IF d = n THEN new ELSE stack[d]
  BY <1>1, <1>3, <1>4, ExceptSeq DEF n
<1>6. Count(new) = Count(stack[n])
  BY <1>3 DEF Count
<1>7. Nested(Unlinked)
  <2> SUFFICES ASSUME NEW d \in 1 .. n
               PROVE  /\ Unlinked[d].depth = d - 1 /\ Unlinked[d].seed = d - 1
                      /\ d - 1 <= MaxDepth /\ Unlinked[d].next <= Count(Unlinked[d])
    BY <1>5 DEF Nested
  <2>1. /\ stack[d].depth = d - 1 /\ stack[d].seed = d - 1
        /\ d - 1 <= MaxDepth /\ stack[d].next <= Count(stack[d])
    BY DEF Nested, n
  <2>2. CASE d = n
    <3>1. Unlinked[d] = new
      BY <1>5, <2>2
    <3>2. stack[n].next + 1 <= Count(stack[n])
      BY <1>1, <1>2, NestedTyped DEF n
    <3> QED
      BY <1>3, <1>6, <2>1, <2>2, <3>1, <3>2
  <2>3. CASE d # n
    BY <1>5, <2>1, <2>3
  <2> QED
    BY <2>2, <2>3
<1> QED
  BY <1>1, <1>3, <1>5, <1>7 DEF n

\* The stack after a directory d is added.
LEMMA Pushed ==
  ASSUME NEW s, Nested(s), NEW dir \in DirType, Len(s) <= MaxDepth,
         dir.depth = Len(s), dir.seed = Len(s), dir.next = 0
  PROVE  /\ Nested(Append(s, dir)) /\ Len(Append(s, dir)) = Len(s) + 1
         /\ \A d \in 1 .. Len(s) : Append(s, dir)[d] = s[d]
         /\ Append(s, dir)[Len(s) + 1] = dir
<1>1. /\ Append(s, dir) \in Seq(DirType) /\ Len(Append(s, dir)) = Len(s) + 1
      /\ \A d \in 1 .. Len(s) : Append(s, dir)[d] = s[d]
      /\ Append(s, dir)[Len(s) + 1] = dir
      /\ Len(s) \in Nat
  BY AppendProperties, LenProperties DEF Nested
<1>2. 0 <= Count(dir)
  BY DirTyped
<1>3. ASSUME NEW d \in 1 .. Len(s) + 1, NEW r, r = Append(s, dir)[d]
      PROVE  r.depth = d - 1 /\ r.seed = d - 1 /\ d - 1 <= MaxDepth /\ r.next <= Count(r)
  <2>1. CASE d = Len(s) + 1
    BY <1>1, <1>2, <1>3, <2>1
  <2>2. CASE d # Len(s) + 1
    <3>1. d \in 1 .. Len(s) /\ r = s[d]
      BY <1>1, <1>3, <2>2
    <3> QED
      BY <3>1 DEF Nested
  <2> QED
    BY <2>1, <2>2
<1> QED
  BY <1>1, <1>3 DEF Nested

\* The stack after its last directory is left.
LEMMA Left ==
  ASSUME Nested(stack), stack # <<>>, NEW s, s = SubSeq(stack, 1, Len(stack) - 1)
  PROVE  /\ Nested(s) /\ Len(s) = Len(stack) - 1 /\ Len(stack) \in Nat \ {0}
         /\ \A d \in 1 .. Len(s) : s[d] = stack[d]
         /\ Len(stack) = 1 => s = <<>>
         /\ Len(stack) # 1 => s # <<>>
<1>1. Len(stack) \in Nat \ {0} /\ stack \in Seq(DirType)
  BY EmptySeq DEF Nested
<1>2. PICK n \in Int : n = Len(stack) - 1
  BY <1>1, SMTT(20)
<1>3. \A d \in 1 .. n : stack[d] \in DirType
  BY <1>1, <1>2, NestedTyped
<1>4. /\ s \in Seq(DirType) /\ Len(s) = n
      /\ \A d \in 1 .. n : s[d] = stack[d]
  <2>1. s = SubSeq(stack, 1, n) /\ 1 \in Int
    BY <1>2
  <2>2. /\ s \in Seq(DirType)
        /\ Len(s) = IF 1 <= n THEN n - 1 + 1 ELSE 0
        /\ \A d \in 1 .. n - 1 + 1 : s[d] = stack[1 + d - 1]
    BY <1>3, <2>1, SubSeqProperties
  <2> QED
    BY <1>1, <1>2, <2>2
<1>5. Nested(s)
  <2> SUFFICES ASSUME NEW d \in 1 .. Len(s)
               PROVE  /\ s[d].depth = d - 1 /\ s[d].seed = d - 1
                      /\ d - 1 <= MaxDepth /\ s[d].next <= Count(s[d])
    BY <1>4 DEF Nested
  <2>1. s[d] = stack[d] /\ d \in 1 .. Len(stack)
    BY <1>1, <1>2, <1>4
  <2> QED
    BY <2>1 DEF Nested
<1>6. (Len(stack) = 1 => s = <<>>) /\ (Len(stack) # 1 => s # <<>>)
  <2>1. s # <<>> => Len(s) \in Nat \ {0}
    BY <1>4, EmptySeq
  <2>2. s = <<>> => Len(s) = 0
    BY EmptySeq
  <2> QED
    BY <1>1, <1>2, <1>4, <2>1, <2>2
<1> QED
  BY <1>1, <1>2, <1>4, <1>5, <1>6

-----------------------------------------------------------------------------
(* Type correctness                                                        *)

Types ==
  /\ input \in Bags /\ blank \in 0 .. MaxBlank /\ rest \in Bags /\ output \in [Lines -> Nat]
  /\ phase \in {"start", "dedup", "done", "failed"} /\ loading \in BOOLEAN
  /\ seen \subseteq Lines
  /\ Nested(stack)
  /\ phase = "start" => stack = <<>> /\ ~loading /\ output = Empty
  /\ phase = "dedup" => stack # <<>>
  /\ phase = "done" => stack = <<>>
  /\ loading => stack # <<>> /\ top.next < Count(top)

LEMMA EmptyBag == Empty \in Bags /\ Empty \in [Lines -> Nat]
BY DedupAssumption DEF Empty, Bags

LEMMA TopTyped ==
  ASSUME Types, stack # <<>>
  PROVE  /\ Len(stack) \in Nat \ {0} /\ top = stack[Len(stack)]
         /\ Count(top) \in Nat \ {0} /\ top.next \in 0 .. Count(top)
         /\ top.depth = Len(stack) - 1 /\ top.seed = Len(stack) - 1
         /\ Len(stack) - 1 <= MaxDepth
         /\ top.next < Count(top) => Bucket \in Bags
<1>1. Len(stack) \in Nat \ {0} /\ Nested(stack)
  BY EmptySeq DEF Types, Nested
<1>2. /\ Count(stack[Len(stack)]) \in Nat \ {0}
      /\ stack[Len(stack)].files \in [0 .. Count(stack[Len(stack)]) - 1 -> Bags]
      /\ stack[Len(stack)].next \in 0 .. Count(stack[Len(stack)])
      /\ stack[Len(stack)].depth = Len(stack) - 1 /\ stack[Len(stack)].seed = Len(stack) - 1
      /\ Len(stack) - 1 <= MaxDepth
  BY <1>1, NestedTyped
<1> QED
  BY <1>1, <1>2 DEF top, Bucket

\* The first partition makes a stack of one directory.
LEMMA PartitionEffect ==
  ASSUME Types, PartitionInput,
         NEW dir, dir = Directory(partitionFile(input, Size(input) + blank, 0), 0, 0)
  PROVE  /\ stack' = <<dir>> /\ Nested(stack') /\ dir \in DirType
         /\ dir.next = 0 /\ Count(dir) \in Nat \ {0}
         /\ \A l \in Lines : /\ bucketOf(l, 0, Count(dir)) \in 0 .. Count(dir) - 1
                             /\ \A i \in 0 .. Count(dir) - 1 : dir.files[i][l] =
                                  IF i = bucketOf(l, 0, Count(dir)) THEN input[l] ELSE 0
<1>1. input \in Bags /\ blank \in 0 .. MaxBlank /\ MaxBlank \in Nat
  BY DedupAssumption DEF Types
<1>2. Size(input) \in Nat /\ Size(input) <= Size([l \in Lines |-> MaxCopies])
  BY <1>1, SizeType
<1>3. Size([l \in Lines |-> MaxCopies]) \in Nat
  BY SizeType, DedupAssumption DEF Bags
<1>4. Size(input) + blank \in 0 .. MaxFile
  BY <1>1, <1>2, <1>3 DEF MaxFile
<1>5. 0 \in Seeds
  BY DedupAssumption DEF Seeds
<1>6. /\ dir \in DirType /\ dir.next = 0 /\ dir.seed = 0 /\ dir.depth = 0
      /\ Count(dir) \in Nat \ {0}
      /\ \A l \in Lines : /\ bucketOf(l, 0, Count(dir)) \in 0 .. Count(dir) - 1
                          /\ \A i \in 0 .. Count(dir) - 1 : dir.files[i][l] =
                               IF i = bucketOf(l, 0, Count(dir)) THEN input[l] ELSE 0
  BY <1>1, <1>4, <1>5, PartitionFile
<1>7. stack' = <<dir>>
  BY DEF PartitionInput
<1>8. Nested(<<dir>>)
  BY <1>6, DedupAssumption DEF Nested
<1> QED
  BY <1>6, <1>7, <1>8

\* A split unlinks the bucket and adds a directory with its lines.
LEMMA SplitEffect ==
  ASSUME Types, SplitBucket,
         NEW dir, dir = Directory(partitionFile(Bucket, Size(Bucket), top.seed + 1),
                                  top.seed + 1, top.depth + 1)
  PROVE  /\ stack # <<>> /\ Bucket \in Bags /\ top.next < Count(top) /\ ~loading
         /\ Nested(stack') /\ Len(stack') = Len(stack) + 1
         /\ \A d \in 1 .. Len(stack) :
              /\ stack'[d].files = stack[d].files
              /\ stack'[d].next = IF d = Len(stack) THEN stack[d].next + 1 ELSE stack[d].next
         /\ stack'[Len(stack) + 1] = dir
         /\ dir \in DirType /\ dir.next = 0 /\ Count(dir) \in Nat \ {0}
         /\ \A l \in Lines :
              /\ bucketOf(l, Len(stack), Count(dir)) \in 0 .. Count(dir) - 1
              /\ \A i \in 0 .. Count(dir) - 1 : dir.files[i][l] =
                   IF i = bucketOf(l, Len(stack), Count(dir)) THEN Bucket[l] ELSE 0
<1>1. stack # <<>> /\ ~loading /\ top.next < Count(top) /\ top.depth < MaxDepth
  BY DEF SplitBucket, AtBucket, MustSplit, Types
<1>2. /\ Len(stack) \in Nat \ {0} /\ Bucket \in Bags
      /\ top.depth = Len(stack) - 1 /\ top.seed = Len(stack) - 1
  BY <1>1, TopTyped
<1>3. Len(stack) \in Seeds /\ Len(stack) <= MaxDepth
  BY <1>1, <1>2, DedupAssumption DEF Seeds
<1>4. Size(Bucket) \in 0 .. MaxFile
  <2>1. Size(Bucket) \in Nat /\ Size(Bucket) <= Size([l \in Lines |-> MaxCopies])
    BY <1>2, SizeType
  <2>2. Size([l \in Lines |-> MaxCopies]) \in Nat
    BY SizeType, DedupAssumption DEF Bags
  <2> QED
    BY <2>1, <2>2, DedupAssumption DEF MaxFile
<1>5. top.seed + 1 = Len(stack) /\ top.depth + 1 = Len(stack)
  BY <1>2
<1>6. /\ dir \in DirType /\ dir.next = 0 /\ dir.seed = Len(stack) /\ dir.depth = Len(stack)
      /\ Count(dir) \in Nat \ {0}
      /\ \A l \in Lines :
           /\ bucketOf(l, Len(stack), Count(dir)) \in 0 .. Count(dir) - 1
           /\ \A i \in 0 .. Count(dir) - 1 : dir.files[i][l] =
                IF i = bucketOf(l, Len(stack), Count(dir)) THEN Bucket[l] ELSE 0
  <2>1. dir = Directory(partitionFile(Bucket, Size(Bucket), Len(stack)), Len(stack), Len(stack))
    BY <1>5
  <2> QED
    BY <1>2, <1>3, <1>4, <2>1, PartitionFile
<1>7. stack' = Append(Unlinked, dir)
  BY DEF SplitBucket
<1>8. /\ Nested(Unlinked) /\ Len(Unlinked) = Len(stack)
      /\ \A d \in 1 .. Len(stack) :
           /\ Unlinked[d].files = stack[d].files
           /\ Unlinked[d].next = IF d = Len(stack) THEN stack[d].next + 1 ELSE stack[d].next
  BY <1>1, UnlinkedIs DEF Types
<1>9. /\ Nested(Append(Unlinked, dir)) /\ Len(Append(Unlinked, dir)) = Len(Unlinked) + 1
      /\ \A d \in 1 .. Len(Unlinked) : Append(Unlinked, dir)[d] = Unlinked[d]
      /\ Append(Unlinked, dir)[Len(Unlinked) + 1] = dir
  BY <1>3, <1>6, <1>8, Pushed
<1> HIDE DEF Unlinked
<1>10. /\ Nested(stack') /\ Len(stack') = Len(stack) + 1
       /\ \A d \in 1 .. Len(stack) : stack'[d] = Unlinked[d]
       /\ stack'[Len(stack) + 1] = dir
  BY <1>7, <1>8, <1>9
<1>11. \A d \in 1 .. Len(stack) :
         /\ stack'[d].files = stack[d].files
         /\ stack'[d].next = IF d = Len(stack) THEN stack[d].next + 1 ELSE stack[d].next
  BY <1>8, <1>10
<1> QED
  BY <1>1, <1>2, <1>6, <1>10, <1>11

LEMMA CloseEffect ==
  ASSUME Types, CloseBucket
  PROVE  /\ stack # <<>> /\ top.next < Count(top) /\ loading /\ Len(stack) \in Nat \ {0}
         /\ Nested(stack') /\ Len(stack') = Len(stack)
         /\ \A d \in 1 .. Len(stack) :
              /\ stack'[d].files = stack[d].files
              /\ stack'[d].next = IF d = Len(stack) THEN stack[d].next + 1 ELSE stack[d].next
<1>1. stack # <<>> /\ top.next < Count(top) /\ loading /\ Nested(stack)
  BY DEF CloseBucket, Types
<1>2. stack' = Unlinked
  BY DEF CloseBucket
<1> QED
  BY <1>1, <1>2, UnlinkedIs

LEMMA LeaveEffect ==
  ASSUME Types, LeaveDirectory
  PROVE  /\ stack # <<>> /\ top.next = Count(top) /\ ~loading /\ Len(stack) \in Nat \ {0}
         /\ Nested(stack') /\ Len(stack') = Len(stack) - 1
         /\ \A d \in 1 .. Len(stack') : stack'[d] = stack[d]
         /\ Len(stack) = 1 => stack' = <<>> /\ phase' = "done"
         /\ Len(stack) # 1 => stack' # <<>> /\ phase' = "dedup"
<1>1. stack # <<>> /\ top.next = Count(top) /\ ~loading /\ Nested(stack) /\ phase = "dedup"
  BY DEF LeaveDirectory, Types
<1>2. stack' = SubSeq(stack, 1, Len(stack) - 1)
  BY DEF LeaveDirectory
<1> QED
  BY <1>1, <1>2, Left DEF LeaveDirectory

LEMMA TypesInit == Init => Types
<1> SUFFICES ASSUME Init PROVE Types
  OBVIOUS
<1>1. Nested(<<>>)
  BY EmptySeq DEF Nested
<1>2. stack = <<>> /\ loading = FALSE /\ output = Empty /\ rest = Empty
  BY DEF Init
<1> QED
  BY <1>1, <1>2, EmptyBag DEF Init, Types, Bags

LEMMA TypesStep ==
  ASSUME Types, [Next]_vars
  PROVE  Types'
<1>1. CASE PartitionInput
  <2>1. Nested(stack') /\ stack' # <<>>
    <3> DEFINE dir == Directory(partitionFile(input, Size(input) + blank, 0), 0, 0)
    <3>1. stack' = <<dir>> /\ Nested(stack')
      BY <1>1, PartitionEffect
    <3> QED
      BY <3>1
  <2>2. ~loading
    BY <1>1 DEF PartitionInput, Types
  <2> QED
    BY <1>1, <2>1, <2>2 DEF PartitionInput, Types, file, bucket
<1>2. CASE SplitBucket
  <2>1. Nested(stack') /\ Len(stack') = Len(stack) + 1 /\ ~loading /\ Len(stack) \in Nat
    BY <1>2, SplitEffect, TopTyped
  <2>2. stack' # <<>>
    BY <2>1, EmptySeq
  <2> QED
    BY <1>2, <2>1, <2>2 DEF SplitBucket, AtBucket, Types, file, bucket
<1>3. CASE OpenBucket
  <2>1. stack # <<>> /\ top.next < Count(top)
    BY <1>3 DEF OpenBucket, AtBucket, Types
  <2>2. Bucket \in Bags
    BY <2>1, TopTyped
  <2>3. top' = top
    BY <1>3 DEF OpenBucket, top
  <2> QED
    BY <1>3, <2>1, <2>2, <2>3 DEF OpenBucket, AtBucket, Types, file, Count
<1>4. CASE CloseBucket
  <2>1. Nested(stack') /\ Len(stack') = Len(stack) /\ Len(stack) \in Nat \ {0}
    BY <1>4, CloseEffect
  <2>2. stack' # <<>>
    BY <2>1, EmptySeq
  <2> QED
    BY <1>4, <2>1, <2>2 DEF CloseBucket, Types, file
<1>5. CASE LeaveDirectory
  <2>1. /\ Nested(stack') /\ ~loading
        /\ (phase' = "done" /\ stack' = <<>>) \/ (phase' = "dedup" /\ stack' # <<>>)
    BY <1>5, LeaveEffect
  <2> QED
    BY <1>5, <2>1 DEF LeaveDirectory, Types, file, bucket
<1>6. CASE \E l \in Lines : ReadLine(l)
  <2>1. PICK l \in Lines : ReadLine(l)
    BY <1>6
  <2>2. rest' \in Bags
    BY <2>1, DedupAssumption DEF ReadLine, Types, Bags
  <2>3. output' \in [Lines -> Nat]
    BY <2>1 DEF ReadLine, Types
  <2>4. top' = top
    BY <2>1 DEF ReadLine, top
  <2> QED
    BY <2>1, <2>2, <2>3, <2>4 DEF ReadLine, Types, file, Count
<1>7. CASE FailIo
  <2>1. top' = top
    BY <1>7 DEF FailIo, top
  <2> QED
    BY <1>7, <2>1 DEF FailIo, Types, file, bucket, Count
<1>8. CASE UNCHANGED vars
  <2>1. top' = top
    BY <1>8 DEF vars, top
  <2> QED
    BY <1>8, <2>1 DEF vars, Types, file, bucket, Count
<1> QED
  BY <1>1, <1>2, <1>3, <1>4, <1>5, <1>6, <1>7, <1>8 DEF Next, Work

LEMMA TypesOK ==
  ASSUME Types
  PROVE  TypeOK
<1>1. ASSUME NEW d \in 1 .. Len(stack)
      PROVE  /\ stack[d].depth = d - 1 /\ stack[d].depth <= MaxDepth /\ stack[d].seed \in Seeds
             /\ \A i \in DOMAIN stack[d].files : stack[d].files[i] \in Bags
             /\ Count(stack[d]) > 0 /\ DOMAIN stack[d].files = 0 .. Count(stack[d]) - 1
             /\ stack[d].next \in 0 .. Count(stack[d])
  <2>1. /\ Count(stack[d]) \in Nat \ {0}
        /\ DOMAIN stack[d].files = 0 .. Count(stack[d]) - 1
        /\ stack[d].files \in [0 .. Count(stack[d]) - 1 -> Bags]
        /\ stack[d].next \in 0 .. Count(stack[d])
        /\ stack[d].depth = d - 1 /\ stack[d].seed = d - 1 /\ d - 1 <= MaxDepth
    BY NestedTyped DEF Types
  <2>2. stack[d].seed \in Seeds
    BY <2>1, DedupAssumption DEF Seeds
  <2> QED
    BY <2>1, <2>2
<1> QED
  BY <1>1 DEF Types, TypeOK

\* Every file is a bag of lines, the stack of directories is at most
\* MAX_RECURSION_DEPTH deep and the k-th directory holds a split at depth k - 1
\* (dedup.ts, partition.ts).
THEOREM TypeCorrect == Spec => []TypeOK
<1>1. Spec => []Types
  BY TypesInit, TypesStep, PTL DEF Spec
<1> QED
  BY <1>1, TypesOK, PTL

-----------------------------------------------------------------------------
(* Lines by their hash                                                     *)

\* A line in a file of the d-th directory has hashed to that file, and under
\* every earlier seed to the file that was split last.
Hashed(s) ==
  \A d \in 1 .. Len(s) : \A i \in 0 .. Count(s[d]) - 1 : \A l \in Lines :
    s[d].files[i][l] > 0 =>
      /\ bucketOf(l, d - 1, Count(s[d])) = i
      /\ \A e \in 1 .. d - 1 : bucketOf(l, e - 1, Count(s[e])) = s[e].next - 1

LEMMA SameCount ==
  ASSUME NEW d, NEW e, d.files = e.files
  PROVE  Count(d) = Count(e)
BY DEF Count

LEMMA HashedStep ==
  ASSUME Types, Hashed(stack), [Next]_vars
  PROVE  Hashed(stack')
<1>1. CASE PartitionInput
  <2>1. PICK dir : dir = Directory(partitionFile(input, Size(input) + blank, 0), 0, 0)
    OBVIOUS
  <2>2. /\ stack' = <<dir>> /\ Count(dir) \in Nat \ {0}
        /\ \A l \in Lines : \A i \in 0 .. Count(dir) - 1 : dir.files[i][l] =
                              IF i = bucketOf(l, 0, Count(dir)) THEN input[l] ELSE 0
    BY <1>1, <2>1, PartitionEffect
  <2>3. Len(stack') = 1 /\ stack'[1] = dir
    BY <2>2
  <2> QED
    BY <2>2, <2>3 DEF Hashed
<1>2. CASE SplitBucket
  <2>1. PICK dir : dir = Directory(partitionFile(Bucket, Size(Bucket), top.seed + 1),
                                   top.seed + 1, top.depth + 1)
    OBVIOUS
  <2>2. PICK n \in Nat : n = Len(stack)
    BY <1>2, <2>1, SplitEffect, TopTyped
  <2>3. /\ Len(stack') = n + 1 /\ n > 0
        /\ \A d \in 1 .. n :
             /\ stack'[d].files = stack[d].files
             /\ stack'[d].next = IF d = n THEN stack[d].next + 1 ELSE stack[d].next
        /\ stack'[n + 1] = dir /\ Count(dir) \in Nat \ {0}
        /\ \A l \in Lines : \A i \in 0 .. Count(dir) - 1 :
             dir.files[i][l] = IF i = bucketOf(l, n, Count(dir)) THEN Bucket[l] ELSE 0
    <3>1. Len(stack) > 0
      BY <1>2, <2>1, SplitEffect, TopTyped
    <3>2. /\ Len(stack') = Len(stack) + 1
          /\ \A d \in 1 .. Len(stack) :
               /\ stack'[d].files = stack[d].files
               /\ stack'[d].next = IF d = Len(stack) THEN stack[d].next + 1 ELSE stack[d].next
          /\ stack'[Len(stack) + 1] = dir /\ Count(dir) \in Nat \ {0}
          /\ \A l \in Lines : \A i \in 0 .. Count(dir) - 1 : dir.files[i][l] =
               IF i = bucketOf(l, Len(stack), Count(dir)) THEN Bucket[l] ELSE 0
      BY <1>2, <2>1, SplitEffect
    <3> QED
      BY <2>2, <3>1, <3>2
  <2>4. \A d \in 1 .. n : Count(stack'[d]) = Count(stack[d]) /\ stack[d].next \in Nat
    <3> TAKE d \in 1 .. n
    <3>1. Count(stack'[d]) = Count(stack[d])
      BY <2>3, SameCount
    <3>2. stack[d].next \in Nat
      BY <2>2, NestedTyped DEF Types
    <3> QED
      BY <3>1, <3>2
  <2>5. top.next \in 0 .. Count(stack[n]) - 1 /\ Bucket = stack[n].files[top.next]
        /\ top = stack[n]
    <3>1. top.next < Count(top) /\ top.next \in 0 .. Count(top) /\ Count(top) \in Nat
      BY <1>2, <2>1, SplitEffect, TopTyped
    <3> QED
      BY <2>2, <3>1 DEF top, Bucket
  <2> SUFFICES ASSUME NEW d \in 1 .. n + 1, NEW i \in 0 .. Count(stack'[d]) - 1,
                      NEW l \in Lines, stack'[d].files[i][l] > 0
               PROVE  /\ bucketOf(l, d - 1, Count(stack'[d])) = i
                      /\ \A e \in 1 .. d - 1 :
                           bucketOf(l, e - 1, Count(stack'[e])) = stack'[e].next - 1
    BY <2>3 DEF Hashed
  <2>6. CASE d = n + 1
    <3>1. /\ i = bucketOf(l, n, Count(dir)) /\ Bucket[l] > 0
      BY <2>3, <2>6
    <3>2. /\ bucketOf(l, n - 1, Count(stack[n])) = top.next
          /\ \A e \in 1 .. n - 1 : bucketOf(l, e - 1, Count(stack[e])) = stack[e].next - 1
      <4>1. top.next \in 0 .. Count(stack[n]) - 1 /\ stack[n].files[top.next][l] > 0
        BY <2>5, <3>1
      <4> QED
        BY <2>2, <2>3, <4>1 DEF Hashed
    <3>3. ASSUME NEW e \in 1 .. n
          PROVE  bucketOf(l, e - 1, Count(stack'[e])) = stack'[e].next - 1
      <4>1. CASE e = n
        BY <2>3, <2>4, <2>5, <3>2, <4>1
      <4>2. CASE e # n
        <5>1. e \in 1 .. n - 1
          BY <2>2, <4>2
        <5>2. bucketOf(l, e - 1, Count(stack[e])) = stack[e].next - 1
          BY <3>2, <5>1
        <5>3. Count(stack'[e]) = Count(stack[e])
          BY <2>4
        <5>4. stack'[e].next = stack[e].next
          BY <2>3, <4>2
        <5> QED
          BY <5>2, <5>3, <5>4
      <4> QED
        BY <4>1, <4>2
    <3> QED
      BY <2>2, <2>3, <2>6, <3>1, <3>3
  <2>7. CASE d # n + 1
    <3>1. d \in 1 .. n /\ stack[d].files[i][l] > 0 /\ i \in 0 .. Count(stack[d]) - 1
      BY <2>3, <2>4, <2>7
    <3>2. /\ bucketOf(l, d - 1, Count(stack[d])) = i
          /\ \A e \in 1 .. d - 1 : bucketOf(l, e - 1, Count(stack[e])) = stack[e].next - 1
      BY <2>2, <3>1 DEF Hashed
    <3>3. \A e \in 1 .. d - 1 : /\ Count(stack'[e]) = Count(stack[e])
                                /\ stack'[e].next = stack[e].next
      BY <2>3, <2>4, <3>1
    <3>4. Count(stack'[d]) = Count(stack[d])
      BY <2>4, <3>1
    <3> QED
      BY <3>2, <3>3, <3>4
  <2> QED
    BY <2>6, <2>7
<1>3. CASE CloseBucket
  <2>1. PICK n \in Nat : n = Len(stack)
    BY <1>3, CloseEffect
  <2>2. /\ Len(stack') = n
        /\ \A d \in 1 .. n :
             /\ stack'[d].files = stack[d].files
             /\ stack'[d].next = IF d = n THEN stack[d].next + 1 ELSE stack[d].next
    BY <1>3, <2>1, CloseEffect
  <2>3. \A d \in 1 .. n : Count(stack'[d]) = Count(stack[d])
    BY <2>2, SameCount
  <2> SUFFICES ASSUME NEW d \in 1 .. n, NEW i \in 0 .. Count(stack'[d]) - 1,
                      NEW l \in Lines, stack'[d].files[i][l] > 0
               PROVE  /\ bucketOf(l, d - 1, Count(stack'[d])) = i
                      /\ \A e \in 1 .. d - 1 :
                           bucketOf(l, e - 1, Count(stack'[e])) = stack'[e].next - 1
    BY <2>2 DEF Hashed
  <2>4. Count(stack'[d]) = Count(stack[d]) /\ stack[d].files[i][l] > 0
    BY <2>2, <2>3
  <2>5. /\ bucketOf(l, d - 1, Count(stack[d])) = i
        /\ \A e \in 1 .. d - 1 : bucketOf(l, e - 1, Count(stack[e])) = stack[e].next - 1
    BY <2>1, <2>4 DEF Hashed
  <2>6. \A e \in 1 .. d - 1 : /\ Count(stack'[e]) = Count(stack[e])
                              /\ stack'[e].next = stack[e].next
    BY <2>2, <2>3
  <2> QED
    BY <2>4, <2>5, <2>6
<1>4. CASE LeaveDirectory
  <2>1. PICK n \in Nat : n = Len(stack)
    BY <1>4, LeaveEffect
  <2>2. /\ Len(stack') = n - 1 /\ \A d \in 1 .. n - 1 : stack'[d] = stack[d]
    BY <1>4, <2>1, LeaveEffect
  <2> QED
    BY <2>1, <2>2 DEF Hashed
<1>5. CASE UNCHANGED stack
  BY <1>5
<1> QED
  BY <1>1, <1>2, <1>3, <1>4, <1>5
     DEF Next, Work, OpenBucket, ReadLine, FailIo, vars

-----------------------------------------------------------------------------
(* The bucket that is read                                                 *)

\* It is not one to be split, every line seen is in it, and of the others all
\* copies are still to be read.
Reading ==
  loading => /\ ~MustSplit
             /\ \A l \in Lines : /\ l \in seen => Bucket[l] > 0
                                 /\ l \notin seen => rest[l] = Bucket[l]

LEMMA ReadingStep ==
  ASSUME Types, Reading, [Next]_vars
  PROVE  Reading'
<1>1. CASE UNCHANGED stack
  <2>1. top' = top
    BY <1>1 DEF top
  <2>2. Bucket' = Bucket
    BY <2>1 DEF Bucket
  <2>3. MustSplit' = MustSplit
    BY <2>1, <2>2 DEF MustSplit, TooLarge
  <2>4. CASE OpenBucket
    BY <2>2, <2>3, <2>4 DEF Reading, OpenBucket
  <2>5. CASE \E l \in Lines : ReadLine(l)
    <3>1. PICK m \in Lines : ReadLine(m)
      BY <2>5
    <3>2. /\ loading /\ rest[m] > 0 /\ seen' = seen \cup {m}
          /\ \A l \in Lines \ {m} : rest'[l] = rest[l]
      BY <3>1 DEF ReadLine, Types, Bags
    <3>3. Bucket[m] > 0
      BY <3>2 DEF Reading
    <3> QED
      BY <2>2, <2>3, <3>2, <3>3 DEF Reading
  <2>6. CASE UNCHANGED bucket
    BY <2>2, <2>3, <2>6 DEF Reading, bucket
  <2> QED
    BY <1>1, <2>1, <2>4, <2>5, <2>6 DEF Next, Work, vars, FailIo, PartitionInput, SplitBucket,
       CloseBucket, LeaveDirectory, bucket, Reading
<1>2. CASE ~loading'
  BY <1>2 DEF Reading
<1>3. CASE PartitionInput
  BY <1>2, <1>3 DEF PartitionInput, Types, bucket
<1> QED
  BY <1>1, <1>2, <1>3 DEF Next, Work, SplitBucket, AtBucket, OpenBucket, ReadLine, CloseBucket,
     LeaveDirectory, FailIo, vars, bucket

-----------------------------------------------------------------------------
(* The copies of a line                                                    *)

\* The i-th file of the d-th directory of s is still there and holds l.
Kept(s, l, d, i) ==
  d \in 1 .. Len(s) /\ i \in s[d].next .. Count(s[d]) - 1 /\ s[d].files[i][l] > 0

IsRead(d, i) == loading /\ d = Len(stack) /\ i = top.next

\* No file holds l, and it has been written if the input holds it.
Gone(l) ==
  /\ \A d, i \in Nat : ~Kept(stack, l, d, i)
  /\ output[l] = IF input[l] > 0 THEN 1 ELSE 0

\* That file has all copies of l; it has been written if it was read there.
Only(l, d, i) ==
  /\ Kept(stack, l, d, i) /\ stack[d].files[i][l] = input[l]
  /\ \A e, j \in Nat : Kept(stack, l, e, j) => e = d /\ j = i
  /\ output[l] = IF IsRead(d, i) /\ l \in seen THEN 1 ELSE 0

Together(l) == Gone(l) \/ \E d, i \in Nat : Only(l, d, i)

AllTogether == phase \in {"dedup", "done"} => \A l \in Lines : Together(l)

\* A line in the last directory's next file is nowhere else.
LEMMA InBucket ==
  ASSUME Types, stack # <<>>, top.next < Count(top),
         NEW l \in Lines, Together(l), Bucket[l] > 0
  PROVE  /\ Len(stack) \in Nat /\ top.next \in Nat
         /\ Only(l, Len(stack), top.next)
<1>1. /\ Len(stack) \in Nat \ {0} /\ top = stack[Len(stack)]
      /\ Count(top) \in Nat \ {0} /\ top.next \in Nat
  BY TopTyped
<1>2. Kept(stack, l, Len(stack), top.next)
  BY <1>1 DEF Kept, Bucket
<1>3. ~Gone(l)
  BY <1>1, <1>2 DEF Gone
<1>4. PICK d, i \in Nat : Only(l, d, i)
  BY <1>3 DEF Together
<1>5. d = Len(stack) /\ i = top.next
  BY <1>1, <1>2, <1>4 DEF Only
<1> QED
  BY <1>1, <1>4, <1>5

\* What unlinking the bucket leaves of l, where files and counts stay.
LEMMA KeptUnlinked ==
  ASSUME Types, stack # <<>>, top.next < Count(top), NEW s,
         Len(s) >= Len(stack), Len(s) \in Nat,
         \A d \in 1 .. Len(stack) :
           /\ s[d].files = stack[d].files
           /\ s[d].next = IF d = Len(stack) THEN stack[d].next + 1 ELSE stack[d].next,
         NEW l, NEW d \in 1 .. Len(stack), NEW i \in Nat
  PROVE  Kept(s, l, d, i) <=> Kept(stack, l, d, i) /\ ~(d = Len(stack) /\ i = top.next)
<1>1. Count(s[d]) = Count(stack[d]) /\ s[d].files = stack[d].files
  BY SameCount
<1>2. Len(stack) \in Nat /\ top = stack[Len(stack)] /\ d \in 1 .. Len(s)
  BY TopTyped
<1>3. stack[d].next \in Nat /\ Count(stack[d]) \in Nat
  BY NestedTyped DEF Types
<1>4. CASE d = Len(stack)
  <2>1. s[d].next = stack[d].next + 1 /\ top.next = stack[d].next
    BY <1>2, <1>4
  <2> QED
    BY <1>1, <1>2, <1>3, <1>4, <2>1 DEF Kept
<1>5. CASE d # Len(stack)
  <2>1. s[d].next = stack[d].next
    BY <1>5
  <2> QED
    BY <1>1, <1>2, <1>3, <1>5, <2>1 DEF Kept
<1> QED
  BY <1>4, <1>5

LEMMA TogetherPartition ==
  ASSUME Types, PartitionInput, NEW l \in Lines
  PROVE  Together(l)'
<1>1. PICK dir : dir = Directory(partitionFile(input, Size(input) + blank, 0), 0, 0)
  OBVIOUS
<1>2. /\ stack' = <<dir>> /\ dir.next = 0 /\ Count(dir) \in Nat \ {0}
      /\ bucketOf(l, 0, Count(dir)) \in 0 .. Count(dir) - 1
      /\ \A i \in 0 .. Count(dir) - 1 : dir.files[i][l] =
           IF i = bucketOf(l, 0, Count(dir)) THEN input[l] ELSE 0
  BY <1>1, PartitionEffect
<1>3. PICK b \in Nat : b = bucketOf(l, 0, Count(dir))
  BY <1>2
<1>4. Len(stack') = 1 /\ stack'[1] = dir
  BY <1>2
<1>5. \A d, i \in Nat : Kept(stack', l, d, i) <=> d = 1 /\ i = b /\ input[l] > 0
  BY <1>2, <1>3, <1>4 DEF Kept
<1>6. input' = input /\ output'[l] = 0 /\ ~loading'
  BY DEF PartitionInput, Types, file, bucket, Empty
<1>7. input[l] \in Nat
  BY DedupAssumption DEF Types, Bags
<1>8. CASE input[l] = 0
  BY <1>5, <1>6, <1>8 DEF Together, Gone
<1>9. CASE input[l] > 0
  <2>1. Only(l, 1, b)'
    BY <1>2, <1>3, <1>4, <1>5, <1>6, <1>9 DEF Only, IsRead
  <2> QED
    BY <2>1 DEF Together
<1> QED
  BY <1>7, <1>8, <1>9

LEMMA TogetherSplit ==
  ASSUME Types, SplitBucket, NEW l \in Lines, Together(l)
  PROVE  Together(l)'
<1>1. PICK dir : dir = Directory(partitionFile(Bucket, Size(Bucket), top.seed + 1),
                                 top.seed + 1, top.depth + 1)
  OBVIOUS
<1>2. /\ stack # <<>> /\ top.next < Count(top) /\ ~loading /\ Bucket \in Bags
      /\ Nested(stack') /\ Len(stack') = Len(stack) + 1
      /\ \A d \in 1 .. Len(stack) :
           /\ stack'[d].files = stack[d].files
           /\ stack'[d].next = IF d = Len(stack) THEN stack[d].next + 1 ELSE stack[d].next
      /\ stack'[Len(stack) + 1] = dir /\ dir.next = 0 /\ Count(dir) \in Nat \ {0}
  BY <1>1, SplitEffect
<1>3. /\ bucketOf(l, Len(stack), Count(dir)) \in 0 .. Count(dir) - 1
      /\ \A i \in 0 .. Count(dir) - 1 : dir.files[i][l] =
           IF i = bucketOf(l, Len(stack), Count(dir)) THEN Bucket[l] ELSE 0
  BY <1>1, SplitEffect
<1>4. /\ Len(stack) \in Nat \ {0} /\ top.next \in Nat
  BY <1>2, TopTyped
<1>5. PICK b \in Nat : b = bucketOf(l, Len(stack), Count(dir))
  BY <1>2, <1>3
<1>6. ASSUME NEW d \in Nat, NEW i \in Nat
      PROVE  Kept(stack', l, d, i) <=>
               \/ Kept(stack, l, d, i) /\ ~(d = Len(stack) /\ i = top.next)
               \/ d = Len(stack) + 1 /\ i = b /\ Bucket[l] > 0
  <2>1. CASE d \in 1 .. Len(stack)
    <3>1. Kept(stack', l, d, i) <=> Kept(stack, l, d, i) /\ ~(d = Len(stack) /\ i = top.next)
      BY <1>2, <1>4, <2>1, KeptUnlinked, SMTT(20)
    <3> QED
      BY <1>4, <2>1, <3>1
  <2>2. CASE d = Len(stack) + 1
    <3>1. ~Kept(stack, l, d, i)
      BY <1>4, <2>2 DEF Kept
    <3>2. Kept(stack', l, d, i) <=> i \in 0 .. Count(dir) - 1 /\ dir.files[i][l] > 0
      BY <1>2, <1>4, <2>2 DEF Kept
    <3> QED
      BY <1>2, <1>3, <1>5, <2>2, <3>1, <3>2
  <2>3. CASE d \notin 1 .. Len(stack) + 1
    BY <1>2, <1>4, <2>3 DEF Kept
  <2> QED
    BY <1>4, <2>1, <2>2, <2>3
<1>7. input' = input /\ output' = output /\ ~loading'
  BY <1>2 DEF SplitBucket, file, bucket
<1>8. Bucket[l] \in Nat
  BY <1>2, DedupAssumption DEF Bags
<1>9. CASE Bucket[l] > 0
  <2>1. Only(l, Len(stack), top.next)
    BY <1>2, <1>9, InBucket
  <2>2. Bucket[l] = input[l] /\ output[l] = 0
    BY <1>2, <1>4, <2>1, TopTyped DEF Only, IsRead, Bucket
  <2>3. \A d, i \in Nat : Kept(stack', l, d, i) <=> d = Len(stack) + 1 /\ i = b
    BY <1>6, <1>9, <2>1 DEF Only
  <2>4. stack'[Len(stack) + 1].files[b][l] = input[l]
    BY <1>2, <1>3, <1>5, <2>2
  <2>5. PICK d \in Nat : d = Len(stack) + 1
    BY <1>4
  <2>6. Only(l, d, b)'
    BY <1>5, <1>7, <2>2, <2>3, <2>4, <2>5 DEF Only, IsRead
  <2> QED
    BY <1>5, <2>5, <2>6 DEF Together
<1>10. CASE Bucket[l] = 0
  <2>1. ~Kept(stack, l, Len(stack), top.next)
    BY <1>4, <1>10, TopTyped, <1>2 DEF Kept, Bucket
  <2>2. \A d, i \in Nat : Kept(stack', l, d, i) <=> Kept(stack, l, d, i)
    BY <1>6, <1>10, <2>1
  <2>3. CASE Gone(l)
    BY <1>7, <2>2, <2>3 DEF Gone, Together
  <2>4. CASE \E d, i \in Nat : Only(l, d, i)
    <3>1. PICK d, i \in Nat : Only(l, d, i)
      BY <2>4
    <3>2. d \in 1 .. Len(stack)
      BY <3>1 DEF Only, Kept
    <3>3. stack'[d].files[i][l] = input[l]
      BY <1>2, <3>1, <3>2 DEF Only
    <3>4. Only(l, d, i)'
      BY <1>2, <1>7, <2>2, <3>1, <3>3 DEF Only, IsRead
    <3> QED
      BY <3>4 DEF Together
  <2> QED
    BY <2>3, <2>4 DEF Together
<1> QED
  BY <1>8, <1>9, <1>10

LEMMA TogetherClose ==
  ASSUME Types, Reading, CloseBucket, NEW l \in Lines, Together(l)
  PROVE  Together(l)'
<1>2. /\ stack # <<>> /\ top.next < Count(top) /\ loading
      /\ Nested(stack') /\ Len(stack') = Len(stack)
      /\ \A d \in 1 .. Len(stack) :
           /\ stack'[d].files = stack[d].files
           /\ stack'[d].next = IF d = Len(stack) THEN stack[d].next + 1 ELSE stack[d].next
  BY CloseEffect
<1>4. /\ Len(stack) \in Nat \ {0} /\ top.next \in Nat /\ Bucket \in Bags
  BY <1>2, TopTyped
<1>6. ASSUME NEW d \in Nat, NEW i \in Nat
      PROVE  Kept(stack', l, d, i) <=> Kept(stack, l, d, i) /\ ~(d = Len(stack) /\ i = top.next)
  <2>1. CASE d \in 1 .. Len(stack)
    BY <1>2, <1>4, <2>1, KeptUnlinked
  <2>2. CASE d \notin 1 .. Len(stack)
    BY <1>2, <1>4, <2>2 DEF Kept
  <2> QED
    BY <2>1, <2>2
<1>7. input' = input /\ output' = output /\ ~loading' /\ rest[l] = 0
  BY DEF CloseBucket, file, Empty
<1>8. Bucket[l] \in Nat
  BY <1>4, DedupAssumption DEF Bags
<1>9. CASE Bucket[l] > 0
  <2>1. Only(l, Len(stack), top.next)
    BY <1>2, <1>9, InBucket
  <2>2. l \in seen
    BY <1>2, <1>7, <1>9 DEF Reading
  <2>3. input[l] > 0 /\ output[l] = 1
    BY <1>2, <1>4, <1>9, <2>1, <2>2, TopTyped DEF Only, IsRead, Bucket
  <2>4. \A d, i \in Nat : ~Kept(stack', l, d, i)
    BY <1>6, <2>1 DEF Only
  <2> QED
    BY <1>7, <2>3, <2>4 DEF Together, Gone
<1>10. CASE Bucket[l] = 0
  <2>1. ~Kept(stack, l, Len(stack), top.next)
    BY <1>4, <1>10, TopTyped, <1>2 DEF Kept, Bucket
  <2>2. \A d, i \in Nat : Kept(stack', l, d, i) <=> Kept(stack, l, d, i)
    BY <1>6, <2>1
  <2>3. CASE Gone(l)
    BY <1>7, <2>2, <2>3 DEF Gone, Together
  <2>4. CASE \E d, i \in Nat : Only(l, d, i)
    <3>1. PICK d, i \in Nat : Only(l, d, i)
      BY <2>4
    <3>2. d \in 1 .. Len(stack) /\ ~IsRead(d, i)
      BY <2>1, <3>1 DEF Only, Kept, IsRead
    <3>3. stack'[d].files[i][l] = input[l]
      BY <1>2, <3>1, <3>2 DEF Only
    <3>4. Only(l, d, i)'
      BY <1>7, <2>2, <3>1, <3>2, <3>3 DEF Only, IsRead
    <3> QED
      BY <3>4 DEF Together
  <2> QED
    BY <2>3, <2>4 DEF Together
<1> QED
  BY <1>8, <1>9, <1>10

LEMMA TogetherLeave ==
  ASSUME Types, LeaveDirectory, NEW l \in Lines, Together(l)
  PROVE  Together(l)'
<1>1. /\ stack # <<>> /\ top.next = Count(top) /\ ~loading /\ Len(stack) \in Nat \ {0}
      /\ Len(stack') = Len(stack) - 1
      /\ \A d \in 1 .. Len(stack') : stack'[d] = stack[d]
  BY LeaveEffect
<1>2. /\ top = stack[Len(stack)] /\ Count(top) \in Nat
  BY <1>1, TopTyped
<1>3. ASSUME NEW d \in Nat, NEW i \in Nat
      PROVE  /\ Kept(stack', l, d, i) <=> Kept(stack, l, d, i)
             /\ Kept(stack, l, d, i) => stack'[d] = stack[d]
  <2>1. CASE d = Len(stack)
    <3>1. ~Kept(stack, l, d, i)
      BY <1>1, <1>2, <2>1 DEF Kept
    <3>2. ~Kept(stack', l, d, i)
      BY <1>1, <2>1 DEF Kept
    <3> QED
      BY <3>1, <3>2
  <2>2. CASE d # Len(stack)
    BY <1>1, <2>2 DEF Kept
  <2> QED
    BY <2>1, <2>2
<1>4. input' = input /\ output' = output /\ ~loading'
  BY <1>1 DEF LeaveDirectory, file, bucket
<1>5. CASE Gone(l)
  BY <1>3, <1>4, <1>5 DEF Gone, Together
<1>6. CASE \E d, i \in Nat : Only(l, d, i)
  <2>1. PICK d, i \in Nat : Only(l, d, i)
    BY <1>6
  <2>2. stack'[d] = stack[d]
    BY <1>3, <2>1 DEF Only
  <2>3. Only(l, d, i)'
    BY <1>1, <1>3, <1>4, <2>1, <2>2 DEF Only, IsRead
  <2> QED
    BY <2>3 DEF Together
<1> QED
  BY <1>5, <1>6 DEF Together

LEMMA TogetherOpen ==
  ASSUME Types, OpenBucket, NEW l \in Lines, Together(l)
  PROVE  Together(l)'
<1>1. /\ ~loading /\ seen' = {} /\ stack' = stack /\ input' = input /\ output' = output
  BY DEF OpenBucket, AtBucket, file
<1>2. CASE Gone(l)
  BY <1>1, <1>2 DEF Gone, Together
<1>3. ASSUME NEW d \in Nat, NEW i \in Nat, Only(l, d, i)
      PROVE  Only(l, d, i)'
  BY <1>1, <1>3 DEF Only, IsRead
<1> QED
  BY <1>2, <1>3 DEF Together

LEMMA TogetherRead ==
  ASSUME Types, Reading, Reading', NEW m \in Lines, ReadLine(m), NEW l \in Lines, Together(l)
  PROVE  Together(l)'
<1>1. /\ loading /\ stack' = stack /\ input' = input /\ loading' = loading
      /\ seen' = seen \cup {m} /\ stack # <<>> /\ top.next < Count(top)
  BY DEF ReadLine, file, Types
<1>2. top' = top /\ Bucket' = Bucket
  BY <1>1 DEF top, Bucket
<1>3. ASSUME NEW d, NEW i
      PROVE  IsRead(d, i)' <=> IsRead(d, i)
  BY <1>1, <1>2 DEF IsRead
<1>4. CASE l # m
  <2>1. output'[l] = output[l] /\ (l \in seen' <=> l \in seen)
    BY <1>1, <1>4 DEF ReadLine, Types
  <2>2. CASE Gone(l)
    BY <1>1, <2>1, <2>2 DEF Gone, Together
  <2>3. ASSUME NEW d \in Nat, NEW i \in Nat, Only(l, d, i)
        PROVE  Only(l, d, i)'
    BY <1>1, <1>3, <2>1, <2>3 DEF Only
  <2> QED
    BY <2>2, <2>3 DEF Together
<1>5. CASE l = m
  <2>1. Bucket[l] > 0
    BY <1>1, <1>2, <1>5 DEF Reading
  <2>2. /\ Only(l, Len(stack), top.next) /\ Len(stack) \in Nat /\ top.next \in Nat
    BY <1>1, <2>1, InBucket
  <2>3. IsRead(Len(stack), top.next) /\ l \in seen'
    BY <1>1, <1>5 DEF IsRead
  <2>4. output'[l] = 1
    BY <1>5, <2>2, <2>3 DEF Only, ReadLine, Types
  <2>5. Only(l, Len(stack), top.next)'
    <3>1. PICK d, i \in Nat : d = Len(stack) /\ i = top.next
      BY <2>2
    <3>2. Only(l, d, i)'
      BY <1>1, <1>3, <2>2, <2>3, <2>4, <3>1 DEF Only
    <3> QED
      BY <1>1, <1>2, <3>1, <3>2
  <2> QED
    BY <1>1, <1>2, <2>2, <2>5 DEF Together
<1> QED
  BY <1>4, <1>5

-----------------------------------------------------------------------------
(* The inductive invariant and what follows from it                        *)

IInv == Types /\ Hashed(stack) /\ Reading /\ AllTogether

LEMMA AllTogetherStep ==
  ASSUME IInv, Reading', [Next]_vars
  PROVE  AllTogether'
<1> SUFFICES ASSUME phase' \in {"dedup", "done"}, NEW l \in Lines
             PROVE  Together(l)'
  BY DEF AllTogether
<1>0. Types /\ Reading /\ (phase \in {"dedup", "done"} => Together(l))
  BY DEF IInv, AllTogether
<1>1. CASE PartitionInput
  BY <1>0, <1>1, TogetherPartition
<1>2. CASE SplitBucket
  BY <1>0, <1>2, TogetherSplit DEF SplitBucket, AtBucket
<1>3. CASE OpenBucket
  BY <1>0, <1>3, TogetherOpen DEF OpenBucket, AtBucket
<1>4. CASE CloseBucket
  BY <1>0, <1>4, TogetherClose DEF CloseBucket
<1>5. CASE LeaveDirectory
  BY <1>0, <1>5, TogetherLeave DEF LeaveDirectory
<1>6. CASE \E m \in Lines : ReadLine(m)
  BY <1>0, <1>6, TogetherRead DEF ReadLine
<1>7. CASE FailIo
  BY <1>7 DEF FailIo
<1>8. CASE UNCHANGED vars
  <2>1. /\ stack' = stack /\ input' = input /\ output' = output /\ loading' = loading
        /\ seen' = seen /\ phase' = phase
    BY <1>8 DEF vars, file, bucket
  <2>2. top' = top
    BY <2>1 DEF top
  <2>3. Together(l)
    BY <1>0, <2>1
  <2>4. CASE Gone(l)
    BY <2>1, <2>4 DEF Gone, Together
  <2>5. ASSUME NEW d \in Nat, NEW i \in Nat, Only(l, d, i)
        PROVE  Only(l, d, i)'
    BY <2>1, <2>2, <2>5 DEF Only, IsRead
  <2> QED
    BY <2>3, <2>4, <2>5 DEF Together
<1> QED
  BY <1>1, <1>2, <1>3, <1>4, <1>5, <1>6, <1>7, <1>8 DEF Next, Work

LEMMA Inductive == Spec => []IInv
<1>1. Init => IInv
  <2> SUFFICES ASSUME Init PROVE IInv
    OBVIOUS
  <2>1. Hashed(<<>>)
    BY DEF Hashed
  <2>2. Hashed(stack) /\ Reading /\ AllTogether
    BY <2>1 DEF Init, Reading, AllTogether
  <2> QED
    BY <2>2, TypesInit DEF IInv
<1>2. IInv /\ [Next]_vars => IInv'
  <2> SUFFICES ASSUME IInv, [Next]_vars PROVE IInv'
    OBVIOUS
  <2>1. Types' /\ Hashed(stack') /\ Reading'
    BY TypesStep, HashedStep, ReadingStep DEF IInv
  <2> QED
    BY <2>1, AllTogetherStep DEF IInv
<1> QED
  BY <1>1, <1>2, PTL DEF Spec

LEMMA PlacesAre ==
  ASSUME Types, NEW l \in Lines, NEW p
  PROVE  p \in Places(l) <=> \E d, i \in Nat : p = <<d, i>> /\ Kept(stack, l, d, i)
<1>1. \A d \in 1 .. Len(stack) :
        /\ DOMAIN stack[d].files = 0 .. Count(stack[d]) - 1
        /\ Count(stack[d]) \in Nat /\ stack[d].next \in Nat /\ d \in Nat
  BY NestedTyped DEF Types
<1>2. ASSUME p \in Places(l)
      PROVE  \E d, i \in Nat : p = <<d, i>> /\ Kept(stack, l, d, i)
  <2>1. PICK d \in 1 .. Len(stack) : p \in {d} \X DOMAIN stack[d].files
    BY <1>2 DEF Places
  <2>2. PICK i \in DOMAIN stack[d].files : p = <<d, i>>
    BY <2>1
  <2>3. i >= stack[d].next /\ stack[d].files[i][l] > 0
    BY <1>2, <2>2 DEF Places
  <2>4. i \in stack[d].next .. Count(stack[d]) - 1 /\ i \in Nat /\ d \in Nat
    BY <1>1, <2>2, <2>3
  <2>5. Kept(stack, l, d, i)
    BY <2>3, <2>4 DEF Kept
  <2> QED
    BY <2>2, <2>4, <2>5
<1>3. ASSUME NEW d \in Nat, NEW i \in Nat, p = <<d, i>>, Kept(stack, l, d, i)
      PROVE  p \in Places(l)
  <2>1. /\ d \in 1 .. Len(stack) /\ i \in DOMAIN stack[d].files /\ i >= stack[d].next
        /\ stack[d].files[i][l] > 0
    BY <1>1, <1>3 DEF Kept
  <2> QED
    BY <1>3, <2>1 DEF Places
<1> QED
  BY <1>2, <1>3

\* However deep buckets are split, the copies of a line are in one file, which
\* has them all, until the line is written, and in none afterwards ("two
\* identical lines always land in the same bucket", dedup.ts).
THEOREM CopiesStayTogether == Spec => []LinesTogether
<1>1. IInv => LinesTogether
  <2> SUFFICES ASSUME IInv, phase \in {"dedup", "done"}, NEW l \in Lines
               PROVE  \/ Places(l) = {} /\ (input[l] > 0 <=> output[l] > 0)
                      \/ \E p \in Places(l) :
                           /\ Places(l) = {p} /\ stack[p[1]].files[p[2]][l] = input[l]
                           /\ (output[l] > 0 <=>
                                (loading /\ p = <<Len(stack), top.next>> /\ l \in seen))
    BY DEF LinesTogether
  <2>1. Types /\ Together(l) /\ input[l] \in Nat
    BY DedupAssumption DEF IInv, AllTogether, Types, Bags
  <2>2. CASE Gone(l)
    <3>1. Places(l) = {}
      BY <2>1, <2>2, PlacesAre DEF Gone
    <3> QED
      BY <2>1, <2>2, <3>1 DEF Gone
  <2>3. CASE \E d, i \in Nat : Only(l, d, i)
    <3>1. PICK d, i \in Nat : Only(l, d, i)
      BY <2>3
    <3>2. <<d, i>> \in Places(l)
      BY <2>1, <3>1, PlacesAre DEF Only
    <3>3. Places(l) = {<<d, i>>}
      BY <2>1, <3>1, <3>2, PlacesAre DEF Only
    <3>4. stack[<<d, i>>[1]].files[<<d, i>>[2]][l] = input[l]
      BY <3>1 DEF Only
    <3>5. output[l] > 0 <=> (loading /\ <<d, i>> = <<Len(stack), top.next>> /\ l \in seen)
      <4>1. output[l] > 0 <=> IsRead(d, i) /\ l \in seen
        BY <3>1 DEF Only
      <4> QED
        BY <4>1 DEF IsRead
    <3> QED
      BY <3>2, <3>3, <3>4, <3>5
  <2> QED
    BY <2>1, <2>2, <2>3 DEF Together
<1> QED
  BY <1>1, Inductive, PTL

\* The set of lines in memory exceeds SAFE_LOAD_BYTES only at the last depth
\* and only for lines no seed tried has told apart ("a new seed spreads them out
\* differently", dedup.ts, config.ts).
THEOREM MemoryIsBounded == Spec => []MemoryBounded
<1>1. IInv => MemoryBounded
  <2> SUFFICES ASSUME IInv, loading, Sum(Bytes, seen) > SafeLoadBytes
               PROVE  /\ top.depth = MaxDepth
                      /\ \A l, m \in seen : \A d \in 1 .. Len(stack) :
                           bucketOf(l, d - 1, Count(stack[d])) = bucketOf(m, d - 1, Count(stack[d]))
    BY DEF MemoryBounded
  <2>1. /\ Types /\ stack # <<>> /\ top.next < Count(top) /\ seen \subseteq Lines
        /\ ~MustSplit /\ \A l \in seen : Bucket[l] > 0
    BY DEF IInv, Types, Reading
  <2>2. /\ Len(stack) \in Nat \ {0} /\ top = stack[Len(stack)]
        /\ Count(top) \in Nat \ {0} /\ top.next \in 0 .. Count(top) - 1
        /\ top.depth = Len(stack) - 1 /\ Len(stack) - 1 <= MaxDepth /\ Bucket \in Bags
    BY <2>1, TopTyped
  <2>3. Size(Bucket) > SafeLoadBytes
    <3> DEFINE f == [l \in Lines |-> Bucket[l] * Bytes[l]]
    <3>1. Bucket \in [Lines -> Nat] /\ Bytes \in [Lines -> Nat \ {0}]
      BY <2>2, DedupAssumption DEF Bags
    <3>2. f \in [Lines -> Nat] /\ Bytes \in [Lines -> Nat]
      BY <3>1
    <3>3. \A l \in seen : Bytes[l] <= f[l]
      <4> TAKE l \in seen
      <4>1. Bucket[l] \in Nat \ {0} /\ Bytes[l] \in Nat /\ l \in Lines
        BY <2>1, <3>1
      <4>2. \A x \in Nat \ {0}, y \in Nat : y <= x * y
        OBVIOUS
      <4> QED
        BY <4>1, <4>2
    <3> HIDE DEF f
    <3>4. Sum(Bytes, seen) <= Sum(f, Lines)
      BY <2>1, <3>2, <3>3, SumMonotone
    <3>5. Sum(Bytes, seen) \in Nat /\ Sum(f, Lines) \in Nat
      BY <2>1, <3>2, SumType
    <3> QED
      BY <3>4, <3>5, DedupAssumption DEF Size, f
  <2>4. ~(top.depth < MaxDepth)
    BY <2>1, <2>3 DEF MustSplit, TooLarge
  <2>5. top.depth = MaxDepth
    BY <2>2, <2>4, DedupAssumption
  <2>6. ASSUME NEW l \in seen, NEW d \in 1 .. Len(stack)
        PROVE  bucketOf(l, d - 1, Count(stack[d]))
                 = IF d = Len(stack) THEN top.next ELSE stack[d].next - 1
    <3>1. stack[Len(stack)].files[top.next][l] > 0 /\ l \in Lines
      BY <2>1, <2>2 DEF Bucket
    <3>2. Hashed(stack)
      BY DEF IInv
    <3>3. /\ bucketOf(l, Len(stack) - 1, Count(stack[Len(stack)])) = top.next
          /\ \A e \in 1 .. Len(stack) - 1 :
               bucketOf(l, e - 1, Count(stack[e])) = stack[e].next - 1
      BY <2>2, <3>1, <3>2 DEF Hashed
    <3> QED
      BY <2>2, <3>3
  <2> QED
    BY <2>5, <2>6
<1> QED
  BY <1>1, Inductive, PTL

\* The program implements UniqueLines: each distinct line of the input is
\* written once, and all of them by the time it ends without an error.
THEOREM Refinement == Spec => UniqueSpec
<1>1. Init => Unique!UniqueInit
  BY DedupAssumption DEF Init, Unique!UniqueInit, Empty
<1>2. IInv /\ [Next]_vars
        => [Unique!Finish \/ \E l \in Lines : Unique!Write(l)]_Unique!uniqueVars
  <2> SUFFICES ASSUME IInv, [Next]_vars
               PROVE  \/ Unique!Finish \/ \E l \in Lines : Unique!Write(l)
                      \/ UNCHANGED Unique!uniqueVars
    OBVIOUS
  <2>1. CASE LeaveDirectory
    <3>1. input' = input /\ output' = output /\ phase = "dedup"
      BY <2>1 DEF LeaveDirectory, file
    <3>2. CASE Len(stack) = 1
      <4>1. phase' = "done"
        BY <2>1, <3>2 DEF LeaveDirectory
      <4>2. ASSUME NEW l \in Lines, input[l] > 0
            PROVE  output[l] = 1
        <5>1. /\ stack # <<>> /\ top.next = Count(top) /\ top = stack[1] /\ Count(top) \in Nat
          BY <2>1, <3>2, LeaveEffect, TopTyped DEF IInv
        <5>2. \A d, i : ~Kept(stack, l, d, i)
          BY <3>2, <5>1 DEF Kept
        <5>3. Gone(l)
          BY <3>1, <5>2 DEF IInv, AllTogether, Together, Only
        <5> QED
          BY <4>2, <5>3 DEF Gone
      <4> QED
        BY <3>1, <4>1, <4>2 DEF Unique!Finish
    <3>3. CASE Len(stack) # 1
      BY <2>1, <3>1, <3>3 DEF LeaveDirectory, Unique!uniqueVars
    <3> QED
      BY <3>2, <3>3
  <2>2. CASE \E l \in Lines : ReadLine(l)
    <3>1. PICK l \in Lines : ReadLine(l)
      BY <2>2
    <3>2. CASE l \in seen
      BY <3>1, <3>2 DEF ReadLine, file, Unique!uniqueVars
    <3>3. CASE l \notin seen
      <4>1. /\ phase = "dedup" /\ phase' = "dedup" /\ loading /\ rest[l] > 0 /\ input' = input
            /\ output' = [output EXCEPT ![l] = @ + 1]
        BY <3>1, <3>3 DEF ReadLine, file
      <4>2. /\ Types /\ stack # <<>> /\ top.next < Count(top) /\ Together(l) /\ Bucket[l] > 0
        BY <3>3, <4>1 DEF IInv, Types, Reading, AllTogether
      <4>3. Only(l, Len(stack), top.next) /\ top = stack[Len(stack)]
        BY <4>2, InBucket, TopTyped
      <4>4. input[l] > 0 /\ output[l] = 0
        BY <3>3, <4>2, <4>3 DEF Only, Bucket
      <4>5. output' = [output EXCEPT ![l] = 1]
        BY <4>1, <4>4
      <4>6. Unique!Write(l)
        BY <4>1, <4>4, <4>5 DEF Unique!Write
      <4> QED
        BY <4>6
    <3> QED
      BY <3>2, <3>3
  <2>3. CASE PartitionInput \/ SplitBucket \/ OpenBucket \/ CloseBucket \/ FailIo
    BY <2>3 DEF PartitionInput, SplitBucket, OpenBucket, CloseBucket, FailIo, AtBucket,
       file, Unique!uniqueVars
  <2>4. CASE UNCHANGED vars
    BY <2>4 DEF vars, file, Unique!uniqueVars
  <2> QED
    BY <2>1, <2>2, <2>3, <2>4 DEF Next, Work
<1> QED
  BY <1>1, <1>2, Inductive, PTL DEF Spec, UniqueSpec, Unique!UniqueSpec
=============================================================================

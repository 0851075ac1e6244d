--------------------------- MODULE PrimePool_proofs ---------------------------
(***************************************************************************)
(* Proofs about PrimePool, for every value of the constants.               *)
(***************************************************************************)
EXTENDS PrimePool, FiniteSetTheorems, SequenceTheorems, WellFoundedInduction, TLAPS

-----------------------------------------------------------------------------
(* Every non-empty set of natural numbers has a least element: the         *)
(* induction that the provers can use.                                     *)

LEMMA Least ==
  ASSUME NEW S \in SUBSET Nat, S # {}
  PROVE  \E n \in S : \A m \in S : n <= m
<1> DEFINE R == OpToRel(<, Nat)
<1>1. IsWellFoundedOn(R, Nat) /\ R = {ss \in Nat \X Nat : ss[1] < ss[2]}
  BY NatLessThanWellFounded DEF OpToRel
<1>2. PICK n \in S : \A y \in S : ~ (<<y, n>> \in R)
  <2> HIDE DEF R
  <2> QED
    BY <1>1, WFMin
<1>3. \A m \in S : m < n => <<m, n>> \in R
  BY <1>1
<1>4. \A m \in S : ~(m < n)
  BY <1>2, <1>3
<1>5. \A m \in S : n <= m
  <2> HIDE DEF R
  <2> QED
    BY <1>4
<1> QED
  BY <1>5

LEMMA IntervalSize ==
  ASSUME NEW n \in Nat
  PROVE  IsFiniteSet(1 .. n) /\ Cardinality(1 .. n) = n
<1>1. 1 \in Int /\ n \in Int
  OBVIOUS
<1>2. /\ IsFiniteSet(1 .. n)
      /\ Cardinality(1 .. n) = IF 1 > n THEN 0 ELSE n - 1 + 1
  BY <1>1, FS_Interval, Zenon
<1> QED
  BY <1>2

-----------------------------------------------------------------------------
(* Trial division                                                          *)

Divisors(n) == {d \in 1 .. n : n % d = 0}

LEMMA DivisorProduct ==
  ASSUME NEW n \in Nat \ {0}, NEW d \in Divisors(n)
  PROVE  \E e \in 1 .. n : n = d * e
<1>1. d \in Nat \ {0} /\ n % d = 0
  BY DEF Divisors
<1>2. n \div d \in Int
  BY <1>1
<1>3. PICK e \in Int : n = d * e
  <2>1. \A x \in Nat, y \in Nat \ {0} : x = y * (x \div y) + (x % y)
    OBVIOUS
  <2> QED
    BY <1>1, <1>2, <2>1
<1>4. e >= 1
  BY <1>1, <1>3
<1>5. e <= n
  BY <1>1, <1>3, <1>4
<1> QED
  BY <1>3, <1>4, <1>5

LEMMA ProductDivides ==
  ASSUME NEW d \in Nat \ {0}, NEW e \in Nat \ {0}
  PROVE  (d * e) % d = 0 /\ (e * d) % d = 0 /\ d <= d * e /\ e <= d * e
OBVIOUS

\* A composite number has a divisor that trial division reaches.
LEMMA SmallDivisor ==
  ASSUME NEW n \in Nat, n >= 2, NEW d \in Divisors(n), d # 1, d # n
  PROVE  \E m \in 2 .. n - 1 : m * m <= n /\ n % m = 0
<1>1. PICK e \in 1 .. n : n = d * e
  BY DivisorProduct
<1>2. d \in Nat /\ d >= 2 /\ d < n
  BY DEF Divisors
<1>3. e >= 2 /\ e < n
  <2>1. e # 1
    BY <1>1, <1>2
  <2>2. e # n
    BY <1>1, <1>2
  <2> QED
    BY <2>1, <2>2
<1>4. n % d = 0 /\ n % e = 0
  BY <1>1, <1>2, <1>3, ProductDivides
<1>5. CASE d <= e
  <2>1. d * d <= d * e
    BY <1>2, <1>3, <1>5
  <2> QED
    BY <1>1, <1>2, <1>4, <2>1
<1>6. CASE e <= d
  <2>1. e * e <= d * e
    BY <1>2, <1>3, <1>6
  <2> QED
    BY <1>1, <1>3, <1>4, <2>1
<1> QED
  BY <1>2, <1>3, <1>5, <1>6

\* A number greater than one is prime when only one and itself divide it.
LEMMA PrimeIs ==
  ASSUME NEW n \in Nat, n >= 2
  PROVE  Prime(n) <=> \A d \in Divisors(n) : d = 1 \/ d = n
<1>1. 1 \in Divisors(n) /\ n \in Divisors(n) /\ 1 # n
  <2>1. n % 1 = 0 /\ n % n = 0
    OBVIOUS
  <2> QED
    BY <2>1 DEF Divisors
<1>2. IsFiniteSet(Divisors(n)) /\ {1, n} \subseteq Divisors(n)
  <2>1. Divisors(n) \in SUBSET (1 .. n)
    BY DEF Divisors
  <2> QED
    BY <1>1, <2>1, IntervalSize, FS_Subset
<1>3. Cardinality({1, n}) = 2
  <2>1. IsFiniteSet({1}) /\ Cardinality({1}) = 1
    BY FS_Singleton
  <2>2. Cardinality({1} \cup {n}) = 2
    BY <1>1, <2>1, FS_AddElement
  <2>3. {1} \cup {n} = {1, n}
    OBVIOUS
  <2> QED
    BY <2>2, <2>3
<1>4. Cardinality(Divisors(n)) = 2 => Divisors(n) = {1, n}
  BY <1>2, <1>3, FS_Subset
<1>5. Prime(n) <=> Cardinality(Divisors(n)) = 2
  BY DEF Prime, Divisors
<1>6. (\A d \in Divisors(n) : d = 1 \/ d = n) <=> Divisors(n) = {1, n}
  BY <1>1
<1> QED
  BY <1>3, <1>4, <1>5, <1>6

\* Trial division by odd numbers up to the square root finds exactly the
\* numbers with two divisors (isPrime.ts).
THEOREM TrialDivision == \A n \in Nat : isPrime(n) <=> Prime(n)
<1> SUFFICES ASSUME NEW n \in Nat PROVE isPrime(n) <=> Prime(n)
  OBVIOUS
<1>1. CASE n = 0
  <2>1. Divisors(0) = {}
    BY DEF Divisors
  <2>2. Cardinality(Divisors(0)) = 0
    BY <2>1, FS_EmptySet
  <2> QED
    BY <1>1, <2>2 DEF isPrime, Prime, Divisors
<1>2. CASE n = 1
  <2>1. Divisors(1) = {1}
    BY DEF Divisors
  <2>2. Cardinality(Divisors(1)) = 1
    BY <2>1, FS_Singleton
  <2> QED
    BY <1>2, <2>2 DEF isPrime, Prime, Divisors
<1>3. CASE n >= 2
  <2>1. ASSUME isPrime(n), NEW d \in Divisors(n), d # 1, d # n
        PROVE  FALSE
    <3>1. PICK m \in 2 .. n - 1 : m * m <= n /\ n % m = 0
      BY <1>3, <2>1, SmallDivisor
    <3>2. n # 2
      BY <3>1
    <3>3. n % 2 # 0 /\ \A i \in 3 .. n : i % 2 = 1 /\ i * i <= n => n % i # 0
      BY <2>1, <3>2 DEF isPrime
    <3>4. CASE m % 2 = 0
      <4>1. PICK k \in Nat : m = 2 * k
        BY <3>4
      <4>2. m \in Divisors(n)
        BY <3>1 DEF Divisors
      <4>3. PICK e \in 1 .. n : n = m * e
        BY <1>3, <4>2, DivisorProduct
      <4>4. n = 2 * (k * e) /\ k * e \in Nat
        BY <4>1, <4>3
      <4> QED
        BY <3>3, <4>4
    <3>5. CASE m % 2 = 1
      <4>1. m \in 3 .. n
        BY <3>1, <3>5
      <4> QED
        BY <3>1, <3>3, <3>5, <4>1
    <3> QED
      BY <3>1, <3>4, <3>5
  <2>2. ASSUME \A d \in Divisors(n) : d = 1 \/ d = n
        PROVE  isPrime(n)
    <3>1. ASSUME n # 2, n % 2 = 0 PROVE FALSE
      <4>1. 2 \in Divisors(n)
        BY <1>3, <3>1 DEF Divisors
      <4> QED
        BY <2>2, <3>1, <4>1
    <3>2. ASSUME NEW i \in 3 .. n, i * i <= n, n % i = 0 PROVE FALSE
      <4>1. i \in Divisors(n)
        BY <3>2 DEF Divisors
      <4>2. i = n
        BY <2>2, <4>1
      <4> QED
        BY <1>3, <3>2, <4>2
    <3> QED
      BY <1>3, <3>1, <3>2 DEF isPrime
  <2> QED
    BY <1>3, <2>1, <2>2, PrimeIs
<1> QED
  BY <1>1, <1>2, <1>3

-----------------------------------------------------------------------------
(* Cut points                                                              *)

FileOK ==
  /\ size \in 0 .. MaxSize /\ newlines \subseteq 0 .. size - 1
  /\ number \in [LineStarts(size, newlines) -> Numbers]

\* A line starts there, or the file ends.
IsCut(c) == c \in 0 .. size /\ (c = 0 \/ c = size \/ c - 1 \in newlines)

LEMMA SizeNat == FileOK => size \in Nat
BY PoolAssumption DEF FileOK

LEMMA KType == K \in Nat \ {0}
<1>1. NumWorkers \in Nat /\ ChunksPerCore \in Nat \ {0}
  BY PoolAssumption
<1>2. NumWorkers # 0 => NumWorkers * ChunksPerCore \in Nat \ {0}
  BY <1>1
<1> QED
  BY <1>2 DEF K

\* The first newline at or after a position, if there is one.
LEMMA FirstLater ==
  ASSUME FileOK, NEW p \in Nat, NEW later,
         later = {n \in newlines : n >= p}, later # {}
  PROVE  /\ (CHOOSE n \in later : \A m \in later : n <= m) \in later
         /\ \A m \in later : (CHOOSE n \in later : \A k \in later : n <= k) <= m
<1>1. later \in SUBSET Nat
  <2>1. \A n \in newlines : n \in Nat
    BY SizeNat DEF FileOK
  <2> QED
    BY <2>1
<1>2. \E n \in later : \A m \in later : n <= m
  BY <1>1, Least
<1> QED
  BY <1>2

LEMMA NextLineStart ==
  ASSUME FileOK, NEW p \in Nat, NEW q \in Nat, p <= q
  PROVE  /\ IsCut(findNextLineStart(p)) /\ IsCut(findNextLineStart(q))
         /\ findNextLineStart(p) <= findNextLineStart(q)
<1> DEFINE later(x) == {n \in newlines : n >= x}
           first(x) == CHOOSE n \in later(x) : \A m \in later(x) : n <= m
<1>1. ASSUME NEW x \in Nat
      PROVE  /\ findNextLineStart(x) = IF later(x) = {} THEN size ELSE first(x) + 1
             /\ later(x) # {} => first(x) \in later(x) /\ \A m \in later(x) : first(x) <= m
             /\ later(x) \subseteq 0 .. size - 1 /\ later(x) \subseteq newlines
  <2>1. findNextLineStart(x) = IF later(x) = {} THEN size ELSE first(x) + 1
    BY DEF findNextLineStart
  <2>2. later(x) \subseteq 0 .. size - 1 /\ later(x) \subseteq newlines
    BY DEF FileOK
  <2> QED
    BY <2>1, <2>2, FirstLater
<1>2. later(q) \subseteq later(p) /\ size \in Nat
  <2>1. size \in Nat /\ \A n \in newlines : n \in Nat
    BY SizeNat DEF FileOK
  <2>2. \A n \in newlines : n >= q => n >= p
    BY <2>1
  <2> QED
    BY <2>1, <2>2
<1> HIDE DEF later, first
<1>3. ASSUME NEW x \in Nat PROVE IsCut(findNextLineStart(x))
  <2>1. CASE later(x) = {}
    BY <1>1, <1>2, <2>1 DEF IsCut
  <2>2. CASE later(x) # {}
    <3>1. PICK y \in 0 .. size - 1 : y = first(x) /\ y \in newlines
      BY <1>1, <2>2
    <3>2. findNextLineStart(x) = y + 1
      BY <1>1, <2>2, <3>1
    <3> QED
      BY <1>2, <3>1, <3>2 DEF IsCut
  <2> QED
    BY <2>1, <2>2
<1>4. findNextLineStart(p) <= findNextLineStart(q)
  <2>1. CASE later(q) = {}
    BY <1>1, <1>2, <1>3, <2>1 DEF IsCut
  <2>2. CASE later(q) # {}
    <3>1. later(p) # {} /\ first(q) \in later(p)
      BY <1>1, <1>2, <2>2
    <3>2. first(p) <= first(q) /\ first(p) \in 0 .. size - 1 /\ first(q) \in 0 .. size - 1
      BY <1>1, <2>2, <3>1
    <3> QED
      BY <1>1, <1>2, <2>2, <3>1, <3>2
  <2> QED
    BY <2>1, <2>2
<1> QED
  BY <1>3, <1>4

LEMMA DivMonotone ==
  ASSUME NEW x \in Nat, NEW y \in Nat, NEW k \in Nat \ {0}, x <= y
  PROVE  x \div k \in Nat /\ x \div k <= y \div k
OBVIOUS

LEMMA Cuts ==
  ASSUME FileOK, NEW cuts, cuts = computeCutPoints
  PROVE  /\ \A i \in 1 .. K + 1 : IsCut(cuts[i])
         /\ \A i \in 1 .. K : cuts[i] <= cuts[i + 1]
         /\ cuts[1] = 0 /\ cuts[K + 1] = size
<1>1. K \in Nat \ {0} /\ size \in Nat
  BY KType, SizeNat
<1> DEFINE position(i) == (size * (i - 1)) \div K
<1>2. ASSUME NEW i \in 1 .. K + 1
      PROVE  cuts[i] = IF i = 1 THEN 0 ELSE IF i = K + 1 THEN size
                       ELSE findNextLineStart(position(i))
  <2>1. cuts[i] = CASE i = 1     -> 0
                    [] i = K + 1 -> size
                    [] OTHER     -> findNextLineStart(position(i))
    BY DEF computeCutPoints
  <2> HIDE DEF position
  <2>2. i = 1 => i # K + 1
    BY <1>1
  <2> QED
    BY <2>1, <2>2
<1>3. ASSUME NEW i \in 1 .. K
      PROVE  position(i) \in Nat /\ position(i + 1) \in Nat /\ position(i) <= position(i + 1)
  <2>1. PICK x \in Nat : x = size * (i - 1)
    BY <1>1
  <2>2. PICK y \in Nat : y = size * ((i + 1) - 1)
    BY <1>1
  <2>3. x <= y
    BY <1>1, <2>1, <2>2
  <2>4. x \div K \in Nat /\ y \div K \in Nat /\ x \div K <= y \div K
    BY <1>1, <2>3, DivMonotone
  <2> QED
    BY <2>1, <2>2, <2>4
<1> HIDE DEF position
<1>4. IsCut(0) /\ IsCut(size)
  BY <1>1 DEF IsCut
<1>5. \A i \in 1 .. K + 1 : IsCut(cuts[i])
  <2> TAKE i \in 1 .. K + 1
  <2>1. CASE i = 1 \/ i = K + 1
    BY <1>1, <1>2, <1>4, <2>1
  <2>2. CASE i # 1 /\ i # K + 1
    <3>1. i \in 1 .. K
      BY <1>1, <2>2
    <3>2. IsCut(findNextLineStart(position(i)))
      BY <1>3, <3>1, NextLineStart
    <3> QED
      BY <1>2, <2>2, <3>2
  <2> QED
    BY <2>1, <2>2
<1>6. \A i \in 1 .. K : cuts[i] <= cuts[i + 1]
  <2> TAKE i \in 1 .. K
  <2>1. i \in 1 .. K + 1 /\ i + 1 \in 1 .. K + 1 /\ i + 1 # 1
    BY <1>1
  <2>2. cuts[i] \in 0 .. size /\ cuts[i + 1] \in 0 .. size
    BY <1>5, <2>1 DEF IsCut
  <2>3. CASE i = 1 \/ i + 1 = K + 1
    BY <1>1, <1>2, <2>1, <2>2, <2>3
  <2>4. CASE i # 1 /\ i + 1 # K + 1
    <3>1. findNextLineStart(position(i)) <= findNextLineStart(position(i + 1))
      BY <1>3, NextLineStart
    <3> QED
      BY <1>2, <2>1, <2>4, <3>1
  <2> QED
    BY <2>3, <2>4
<1> QED
  BY <1>1, <1>2, <1>5, <1>6

-----------------------------------------------------------------------------
(* Ranges between cuts                                                     *)

\* The recursive function is what its defining equation says.
LEMMA RangesUpTo ==
  ASSUME NEW cuts
  PROVE  rangesUpTo(cuts) =
           [i \in 0 .. K |->
              IF i = 0 THEN <<>>
              ELSE IF cuts[i + 1] > cuts[i]
                   THEN Append(rangesUpTo(cuts)[i - 1], byteRange(cuts, i))
              ELSE rangesUpTo(cuts)[i - 1]]
<1> DEFINE step(s, i) == IF cuts[i + 1] > cuts[i] THEN Append(s, byteRange(cuts, i)) ELSE s
           Solves(f, n) == f = [i \in 0 .. n |-> IF i = 0 THEN <<>> ELSE step(f[i - 1], i)]
           Bad == {n \in Nat : ~ \E f : Solves(f, n)}
<1> HIDE DEF step
<1>1. Bad = {}
  <2> SUFFICES ASSUME Bad # {} PROVE FALSE
    OBVIOUS
  <2>1. Bad \in SUBSET Nat
    OBVIOUS
  <2>2. PICK n \in Bad : \A m \in Bad : n <= m
    BY <2>1, Least
  <2>3. CASE n = 0
    <3> DEFINE f == [i \in 0 .. 0 |-> <<>>]
    <3>1. Solves(f, 0)
      OBVIOUS
    <3> HIDE DEF f
    <3> QED
      BY <2>3, <3>1
  <2>4. CASE n # 0
    <3>1. n - 1 \in Nat /\ n - 1 \notin Bad /\ n \in Nat
      <4> HIDE DEF Bad
      <4> QED
        BY <2>1, <2>2, <2>4
    <3>2. PICK g : Solves(g, n - 1)
      BY <3>1
    <3> DEFINE f == [i \in 0 .. n |-> IF i = n THEN step(g[n - 1], n) ELSE g[i]]
    <3>3. \A i \in 0 .. n - 1 : g[i] = IF i = 0 THEN <<>> ELSE step(g[i - 1], i)
      BY <3>2
    <3>4. \A i \in 0 .. n : f[i] = IF i = 0 THEN <<>> ELSE step(f[i - 1], i)
      <4> TAKE i \in 0 .. n
      <4>1. CASE i = n
        <5>1. f[n] = step(g[n - 1], n) /\ f[n - 1] = g[n - 1]
          BY <3>1
        <5> QED
          BY <2>4, <4>1, <5>1
      <4>2. CASE i # n
        <5>1. f[i] = g[i] /\ (i # 0 => f[i - 1] = g[i - 1]) /\ i \in 0 .. n - 1
          BY <3>1, <4>2
        <5> HIDE DEF f
        <5> QED
          BY <3>3, <5>1
      <4> QED
        BY <4>1, <4>2
    <3>5. Solves(f, n)
      <4>1. f = [i \in 0 .. n |-> f[i]]
        OBVIOUS
      <4> HIDE DEF f
      <4> QED
        BY <3>4, <4>1
    <3> HIDE DEF f
    <3> QED
      BY <3>5
  <2> QED
    BY <2>3, <2>4
<1>2. \E f : Solves(f, K)
  BY <1>1, KType
<1>3. rangesUpTo(cuts) = CHOOSE f : Solves(f, K)
  BY DEF rangesUpTo, step
<1>4. Solves(rangesUpTo(cuts), K)
  <2> HIDE DEF Solves
  <2> QED
    BY <1>2, <1>3
<1> QED
  BY <1>4 DEF step

\* Ranges of whole lines.
WholeRanges ==
  {r \in [start : 0 .. size - 1, end : 0 .. size - 1] :
     /\ r.start <= r.end
     /\ r.start = 0 \/ r.start - 1 \in newlines
     /\ r.end = size - 1 \/ r.end \in newlines}

\* The ranges s are consecutive and cover the bytes before cut.
Covers(s, cut) ==
  /\ s \in Seq(WholeRanges)
  /\ s = <<>> => cut = 0
  /\ s # <<>> => s[1].start = 0 /\ s[Len(s)].end = cut - 1
  /\ \A i \in 1 .. Len(s) - 1 : s[i + 1].start = s[i].end + 1
  /\ \A i, j \in 1 .. Len(s) : i < j => s[i].end < s[j].start
  /\ \A p \in 0 .. cut - 1 : \E i \in 1 .. Len(s) : p \in Bytes(s[i])

LEMMA CoversNone == Covers(<<>>, 0)
<1>1. <<>> \in Seq(WholeRanges) /\ Len(<<>>) = 0
  BY EmptySeq
<1> QED
  BY <1>1 DEF Covers

LEMMA CoversMore ==
  ASSUME FileOK, NEW s, NEW cut, NEW next, Covers(s, cut), IsCut(cut), IsCut(next), cut < next,
         NEW r, r = [start |-> cut, end |-> next - 1]
  PROVE  Covers(Append(s, r), next)
<1>0. size \in Nat /\ cut \in 0 .. size /\ next \in 0 .. size
  BY SizeNat DEF IsCut
<1>1. r \in WholeRanges /\ r.start = cut /\ r.end = next - 1
  BY <1>0 DEF WholeRanges, IsCut
<1> DEFINE n == Len(s)
           t == Append(s, r)
<1>2. /\ t \in Seq(WholeRanges) /\ Len(t) = n + 1 /\ n \in Nat
      /\ \A i \in 1 .. n : t[i] = s[i]
      /\ t[n + 1] = r
  BY <1>1, AppendProperties, LenProperties DEF Covers
<1> HIDE DEF t
<1>3. \A i \in 1 .. n : /\ s[i] \in WholeRanges
                        /\ s[i].start \in 0 .. size - 1 /\ s[i].end \in 0 .. size - 1
                        /\ s[i].start <= s[i].end
  <2> TAKE i \in 1 .. n
  <2>1. s[i] \in WholeRanges
    BY ElementOfSeq DEF Covers
  <2> QED
    BY <2>1 DEF WholeRanges
<1>4. n = 0 <=> s = <<>>
  BY <1>2, EmptySeq DEF Covers
<1>5. t # <<>>
  BY <1>2, EmptySeq
<1> HIDE DEF n
<1>6. t[1].start = 0 /\ t[n + 1].end = next - 1
  <2>1. CASE n = 0
    BY <1>1, <1>2, <1>4, <2>1 DEF Covers
  <2>2. CASE n # 0
    <3>1. t[1] = s[1] /\ s # <<>>
      BY <1>2, <1>4, <2>2
    <3> QED
      BY <1>1, <1>2, <3>1 DEF Covers
  <2> QED
    BY <2>1, <2>2
<1>7. n # 0 => s[n].end = cut - 1
  BY <1>4 DEF Covers, n
<1>8. ASSUME NEW i \in 1 .. n
      PROVE  t[i + 1].start = t[i].end + 1
  <2>1. CASE i = n
    BY <1>0, <1>1, <1>2, <1>7, <2>1
  <2>2. CASE i # n
    <3>1. i \in 1 .. Len(s) - 1 /\ t[i] = s[i] /\ t[i + 1] = s[i + 1]
      BY <1>2, <2>2 DEF n
    <3> QED
      BY <3>1 DEF Covers
  <2> QED
    BY <2>1, <2>2
<1>9. ASSUME NEW i \in 1 .. n + 1, NEW j \in 1 .. n + 1, i < j
      PROVE  t[i].end < t[j].start
  <2>1. i \in 1 .. n /\ t[i] = s[i]
    BY <1>2, <1>9
  <2>2. CASE j = n + 1
    <3>1. CASE i = n
      BY <1>0, <1>1, <1>2, <1>7, <2>1, <2>2, <3>1
    <3>2. CASE i # n
      <4>1. s[i].end < s[n].start /\ n \in 1 .. n
        BY <1>2, <2>1, <3>2 DEF Covers, n
      <4>2. s[n].start <= s[n].end /\ s[n].end = cut - 1 /\ s[n].start \in Int /\ s[i].end \in Int
        BY <1>3, <1>7, <2>1, <4>1
      <4> QED
        BY <1>0, <1>1, <1>2, <2>1, <2>2, <4>1, <4>2
    <3> QED
      BY <3>1, <3>2
  <2>3. CASE j # n + 1
    <3>1. j \in 1 .. n /\ t[j] = s[j]
      BY <1>2, <2>3
    <3> QED
      BY <1>9, <2>1, <3>1 DEF Covers, n
  <2> QED
    BY <2>2, <2>3
<1>10. ASSUME NEW p \in 0 .. next - 1
       PROVE  \E i \in 1 .. n + 1 : p \in Bytes(t[i])
  <2>1. CASE p < cut
    <3>1. PICK i \in 1 .. n : p \in Bytes(s[i])
      BY <1>0, <2>1 DEF Covers, n
    <3> QED
      BY <1>2, <3>1
  <2>2. CASE p >= cut
    <3>1. p \in Bytes(t[n + 1])
      BY <1>0, <1>1, <1>2, <2>2 DEF Bytes
    <3> QED
      BY <1>2, <3>1
  <2> QED
    BY <1>0, <2>1, <2>2
<1>11. Len(t) = n + 1 /\ Len(t) - 1 = n
  BY <1>2 DEF n
<1>12. Covers(t, next)
  <2>1. \A i \in 1 .. Len(t) - 1 : t[i + 1].start = t[i].end + 1
    BY <1>8, <1>11
  <2>2. \A i, j \in 1 .. Len(t) : i < j => t[i].end < t[j].start
    BY <1>9, <1>11
  <2>3. \A p \in 0 .. next - 1 : \E i \in 1 .. Len(t) : p \in Bytes(t[i])
    BY <1>10, <1>11
  <2> QED
    BY <1>2, <1>5, <1>6, <1>11, <2>1, <2>2, <2>3 DEF Covers
<1> QED
  BY <1>12 DEF t

\* By induction over the rounds of the loop.
LEMMA Chunks ==
  ASSUME FileOK
  PROVE  Covers(computeChunkBoundaries, size)
<1> DEFINE cuts == computeCutPoints
           Bad == {i \in 0 .. K : ~Covers(rangesUpTo(cuts)[i], cuts[i + 1])}
<1>1. /\ \A i \in 1 .. K + 1 : IsCut(cuts[i])
      /\ \A i \in 1 .. K : cuts[i] <= cuts[i + 1]
      /\ cuts[1] = 0 /\ cuts[K + 1] = size
  BY Cuts
<1>2. K \in Nat \ {0}
  BY KType
<1> HIDE DEF cuts
<1>3. ASSUME NEW i \in 0 .. K
      PROVE  rangesUpTo(cuts)[i] =
               IF i = 0 THEN <<>>
               ELSE IF cuts[i + 1] > cuts[i]
                    THEN Append(rangesUpTo(cuts)[i - 1], byteRange(cuts, i))
               ELSE rangesUpTo(cuts)[i - 1]
  <2> DEFINE f == rangesUpTo(cuts)
  <2>1. f = [k \in 0 .. K |->
              IF k = 0 THEN <<>>
              ELSE IF cuts[k + 1] > cuts[k] THEN Append(f[k - 1], byteRange(cuts, k))
              ELSE f[k - 1]]
    BY RangesUpTo
  <2> HIDE DEF f
  <2>2. f[i] = IF i = 0 THEN <<>>
               ELSE IF cuts[i + 1] > cuts[i] THEN Append(f[i - 1], byteRange(cuts, i))
               ELSE f[i - 1]
    BY <2>1
  <2> QED
    BY <2>2 DEF f
<1>4. Bad = {}
  <2> SUFFICES ASSUME Bad # {} PROVE FALSE
    OBVIOUS
  <2>1. PICK i \in Bad : \A m \in Bad : i <= m
    <3>1. Bad \in SUBSET Nat
      BY <1>2
    <3> HIDE DEF Bad
    <3> QED
      BY <3>1, Least
  <2>2. i \in 0 .. K /\ ~Covers(rangesUpTo(cuts)[i], cuts[i + 1])
    OBVIOUS
  <2>3. CASE i = 0
    <3>1. rangesUpTo(cuts)[0] = <<>> /\ cuts[0 + 1] = 0
      BY <1>1, <1>2, <1>3
    <3> QED
      BY <2>2, <2>3, <3>1, CoversNone
  <2>4. CASE i # 0
    <3>1. i - 1 \in 0 .. K /\ i - 1 \notin Bad
      <4>1. i - 1 \in 0 .. K /\ i \in Nat
        BY <1>2, <2>2, <2>4
      <4> HIDE DEF Bad
      <4> QED
        BY <2>1, <4>1
    <3>2. Covers(rangesUpTo(cuts)[i - 1], cuts[i])
      <4>1. (i - 1) + 1 = i
        BY <2>2
      <4> QED
        BY <3>1, <4>1
    <3>3. IsCut(cuts[i]) /\ IsCut(cuts[i + 1]) /\ cuts[i] <= cuts[i + 1]
      BY <1>1, <1>2, <2>2, <2>4
    <3>4. cuts[i] \in Int /\ cuts[i + 1] \in Int
      BY <3>3, SizeNat DEF IsCut
    <3>5. CASE cuts[i + 1] > cuts[i]
      <4>1. rangesUpTo(cuts)[i] = Append(rangesUpTo(cuts)[i - 1], byteRange(cuts, i))
        BY <1>3, <2>2, <2>4, <3>5
      <4>2. Covers(Append(rangesUpTo(cuts)[i - 1], byteRange(cuts, i)), cuts[i + 1])
        BY <3>2, <3>3, <3>4, <3>5, CoversMore DEF byteRange
      <4> QED
        BY <2>2, <4>1, <4>2
    <3>6. CASE ~(cuts[i + 1] > cuts[i])
      <4>1. rangesUpTo(cuts)[i] = rangesUpTo(cuts)[i - 1] /\ cuts[i + 1] = cuts[i]
        BY <1>3, <2>2, <2>4, <3>3, <3>4, <3>6
      <4> QED
        BY <2>2, <3>2, <4>1
    <3> QED
      BY <3>5, <3>6
  <2> QED
    BY <2>3, <2>4
<1>5. Covers(rangesUpTo(cuts)[K], size)
  <2>1. K \in 0 .. K /\ K \notin Bad
    BY <1>2, <1>4
  <2> QED
    BY <1>1, <2>1
<1> QED
  BY <1>5 DEF computeChunkBoundaries, rangesBetweenCuts, cuts

-----------------------------------------------------------------------------
(* Counts                                                                  *)

PrimeLines == {p \in DOMAIN number : isPrime(number[p])}
PrimesIn(r) == {p \in PrimeLines : p \in Bytes(r)}

LEMMA LinesTyped ==
  ASSUME FileOK
  PROVE  /\ DOMAIN number = LineStarts(size, newlines) /\ DOMAIN number \subseteq 0 .. size - 1
         /\ size \in Nat /\ \A p \in DOMAIN number : number[p] \in Nat
BY SizeNat, PoolAssumption DEF FileOK, LineStarts

LEMMA PrimeLinesFinite ==
  ASSUME FileOK
  PROVE  /\ IsFiniteSet(PrimeLines) /\ Cardinality(PrimeLines) \in 0 .. size
         /\ PrimeCount = Cardinality(PrimeLines)
         /\ \A S \in SUBSET PrimeLines : IsFiniteSet(S) /\ Cardinality(S) \in Nat
<1>1. IsFiniteSet(0 .. size - 1) /\ Cardinality(0 .. size - 1) = size
  <2>1. 0 \in Int /\ size - 1 \in Int /\ size \in Nat
    BY SizeNat
  <2>2. /\ IsFiniteSet(0 .. size - 1)
        /\ Cardinality(0 .. size - 1) = IF 0 > size - 1 THEN 0 ELSE (size - 1) - 0 + 1
    BY <2>1, FS_Interval, Zenon
  <2> QED
    BY <2>1, <2>2
<1>2. PrimeLines \in SUBSET (0 .. size - 1)
  BY LinesTyped DEF PrimeLines
<1>3. IsFiniteSet(PrimeLines) /\ Cardinality(PrimeLines) <= size
  BY <1>1, <1>2, FS_Subset
<1>4. Cardinality(PrimeLines) \in Nat
  BY <1>3, FS_CardinalityType
<1>5. \A S \in SUBSET PrimeLines : IsFiniteSet(S) /\ Cardinality(S) \in Nat
  BY <1>3, FS_Subset, FS_CardinalityType
<1>6. PrimeLines = {p \in DOMAIN number : Prime(number[p])}
  BY LinesTyped, TrialDivision DEF PrimeLines
<1> QED
  BY <1>3, <1>4, <1>5, <1>6, SizeNat DEF PrimeCount

\* A range of whole lines yields the number of its prime lines, and no other.
LEMMA CountIsExact ==
  ASSUME FileOK, NEW r \in WholeRanges
  PROVE  countPrimesInRange(r) = {Cardinality(PrimesIn(r))}
<1>1. /\ r.start \in 0 .. size - 1 /\ r.end \in 0 .. size - 1 /\ size \in Nat
      /\ r.start = 0 \/ r.start - 1 \in newlines
      /\ r.end = size - 1 \/ r.end \in newlines
  BY SizeNat DEF WholeRanges
<1>2. ASSUME NEW p \in Segments(r)
      PROVE  p \in DOMAIN number /\ Line(p) \subseteq Bytes(r) /\ p \in Bytes(r)
  <2>1. p \in r.start .. r.end /\ p \notin newlines /\ (p = r.start \/ p - 1 \in newlines)
    BY DEF Segments, Bytes
  <2>2. p \in LineStarts(size, newlines)
    BY <1>1, <2>1 DEF LineStarts
  <2>3. ASSUME NEW q \in Line(p)
        PROVE  q \in r.start .. r.end
    <3>1. q \in p .. size - 1 /\ \A m \in p .. q : m \notin newlines
      BY DEF Line
    <3>2. q <= r.end
      BY <1>1, <2>1, <3>1
    <3> QED
      BY <1>1, <2>1, <3>1, <3>2
  <2> QED
    BY <2>1, <2>2, <2>3, LinesTyped DEF Bytes
<1>3. WholeLines(r) = Segments(r)
  BY <1>2 DEF WholeLines
<1>4. ASSUME NEW p \in DOMAIN number, p \in Bytes(r)
      PROVE  p \in Segments(r)
  <2>1. p \in 0 .. size - 1 /\ p \notin newlines /\ (p = 0 \/ p - 1 \in newlines)
    BY LinesTyped DEF LineStarts
  <2>2. p = 0 => p = r.start
    BY <1>1, <1>4 DEF Bytes
  <2> QED
    BY <1>4, <2>1, <2>2 DEF Segments
<1>5. {p \in WholeLines(r) : isPrime(number[p])} = PrimesIn(r)
  BY <1>2, <1>3, <1>4 DEF PrimesIn, PrimeLines
<1>6. Cardinality(Segments(r) \ WholeLines(r)) = 0
  BY <1>3, FS_EmptySet
<1>7. PrimesIn(r) \in SUBSET PrimeLines
  BY DEF PrimesIn
<1>8. PICK n \in Nat : n = Cardinality(PrimesIn(r))
  BY <1>7, PrimeLinesFinite
<1>9. countPrimesInRange(r) = n .. (n + 0)
  BY <1>5, <1>6, <1>8 DEF countPrimesInRange
<1> QED
  BY <1>8, <1>9

\* The counts that are on their way to the main thread.
Pairs(f) == UNION {{w} \X (1 .. f[w]) : w \in Workers}
OnTheWay(f) == Cardinality(Pairs(f))
Counts == [Workers -> {Nothing} \cup Nat]
Value(n) == IF n = Nothing THEN 0 ELSE n

LEMMA RowSize ==
  ASSUME NEW w, NEW n \in {Nothing} \cup Nat
  PROVE  IsFiniteSet({w} \X (1 .. n)) /\ Cardinality({w} \X (1 .. n)) = Value(n)
<1>1. IsFiniteSet({w}) /\ Cardinality({w}) = 1
  BY FS_Singleton
<1>2. CASE n = Nothing
  <2>1. {w} \X (1 .. n) = {}
    BY <1>2 DEF Nothing
  <2> QED
    BY <1>2, <2>1, FS_EmptySet DEF Value
<1>3. CASE n \in Nat
  <2>1. IsFiniteSet(1 .. n) /\ Cardinality(1 .. n) = n
    BY <1>3, IntervalSize
  <2>2. /\ IsFiniteSet({w} \X (1 .. n))
        /\ Cardinality({w} \X (1 .. n)) = Cardinality({w}) * Cardinality(1 .. n)
    BY <1>1, <2>1, FS_Product
  <2> QED
    BY <1>1, <1>3, <2>1, <2>2 DEF Value, Nothing
<1> QED
  BY <1>2, <1>3

LEMMA PairsFinite ==
  ASSUME NEW f \in Counts
  PROVE  IsFiniteSet(Pairs(f)) /\ OnTheWay(f) \in Nat
<1> DEFINE Row(w) == {w} \X (1 .. f[w])
           Rows == {Row(w) : w \in Workers}
           g == [w \in Workers |-> Row(w)]
<1>1. IsFiniteSet(Rows)
  <2>1. g \in Surjection(Workers, Rows)
    BY DEF Surjection
  <2>2. IsFiniteSet(Workers)
    BY IntervalSize, PoolAssumption DEF Workers
  <2> HIDE DEF g, Rows
  <2> QED
    BY <2>1, <2>2, FS_Surjection
<1>2. \A R \in Rows : IsFiniteSet(R)
  BY RowSize DEF Counts
<1>3. Pairs(f) = UNION Rows
  BY DEF Pairs
<1> HIDE DEF Rows
<1>4. IsFiniteSet(Pairs(f))
  BY <1>1, <1>2, <1>3, FS_UNION
<1> QED
  BY <1>4, FS_CardinalityType DEF OnTheWay

LEMMA OnTheWayUpdate ==
  ASSUME NEW f \in Counts, NEW g \in Counts, NEW w \in Workers,
         \A v \in Workers \ {w} : g[v] = f[v]
  PROVE  OnTheWay(g) = OnTheWay(f) - Value(f[w]) + Value(g[w])
<1> DEFINE Rest == UNION {{v} \X (1 .. f[v]) : v \in Workers \ {w}}
           RowF == {w} \X (1 .. f[w])
           RowG == {w} \X (1 .. g[w])
<1>1. Pairs(f) = Rest \cup RowF /\ Rest \cap RowF = {}
  BY DEF Pairs
<1>2. Pairs(g) = Rest \cup RowG /\ Rest \cap RowG = {}
  BY DEF Pairs
<1>3. /\ IsFiniteSet(RowF) /\ Cardinality(RowF) = Value(f[w])
      /\ IsFiniteSet(RowG) /\ Cardinality(RowG) = Value(g[w])
      /\ Value(f[w]) \in Nat /\ Value(g[w]) \in Nat
  BY RowSize DEF Counts, Value
<1> HIDE DEF Rest, RowF, RowG
<1>4. IsFiniteSet(Rest)
  <2>1. Rest \in SUBSET Pairs(f)
    BY <1>1
  <2> QED
    BY <2>1, PairsFinite, FS_Subset
<1>5. ASSUME NEW R, IsFiniteSet(R), Rest \cap R = {}
      PROVE  Cardinality(Rest \cup R) = Cardinality(Rest) + Cardinality(R)
  <2>1. Cardinality(Rest \cap R) = 0
    BY <1>5, FS_EmptySet
  <2>2. Cardinality(Rest) \in Nat /\ Cardinality(R) \in Nat
    BY <1>4, <1>5, FS_CardinalityType
  <2>3. Cardinality(Rest \cup R)
          = Cardinality(Rest) + Cardinality(R) - Cardinality(Rest \cap R)
    BY <1>4, <1>5, FS_Union
  <2> QED
    BY <2>1, <2>2, <2>3
<1>6. Cardinality(Rest) \in Nat
  BY <1>4, FS_CardinalityType
<1>7. /\ OnTheWay(f) = Cardinality(Rest) + Cardinality(RowF)
      /\ OnTheWay(g) = Cardinality(Rest) + Cardinality(RowG)
  BY <1>1, <1>2, <1>3, <1>5 DEF OnTheWay
<1> QED
  BY <1>3, <1>6, <1>7

LEMMA NoneOnTheWay ==
  ASSUME NEW f \in Counts, \A w \in Workers : f[w] = Nothing
  PROVE  OnTheWay(f) = 0
<1>1. Pairs(f) = {}
  BY DEF Pairs, Nothing
<1> QED
  BY <1>1, FS_EmptySet DEF OnTheWay

-----------------------------------------------------------------------------
(* The inductive invariant                                                 *)

Slots == WholeRanges \cup {NoChunk, Terminated}

Types ==
  /\ FileOK
  /\ queue \in Seq(WholeRanges) /\ chunk \in [Workers -> Slots] /\ posted \in Counts
  /\ total \in Nat /\ live \subseteq Workers
  /\ promise \in {"new", "pending", "failed", "resolved"}

\* What the promise and the workers are waiting for.
Phases ==
  /\ promise = "new" => /\ queue = <<>> /\ total = 0
                        /\ \A w \in Workers : chunk[w] = NoChunk /\ posted[w] = Nothing
  /\ promise = "resolved" => live = {} /\ queue = <<>> /\ result = total
  /\ promise # "resolved" => result = Nothing
  /\ \A w \in Workers : /\ posted[w] # Nothing => chunk[w] = NoChunk
                        /\ chunk[w] = Terminated => queue = <<>>
                        /\ w \notin live => chunk[w] = Terminated

Disjoint(r, s) == Bytes(r) \cap Bytes(s) = {}

\* No byte is in two ranges.
Apart ==
  /\ \A w, v \in Workers : w # v => Disjoint(chunk[w], chunk[v])
  /\ \A w \in Workers : \A j \in 1 .. Len(queue) : Disjoint(chunk[w], queue[j])
  /\ \A i, j \in 1 .. Len(queue) : i # j => Disjoint(queue[i], queue[j])

\* The prime lines that no worker has counted yet.
Pending(p) ==
  \/ \E w \in Workers : p \in Bytes(chunk[w])
  \/ \E j \in 1 .. Len(queue) : p \in Bytes(queue[j])
Remaining == {p \in PrimeLines : Pending(p)}

NothingLost ==
  promise # "new" => total + OnTheWay(posted) + Cardinality(Remaining) = Cardinality(PrimeLines)

IInv == Types /\ Phases /\ Apart /\ NothingLost

LEMMA EmptySlots == Bytes(NoChunk) = {} /\ Bytes(Terminated) = {} /\ NoChunk # Terminated
BY DEF Bytes, NoChunk, Terminated

LEMMA RangeOrNot == NoChunk \notin WholeRanges /\ Terminated \notin WholeRanges
<1>1. \A r \in WholeRanges : r.end \in 0 .. size - 1
  BY DEF WholeRanges
<1>2. NoChunk.end = -1 /\ Terminated.end = -2
  BY DEF NoChunk, Terminated
<1>3. -1 \notin 0 .. size - 1 /\ -2 \notin 0 .. size - 1
  OBVIOUS
<1> QED
  BY <1>1, <1>2, <1>3

\* Types of what only depends on the file.
LEMMA FileKept ==
  ASSUME UNCHANGED file
  PROVE  /\ FileOK' = FileOK /\ WholeRanges' = WholeRanges /\ Slots' = Slots
         /\ PrimeLines' = PrimeLines
<1>1. size' = size /\ newlines' = newlines /\ number' = number
  BY DEF file
<1>2. WholeRanges' = WholeRanges
  BY <1>1 DEF WholeRanges
<1> QED
  BY <1>1, <1>2 DEF FileOK, Slots, PrimeLines

LEMMA InitIInv == Init => IInv
<1> SUFFICES ASSUME Init PROVE IInv
  OBVIOUS
<1>1. FileOK
  BY DEF Init, FileOK
<1>2. queue = <<>> /\ queue \in Seq(WholeRanges) /\ Len(queue) = 0
  BY EmptySeq DEF Init
<1>3. \A w \in Workers : chunk[w] = NoChunk /\ posted[w] = Nothing
  BY DEF Init
<1>4. chunk \in [Workers -> Slots] /\ posted \in Counts
  BY DEF Init, Slots, Counts
<1>5. Types
  BY <1>1, <1>2, <1>4 DEF Init, Types
<1>6. Phases
  BY <1>2, <1>3, EmptySlots DEF Init, Phases
<1>7. Apart
  BY <1>2, <1>3, EmptySlots DEF Apart, Disjoint
<1> QED
  BY <1>5, <1>6, <1>7 DEF Init, IInv, NothingLost

-----------------------------------------------------------------------------
(* The pool starts                                                         *)

LEMMA StartStep ==
  ASSUME IInv, runPool
  PROVE  IInv'
<1> DEFINE c == computeChunkBoundaries
<1>1. /\ UNCHANGED file /\ posted' = posted /\ total' = total /\ live' = live
      /\ result' = result /\ promise = "new" /\ promise' = "pending"
      /\ chunk' = [w \in Workers |-> IF w <= Len(c) THEN c[w] ELSE Terminated]
      /\ queue' = SubSeq(c, NumWorkers + 1, Len(c))
  BY DEF runPool
<1>2. FileOK /\ total = 0 /\ \A w \in Workers : posted[w] = Nothing
  BY <1>1 DEF IInv, Types, Phases
<1>3. Covers(c, size)
  BY <1>2, Chunks
<1> HIDE DEF c
<1>4. c \in Seq(WholeRanges) /\ Len(c) \in Nat /\ NumWorkers \in Nat
  BY <1>3, LenProperties, PoolAssumption DEF Covers
<1>5. \A i \in 1 .. Len(c) : c[i] \in WholeRanges
  BY <1>4, ElementOfSeq
<1>6. /\ queue' \in Seq(WholeRanges)
      /\ Len(queue') = IF NumWorkers + 1 <= Len(c) THEN Len(c) - NumWorkers ELSE 0
      /\ \A j \in 1 .. Len(c) - NumWorkers : queue'[j] = c[NumWorkers + j]
  <2>1. PICK a \in Int, b \in Int : a = NumWorkers + 1 /\ b = Len(c)
    BY <1>4
  <2>2. \A i \in a .. b : c[i] \in WholeRanges
    BY <1>4, <1>5, <2>1
  <2>3. /\ SubSeq(c, a, b) \in Seq(WholeRanges)
        /\ Len(SubSeq(c, a, b)) = IF a <= b THEN b - a + 1 ELSE 0
        /\ \A i \in 1 .. b - a + 1 : SubSeq(c, a, b)[i] = c[a + i - 1]
    BY <2>2, SubSeqProperties
  <2>4. queue' = SubSeq(c, a, b)
    BY <1>1, <2>1
  <2> HIDE DEF c
  <2>5. /\ queue' \in Seq(WholeRanges)
        /\ Len(queue') = IF a <= b THEN b - a + 1 ELSE 0
        /\ \A i \in 1 .. b - a + 1 : queue'[i] = c[a + i - 1]
    BY <2>3, <2>4
  <2> QED
    BY <1>4, <2>1, <2>5
<1>7. ASSUME NEW w \in Workers
      PROVE  /\ w \in 1 .. NumWorkers
             /\ chunk'[w] = IF w <= Len(c) THEN c[w] ELSE Terminated
             /\ chunk'[w] \in Slots
             /\ w <= Len(c) => w \in 1 .. Len(c)
  BY <1>1, <1>4, <1>5 DEF Workers, Slots
<1>8. Types'
  <2>1. chunk' \in [Workers -> Slots]
    BY <1>1, <1>7
  <2> QED
    BY <1>1, <1>6, <2>1, FileKept DEF IInv, Types
<1>9. Phases'
  <2>1. ASSUME NEW w \in Workers, chunk'[w] = Terminated
        PROVE  queue' = <<>>
    <3>1. ~(w <= Len(c))
      BY <1>5, <1>7, <2>1, RangeOrNot
    <3>2. Len(queue') = 0
      BY <1>4, <1>6, <1>7, <3>1
    <3> QED
      BY <1>6, <3>2, EmptySeq
  <2>2. \A w \in Workers : w \in live
    BY <1>1, EmptySlots DEF IInv, Phases
  <2>3. result = Nothing
    BY <1>1 DEF IInv, Phases
  <2>4. \A w \in Workers : posted'[w] = Nothing /\ w \in live'
    BY <1>1, <1>2, <2>2
  <2> QED
    BY <1>1, <2>1, <2>3, <2>4 DEF Phases
<1>10. \A i, j \in 1 .. Len(c) : i # j => Disjoint(c[i], c[j])
  <2>1. \A i, j \in 1 .. Len(c) : i < j => c[i].end < c[j].start
    BY <1>3 DEF Covers
  <2>2. \A i \in 1 .. Len(c) : c[i].start \in Int /\ c[i].end \in Int
    BY <1>5 DEF WholeRanges
  <2>3. \A i, j \in 1 .. Len(c) : i < j => Disjoint(c[i], c[j])
    BY <2>1, <2>2 DEF Disjoint, Bytes
  <2>4. \A r, s : Disjoint(r, s) => Disjoint(s, r)
    BY DEF Disjoint
  <2> QED
    BY <1>4, <2>3, <2>4
<1>11. ASSUME NEW j \in 1 .. Len(queue')
       PROVE  queue'[j] = c[NumWorkers + j] /\ NumWorkers + j \in 1 .. Len(c)
  BY <1>4, <1>6
<1>12. Apart'
  <2>1. ASSUME NEW w \in Workers, NEW v \in Workers, w # v
        PROVE  Disjoint(chunk'[w], chunk'[v])
    BY <1>7, <1>10, <2>1, EmptySlots DEF Disjoint
  <2>2. ASSUME NEW w \in Workers, NEW j \in 1 .. Len(queue')
        PROVE  Disjoint(chunk'[w], queue'[j])
    <3>1. w # NumWorkers + j
      BY <1>4, <1>7
    <3>2. CASE w <= Len(c)
      BY <1>7, <1>10, <1>11, <3>1, <3>2
    <3>3. CASE ~(w <= Len(c))
      BY <1>7, <3>3, EmptySlots DEF Disjoint
    <3> QED
      BY <3>2, <3>3
  <2>3. ASSUME NEW i \in 1 .. Len(queue'), NEW j \in 1 .. Len(queue'), i # j
        PROVE  Disjoint(queue'[i], queue'[j])
    <3>1. NumWorkers + i # NumWorkers + j
      BY <1>4, <2>3
    <3> QED
      BY <1>10, <1>11, <3>1
  <2> QED
    BY <2>1, <2>2, <2>3 DEF Apart, Disjoint, Bytes
<1>13. NothingLost'
  <2>1. ASSUME NEW p \in PrimeLines
        PROVE  Pending(p)'
    <3>1. p \in 0 .. size - 1
      BY <1>2, LinesTyped DEF PrimeLines
    <3>2. PICK i \in 1 .. Len(c) : p \in Bytes(c[i])
      BY <1>3, <3>1 DEF Covers
    <3>3. CASE i <= NumWorkers
      <4>1. i \in Workers /\ chunk'[i] = c[i]
        BY <1>4, <1>7, <3>3 DEF Workers
      <4> QED
        BY <3>2, <4>1 DEF Pending, Bytes
    <3>4. CASE i > NumWorkers
      <4>1. PICK j \in 1 .. Len(queue') : i = NumWorkers + j
        <5>1. i - NumWorkers \in 1 .. Len(queue') /\ i = NumWorkers + (i - NumWorkers)
          BY <1>4, <1>6, <3>4
        <5> QED
          BY <5>1
      <4>2. queue'[j] = c[i]
        BY <1>11, <4>1
      <4> QED
        BY <3>2, <4>2 DEF Pending, Bytes
    <3> QED
      BY <1>4, <3>3, <3>4
  <2>2. Remaining' = PrimeLines
    BY <1>1, <2>1, FileKept DEF Remaining
  <2>3. OnTheWay(posted) = 0 /\ OnTheWay(posted)' = OnTheWay(posted)
    BY <1>1, <1>2, NoneOnTheWay DEF IInv, Types, OnTheWay, Pairs
  <2>4. Cardinality(PrimeLines) \in Nat /\ Cardinality(PrimeLines)' = Cardinality(PrimeLines)
    BY <1>1, <1>2, PrimeLinesFinite, FileKept
  <2> QED
    BY <1>1, <1>2, <2>2, <2>3, <2>4 DEF NothingLost
<1> QED
  BY <1>8, <1>9, <1>12, <1>13 DEF IInv

-----------------------------------------------------------------------------
(* A worker posts its count                                                *)

LEMMA CountStep ==
  ASSUME IInv, NEW w \in Workers, CountRange(w)
  PROVE  IInv'
<1>1. /\ UNCHANGED file /\ queue' = queue /\ total' = total /\ live' = live
      /\ result' = result /\ promise = "pending" /\ promise' = "pending"
      /\ chunk' = [chunk EXCEPT ![w] = NoChunk]
  BY DEF CountRange
<1>2. /\ FileOK /\ chunk \in [Workers -> Slots] /\ posted \in Counts
      /\ chunk[w] \in WholeRanges /\ posted[w] = Nothing
  BY DEF IInv, Types, Slots, CountRange, Phases
<1>3. PICK n \in Nat : n = Cardinality(PrimesIn(chunk[w]))
  <2>1. PrimesIn(chunk[w]) \in SUBSET PrimeLines
    BY DEF PrimesIn
  <2> QED
    BY <1>2, <2>1, PrimeLinesFinite
<1>4. posted' = [posted EXCEPT ![w] = n]
  <2>1. countPrimesInRange(chunk[w]) = {n}
    BY <1>2, <1>3, CountIsExact
  <2> QED
    BY <2>1 DEF CountRange
<1>5. /\ chunk'[w] = NoChunk /\ \A v \in Workers \ {w} : chunk'[v] = chunk[v]
      /\ chunk' \in [Workers -> Slots]
  BY <1>1, <1>2 DEF Slots
<1>6. /\ posted'[w] = n /\ \A v \in Workers \ {w} : posted'[v] = posted[v]
      /\ posted' \in Counts
  BY <1>2, <1>4 DEF Counts
<1>7. Types'
  BY <1>1, <1>5, <1>6, FileKept DEF IInv, Types
<1>8. Phases'
  <2>1. w \in live
    BY <1>2, RangeOrNot DEF IInv, Phases
  <2> QED
    BY <1>1, <1>5, <1>6, <2>1, EmptySlots DEF IInv, Phases
<1>9. \A v \in Workers : chunk'[v] = chunk[v] \/ Bytes(chunk'[v]) = {}
  BY <1>5, EmptySlots
<1>10. Apart'
  BY <1>1, <1>9 DEF IInv, Apart, Disjoint, Bytes
<1>11. NothingLost'
  <2>1. PrimesIn(chunk[w]) \subseteq Remaining
    BY DEF PrimesIn, Remaining, Pending
  <2>2. Remaining' = Remaining \ PrimesIn(chunk[w])
    <3>1. ASSUME NEW p \in PrimeLines
          PROVE  Pending(p)' <=> Pending(p) /\ p \notin Bytes(chunk[w])
      <4>1. CASE p \in Bytes(chunk[w])
        <5>1. /\ \A v \in Workers \ {w} : p \notin Bytes(chunk[v])
              /\ \A j \in 1 .. Len(queue) : p \notin Bytes(queue[j])
          BY <4>1 DEF IInv, Apart, Disjoint
        <5>2. \A v \in Workers : p \notin Bytes(chunk'[v])
          BY <1>5, <5>1, EmptySlots
        <5> QED
          BY <1>1, <4>1, <5>1, <5>2 DEF Pending, Bytes
      <4>2. CASE p \notin Bytes(chunk[w])
        <5>1. \A v \in Workers : p \in Bytes(chunk'[v]) <=> p \in Bytes(chunk[v])
          BY <1>5, <4>2, EmptySlots
        <5> QED
          BY <1>1, <4>2, <5>1 DEF Pending, Bytes
      <4> QED
        BY <4>1, <4>2
    <3>2. PrimeLines' = PrimeLines
      BY <1>1, FileKept
    <3> QED
      BY <3>1, <3>2 DEF Remaining, PrimesIn
  <2>3. Cardinality(Remaining') = Cardinality(Remaining) - n /\ Cardinality(Remaining) \in Nat
    <3>1. Remaining \in SUBSET PrimeLines /\ Remaining' \in SUBSET PrimeLines
      BY <2>2 DEF Remaining
    <3>2. /\ IsFiniteSet(Remaining') /\ IsFiniteSet(PrimesIn(chunk[w]))
          /\ Cardinality(Remaining') \in Nat /\ Cardinality(Remaining) \in Nat
      BY <1>2, <2>1, <3>1, PrimeLinesFinite
    <3>3. Remaining' \cup PrimesIn(chunk[w]) = Remaining
          /\ Cardinality(Remaining' \cap PrimesIn(chunk[w])) = 0
      BY <2>1, <2>2, FS_EmptySet
    <3>4. Cardinality(Remaining' \cup PrimesIn(chunk[w]))
            = Cardinality(Remaining') + Cardinality(PrimesIn(chunk[w]))
              - Cardinality(Remaining' \cap PrimesIn(chunk[w]))
      BY <3>2, FS_Union
    <3>5. Cardinality(Remaining) = Cardinality(Remaining') + n - 0
      BY <1>3, <3>3, <3>4, Zenon
    <3> QED
      BY <1>3, <3>2, <3>5
  <2>4. OnTheWay(posted') = OnTheWay(posted) + n /\ OnTheWay(posted) \in Nat
    BY <1>2, <1>3, <1>6, OnTheWayUpdate, PairsFinite DEF Value, Nothing
  <2>5. /\ total \in Nat /\ Cardinality(PrimeLines') = Cardinality(PrimeLines)
        /\ total + OnTheWay(posted) + Cardinality(Remaining) = Cardinality(PrimeLines)
    BY <1>1, FileKept DEF IInv, Types, NothingLost
  <2>6. total' + OnTheWay(posted') + Cardinality(Remaining') = Cardinality(PrimeLines')
    BY <1>1, <2>3, <2>4, <2>5
  <2> QED
    BY <2>6 DEF NothingLost, OnTheWay, Pairs
<1> QED
  BY <1>7, <1>8, <1>10, <1>11 DEF IInv

-----------------------------------------------------------------------------
(* The main thread adds a count and hands out the next range               *)

LEMMA MessageStep ==
  ASSUME IInv, NEW w \in Workers, OnMessage(w)
  PROVE  IInv'
<1>1. /\ UNCHANGED file /\ live' = live /\ result' = result
      /\ promise = "pending" /\ promise' = "pending"
      /\ posted[w] # Nothing /\ total' = total + posted[w]
      /\ posted' = [posted EXCEPT ![w] = Nothing] /\ assignNext(w)
  BY DEF OnMessage
<1>2. /\ FileOK /\ chunk \in [Workers -> Slots] /\ posted \in Counts
      /\ chunk[w] = NoChunk /\ posted[w] \in Nat /\ total \in Nat
      /\ queue \in Seq(WholeRanges) /\ Len(queue) \in Nat
  BY <1>1, LenProperties DEF IInv, Types, Phases, Counts
<1>3. PICK r : chunk' = [chunk EXCEPT ![w] = r]
               /\ \/ queue = <<>> /\ r = Terminated /\ queue' = queue
                  \/ queue # <<>> /\ r = Head(queue) /\ queue' = Tail(queue)
  BY <1>1 DEF assignNext
<1>4. \/ queue = <<>> /\ r = Terminated /\ queue' = queue
      \/ /\ queue # <<>> /\ r \in WholeRanges /\ r = queue[1] /\ Len(queue) > 0
         /\ queue' \in Seq(WholeRanges) /\ Len(queue') = Len(queue) - 1
         /\ \A j \in 1 .. Len(queue') : queue'[j] = queue[j + 1]
  <2>1. CASE queue # <<>>
    <3>1. Len(queue) > 0
      BY <1>2, <2>1, EmptySeq
    <3>2. r = queue[1] /\ queue' = Tail(queue)
      BY <1>3, <2>1
    <3>3. queue[1] \in WholeRanges
      BY <1>2, <3>1, ElementOfSeq
    <3>4. /\ Tail(queue) \in Seq(WholeRanges) /\ Len(Tail(queue)) = Len(queue) - 1
          /\ \A j \in 1 .. Len(Tail(queue)) : Tail(queue)[j] = queue[j + 1]
      BY <1>2, <2>1, HeadTailProperties
    <3>5. /\ queue' \in Seq(WholeRanges) /\ Len(queue') = Len(queue) - 1
          /\ \A j \in 1 .. Len(queue') : queue'[j] = queue[j + 1]
      BY <3>2, <3>4
    <3> QED
      BY <2>1, <3>1, <3>2, <3>3, <3>5
  <2> QED
    BY <1>3, <2>1
<1>5. /\ chunk'[w] = r /\ \A v \in Workers \ {w} : chunk'[v] = chunk[v]
      /\ chunk' \in [Workers -> Slots] /\ r \in Slots /\ queue' \in Seq(WholeRanges)
  BY <1>2, <1>3, <1>4 DEF Slots
<1>6. /\ posted'[w] = Nothing /\ \A v \in Workers \ {w} : posted'[v] = posted[v]
      /\ posted' \in Counts
  BY <1>1, <1>2 DEF Counts
<1>7. Types'
  BY <1>1, <1>2, <1>5, <1>6, FileKept DEF IInv, Types
<1>8. Phases'
  <2>1. w \in live
    BY <1>2, EmptySlots DEF IInv, Phases
  <2>2. queue = <<>> => queue' = <<>>
    BY <1>3
  <2>3. r = Terminated => queue' = <<>>
    BY <1>4, RangeOrNot
  <2> QED
    BY <1>1, <1>5, <1>6, <2>1, <2>2, <2>3 DEF IInv, Phases
<1>9. Bytes(chunk[w]) = {}
  BY <1>2, EmptySlots
<1>10. Apart'
  <2>1. CASE queue = <<>>
    <3>1. r = Terminated /\ queue' = queue /\ Bytes(chunk'[w]) = {}
      BY <1>4, <1>5, <2>1, EmptySlots
    <3> QED
      BY <1>5, <3>1 DEF IInv, Apart, Disjoint, Bytes
  <2>2. CASE queue # <<>>
    <3>1. /\ chunk'[w] = queue[1] /\ Len(queue') = Len(queue) - 1 /\ Len(queue) > 0
          /\ \A j \in 1 .. Len(queue') : queue'[j] = queue[j + 1] /\ j + 1 \in 1 .. Len(queue)
      BY <1>2, <1>4, <1>5, <2>2
    <3>2. ASSUME NEW v \in Workers, v # w
          PROVE  Disjoint(chunk'[w], chunk'[v]) /\ Disjoint(chunk'[v], chunk'[w])
      <4>1. Disjoint(chunk[v], queue[1]) /\ chunk'[v] = chunk[v]
        BY <1>2, <1>5, <3>1, <3>2 DEF IInv, Apart
      <4> QED
        BY <3>1, <4>1 DEF Disjoint
    <3>3. ASSUME NEW v \in Workers, NEW j \in 1 .. Len(queue')
          PROVE  Disjoint(chunk'[v], queue'[j])
      <4>1. queue'[j] = queue[j + 1] /\ j + 1 \in 1 .. Len(queue) /\ 1 \in 1 .. Len(queue)
            /\ j + 1 # 1
        BY <1>2, <3>1
      <4>2. CASE v = w
        BY <3>1, <4>1, <4>2 DEF IInv, Apart
      <4>3. CASE v # w
        BY <1>5, <4>1, <4>3 DEF IInv, Apart
      <4> QED
        BY <4>2, <4>3
    <3>4. ASSUME NEW i \in 1 .. Len(queue'), NEW j \in 1 .. Len(queue'), i # j
          PROVE  Disjoint(queue'[i], queue'[j])
      <4>1. i + 1 # j + 1
        BY <1>2, <3>1, <3>4
      <4> QED
        BY <3>1, <4>1 DEF IInv, Apart
    <3>5. \A v, u \in Workers : v # w /\ u # w /\ v # u => Disjoint(chunk'[v], chunk'[u])
      BY <1>5 DEF IInv, Apart
    <3> QED
      BY <3>2, <3>3, <3>4, <3>5 DEF Apart, Disjoint, Bytes
  <2> QED
    BY <2>1, <2>2
<1>11. NothingLost'
  <2>1. ASSUME NEW p
        PROVE  Pending(p)' <=> Pending(p)
    <3>1. CASE queue = <<>>
      <4>1. r = Terminated /\ queue' = queue /\ Bytes(chunk'[w]) = {}
        BY <1>4, <1>5, <3>1, EmptySlots
      <4>2. \A v \in Workers : p \in Bytes(chunk'[v]) <=> p \in Bytes(chunk[v])
        BY <1>5, <1>9, <4>1
      <4> QED
        BY <4>1, <4>2 DEF Pending, Bytes
    <3>2. CASE queue # <<>>
      <4>1. /\ chunk'[w] = queue[1] /\ Len(queue') = Len(queue) - 1 /\ Len(queue) > 0
            /\ \A j \in 1 .. Len(queue') : queue'[j] = queue[j + 1]
        BY <1>4, <1>5, <3>2
      <4>2. (\E j \in 1 .. Len(queue) : p \in Bytes(queue[j])) <=>
              \/ p \in Bytes(queue[1])
              \/ \E j \in 1 .. Len(queue') : p \in Bytes(queue'[j])
        <5>1. ASSUME NEW j \in 1 .. Len(queue), p \in Bytes(queue[j]), j # 1
              PROVE  \E k \in 1 .. Len(queue') : p \in Bytes(queue'[k])
          <6>1. j - 1 \in 1 .. Len(queue') /\ (j - 1) + 1 = j
            BY <1>2, <4>1, <5>1
          <6>2. queue'[j - 1] = queue[j]
            BY <4>1, <6>1
          <6> QED
            BY <5>1, <6>1, <6>2
        <5>2. ASSUME NEW j \in 1 .. Len(queue'), p \in Bytes(queue'[j])
              PROVE  \E k \in 1 .. Len(queue) : p \in Bytes(queue[k])
          <6>1. j + 1 \in 1 .. Len(queue) /\ queue'[j] = queue[j + 1]
            BY <1>2, <4>1
          <6> QED
            BY <5>2, <6>1
        <5>3. 1 \in 1 .. Len(queue)
          BY <1>2, <4>1
        <5> QED
          BY <5>1, <5>2, <5>3
      <4>3. (\E v \in Workers : p \in Bytes(chunk'[v])) <=>
              \/ p \in Bytes(queue[1])
              \/ \E v \in Workers : p \in Bytes(chunk[v])
        BY <1>5, <1>9, <4>1
      <4>4. Pending(p)' <=> \/ \E v \in Workers : p \in Bytes(chunk'[v])
                            \/ \E j \in 1 .. Len(queue') : p \in Bytes(queue'[j])
        BY DEF Pending, Bytes
      <4> QED
        BY <4>2, <4>3, <4>4 DEF Pending
    <3> QED
      BY <3>1, <3>2
  <2>2. PrimeLines' = PrimeLines
    BY <1>1, FileKept
  <2>3. Remaining' = Remaining
    BY <2>1, <2>2 DEF Remaining
  <2>4. Cardinality(Remaining) \in Nat
    <3>1. Remaining \in SUBSET PrimeLines
      BY DEF Remaining
    <3> QED
      BY <1>2, <3>1, PrimeLinesFinite
  <2>5. OnTheWay(posted') = OnTheWay(posted) - posted[w] /\ OnTheWay(posted) \in Nat
    <3>1. OnTheWay(posted') = OnTheWay(posted) - Value(posted[w]) + Value(posted'[w])
      BY <1>2, <1>6, OnTheWayUpdate
    <3>2. Value(posted[w]) = posted[w] /\ Value(posted'[w]) = 0
      BY <1>1, <1>6 DEF Value
    <3> QED
      BY <1>2, <3>1, <3>2, PairsFinite
  <2>6. total + OnTheWay(posted) + Cardinality(Remaining) = Cardinality(PrimeLines)
    BY <1>1 DEF IInv, NothingLost
  <2>7. total' + OnTheWay(posted') + Cardinality(Remaining') = Cardinality(PrimeLines')
    BY <1>1, <1>2, <2>2, <2>3, <2>4, <2>5, <2>6
  <2> QED
    BY <2>7 DEF NothingLost, OnTheWay, Pairs
<1> QED
  BY <1>7, <1>8, <1>10, <1>11 DEF IInv

-----------------------------------------------------------------------------
(* A worker exits; the other steps                                         *)

\* What the invariant says is kept while ranges and counts stay as they are.
LEMMA RangesKept ==
  ASSUME IInv, UNCHANGED <<file, queue, chunk, posted, total>>, promise # "new"
  PROVE  Apart' /\ NothingLost'
<1>1. UNCHANGED file /\ PrimeLines' = PrimeLines
  BY FileKept
<1>2. Remaining' = Remaining /\ OnTheWay(posted)' = OnTheWay(posted)
  BY <1>1 DEF Remaining, Pending, Bytes, OnTheWay, Pairs
<1>3. NothingLost'
  BY <1>1, <1>2 DEF IInv, NothingLost
<1> QED
  BY <1>3 DEF IInv, Apart, Disjoint, Bytes

LEMMA ExitStep ==
  ASSUME IInv, NEW w \in Workers, OnExit(w)
  PROVE  IInv'
<1>1. /\ UNCHANGED file /\ queue' = queue /\ chunk' = chunk /\ posted' = posted
      /\ total' = total /\ live' = live \ {w} /\ promise = "pending" /\ chunk[w] = Terminated
  BY DEF OnExit
<1>2. \/ live = {w} /\ promise' = "resolved" /\ result' = total
      \/ promise' = promise /\ result' = result
  BY DEF OnExit
<1>3. Types'
  BY <1>1, <1>2, FileKept DEF IInv, Types
<1>4. queue = <<>>
  BY <1>1 DEF IInv, Phases
<1>5. Phases'
  BY <1>1, <1>2, <1>4 DEF IInv, Phases
<1>6. Apart' /\ NothingLost'
  BY <1>1, RangesKept
<1> QED
  BY <1>3, <1>5, <1>6 DEF IInv

LEMMA FailStep ==
  ASSUME IInv, NEW w \in Workers, FailRange(w)
  PROVE  IInv'
<1>1. /\ UNCHANGED file /\ queue' = queue /\ chunk' = chunk /\ posted' = posted
      /\ total' = total /\ live' = live /\ result' = result
      /\ promise = "pending" /\ promise' = "failed"
  BY DEF FailRange
<1>2. Types' /\ Phases'
  BY <1>1, FileKept DEF IInv, Types, Phases
<1>3. Apart' /\ NothingLost'
  BY <1>1, RangesKept
<1> QED
  BY <1>2, <1>3 DEF IInv

LEMMA StutterStep ==
  ASSUME IInv, UNCHANGED vars
  PROVE  IInv'
<1>1. /\ UNCHANGED file /\ queue' = queue /\ chunk' = chunk /\ posted' = posted
      /\ total' = total /\ live' = live /\ result' = result /\ promise' = promise
  BY DEF vars
<1>2. Types' /\ Phases'
  BY <1>1, FileKept DEF IInv, Types, Phases
<1>3. Apart'
  BY <1>1 DEF IInv, Apart, Disjoint, Bytes
<1>4. NothingLost'
  <2>1. CASE promise = "new"
    BY <1>1, <2>1 DEF NothingLost
  <2>2. CASE promise # "new"
    BY <1>1, <2>2, RangesKept
  <2> QED
    BY <2>1, <2>2
<1> QED
  BY <1>2, <1>3, <1>4 DEF IInv

LEMMA Inductive == Spec => []IInv
<1>1. IInv /\ [Next]_vars => IInv'
  BY StartStep, CountStep, MessageStep, ExitStep, FailStep, StutterStep DEF Next, Settled
<1> QED
  BY <1>1, InitIInv, PTL DEF Spec

-----------------------------------------------------------------------------
(* Theorems                                                                *)

LEMMA TotalBound ==
  ASSUME IInv
  PROVE  total \in 0 .. size /\ size \in Nat
<1>1. FileOK /\ total \in Nat /\ posted \in Counts
  BY DEF IInv, Types
<1>2. Cardinality(PrimeLines) \in 0 .. size /\ size \in Nat
  BY <1>1, PrimeLinesFinite, SizeNat
<1>3. OnTheWay(posted) \in Nat
  BY <1>1, PairsFinite
<1>4. Cardinality(Remaining) \in Nat
  <2>1. Remaining \in SUBSET PrimeLines
    BY DEF Remaining
  <2> QED
    BY <1>1, <2>1, PrimeLinesFinite
<1>5. promise = "new" => total = 0
  BY DEF IInv, Phases
<1>6. promise # "new" => total <= Cardinality(PrimeLines)
  BY <1>1, <1>2, <1>3, <1>4 DEF IInv, NothingLost
<1> QED
  BY <1>1, <1>2, <1>5, <1>6

\* The sum never exceeds the number of bytes and what is queued, counted or
\* posted are ranges of the file and counts (pool.ts).
THEOREM TypeCorrect == Spec => []TypeOK
<1>1. IInv => TypeOK
  <2> SUFFICES ASSUME IInv PROVE TypeOK
    OBVIOUS
  <2>1. total \in 0 .. size /\ size \in Nat
    BY TotalBound
  <2>2. WholeRanges \subseteq Ranges /\ NoChunk \in Ranges /\ Terminated \in Ranges
    BY <2>1 DEF WholeRanges, Ranges, NoChunk, Terminated
  <2>3. queue \in Seq(Ranges)
    <3>1. queue \in Seq(WholeRanges)
      BY DEF IInv, Types
    <3> QED
      BY <2>2, <3>1, SeqMonotonic
  <2>4. chunk \in [Workers -> Ranges]
    BY <2>2 DEF IInv, Types, Slots
  <2>5. result \in {Nothing} \cup 0 .. size
    BY <2>1 DEF IInv, Phases
  <2> QED
    BY <2>1, <2>3, <2>4, <2>5 DEF IInv, Types, FileOK, Counts, TypeOK
<1> QED
  BY <1>1, Inductive, PTL

\* The pool resolves with the number of lines that hold a prime: none is
\* counted twice, missed, cut in two or lost (chunk.ts, pool.ts, worker.ts).
THEOREM CountIsCorrect == Spec => []CountCorrect
<1>1. IInv => CountCorrect
  <2> SUFFICES ASSUME IInv, promise = "resolved" PROVE result = PrimeCount
    BY DEF CountCorrect
  <2>1. /\ FileOK /\ live = {} /\ queue = <<>> /\ result = total /\ total \in Nat
        /\ posted \in Counts
    BY DEF IInv, Types, Phases
  <2>2. \A w \in Workers : chunk[w] = Terminated
    BY <2>1 DEF IInv, Phases
  <2>3. OnTheWay(posted) = 0
    <3>1. \A w \in Workers : posted[w] = Nothing
      BY <2>2, EmptySlots DEF IInv, Phases
    <3> QED
      BY <2>1, <3>1, NoneOnTheWay
  <2>4. Cardinality(Remaining) = 0
    <3>1. Len(queue) = 0
      BY <2>1, EmptySeq
    <3>2. \A p : ~Pending(p)
      BY <2>2, <3>1, EmptySlots DEF Pending
    <3>3. Remaining = {}
      BY <3>2 DEF Remaining
    <3> QED
      BY <3>3, FS_EmptySet
  <2>5. PrimeCount = Cardinality(PrimeLines)
    BY <2>1, PrimeLinesFinite
  <2> QED
    BY <2>1, <2>3, <2>4, <2>5 DEF IInv, NothingLost
<1> QED
  BY <1>1, Inductive, PTL

\* No worker is let go while a range waits: "no core sits idle" (pool.ts).
THEOREM WorkersBusy == Spec => []NoIdleWorker
<1>1. IInv => NoIdleWorker
  BY DEF IInv, Phases, NoIdleWorker
<1> QED
  BY <1>1, Inductive, PTL

\* The ranges are consecutive, cover the file and end at newlines, whatever the
\* file, its size and the number of cores: "no line is ever split across two
\* ranges or counted in both" (chunk.ts).
THEOREM WholeLinesOnly == Spec => []ChunksAreWholeLines
<1>1. IInv => ChunksAreWholeLines
  <2> SUFFICES ASSUME IInv PROVE ChunksAreWholeLines
    OBVIOUS
  <2> DEFINE c == computeChunkBoundaries
  <2>1. Covers(c, size) /\ size \in Nat
    BY Chunks, SizeNat DEF IInv, Types
  <2> HIDE DEF c
  <2>2. size > 0 => c # <<>> /\ c[1].start = 0 /\ c[Len(c)].end = size - 1
    BY <2>1 DEF Covers
  <2>3. ASSUME NEW i \in 1 .. Len(c) - 1
        PROVE  c[i + 1].start = c[i].end + 1 /\ c[i].end \in newlines
    <3>1. Len(c) \in Nat /\ i \in 1 .. Len(c) /\ i + 1 \in 1 .. Len(c)
      BY <2>1, LenProperties DEF Covers
    <3>2. c[i] \in WholeRanges /\ c[i + 1] \in WholeRanges
      BY <2>1, <3>1, ElementOfSeq DEF Covers
    <3>3. c[i + 1].start = c[i].end + 1
      BY <2>1 DEF Covers
    <3>4. c[i].end # size - 1
      BY <2>1, <3>2, <3>3 DEF WholeRanges
    <3> QED
      BY <3>2, <3>3, <3>4 DEF WholeRanges
  <2> QED
    BY <2>2, <2>3 DEF ChunksAreWholeLines, c
<1> QED
  BY <1>1, Inductive, PTL
=============================================================================

---------------------------- MODULE HashMap_proofs ----------------------------
(***************************************************************************)
(* MyHashMap, for every set of keys, every hash function, entry limit and  *)
(* threshold: its chains stay searchable across resizes, their average     *)
(* length within the threshold, and put, get and remove answer as those of *)
(* a bounded map.                                                          *)
(***************************************************************************)
EXTENDS HashMap, FiniteSetTheorems, TLAPS

-----------------------------------------------------------------------------
(* Bucket arrays *)

\* A bucket array in which the scan of one chain finds every entry.
Chained(bs) ==
  /\ Length(bs) \in Nat /\ Length(bs) >= InitialBucketCount
  /\ bs \in [0 .. Length(bs) - 1 -> SUBSET Entry]
  /\ \A i \in DOMAIN bs : \A e \in bs[i] :
       /\ i = indexFor(e.key, Length(bs))
       /\ \A d \in bs[i] : d.key = e.key => d = e

\* The length of an array is the bound of its domain.
LEMMA LengthOfArray ==
  ASSUME NEW n \in Nat, NEW bs, DOMAIN bs = 0 .. n - 1
  PROVE  Length(bs) = n
BY FS_Interval DEF Length

\* `>>> 0` and `%` yield an index of the array, whatever the hash is.
LEMMA IndexInRange ==
  ASSUME NEW k \in Keys, NEW n \in Nat \ {0}
  PROVE  indexFor(k, n) \in 0 .. n - 1
<1>1. Hash[k] \in Int /\ WordSize \in Nat \ {0}
  BY HashMapAssumption
<1>2. Hash[k] % WordSize \in 0 .. WordSize - 1
  BY <1>1
<1> QED
  BY <1>2 DEF indexFor

\* An entry of a chained array is in the chain its key is looked up in.
LEMMA EntryPlace ==
  ASSUME NEW bs, Chained(bs), NEW e \in Entries(bs)
  PROVE  /\ e \in Entry /\ indexFor(e.key, Length(bs)) \in DOMAIN bs
         /\ e \in bs[indexFor(e.key, Length(bs))]
<1>1. PICK i \in DOMAIN bs : e \in bs[i]
  BY DEF Entries
<1>2. i = indexFor(e.key, Length(bs)) /\ bs[i] \in SUBSET Entry
  BY <1>1 DEF Chained
<1> QED
  BY <1>1, <1>2

\* No key has two entries, in one chain or in two.
LEMMA OneEntryPerKey ==
  ASSUME NEW bs, Chained(bs), NEW d \in Entries(bs), NEW e \in Entries(bs), d.key = e.key
  PROVE  d = e
<1>1. PICK i \in DOMAIN bs : e \in bs[i]
  BY DEF Entries
<1>2. PICK j \in DOMAIN bs : d \in bs[j]
  BY DEF Entries
<1>3. i = indexFor(e.key, Length(bs)) /\ j = indexFor(d.key, Length(bs))
  BY <1>1, <1>2 DEF Chained
<1> QED
  BY <1>1, <1>2, <1>3 DEF Chained

\* createBuckets: an array without entries.
LEMMA EmptyChained ==
  ASSUME NEW n \in Nat, n >= InitialBucketCount, NEW bs, bs = createBuckets(n)
  PROVE  Chained(bs) /\ Length(bs) = n /\ Entries(bs) = {}
<1>1. DOMAIN bs = 0 .. n - 1 /\ \A i \in 0 .. n - 1 : bs[i] = {}
  BY DEF createBuckets
<1>2. Length(bs) = n
  BY <1>1, LengthOfArray
<1>3. bs \in [0 .. n - 1 -> SUBSET Entry]
  BY DEF createBuckets
<1> QED
  BY <1>1, <1>2, <1>3 DEF Chained, Entries

\* resize: twice the chains, the same entries, and each is found again.
LEMMA ResizeChained ==
  ASSUME NEW bs, Chained(bs), NEW cs, cs = resize(bs)
  PROVE  Chained(cs) /\ Length(cs) = 2 * Length(bs) /\ Entries(cs) = Entries(bs)
<1> DEFINE n == 2 * Length(bs)
<1>0. n \in Nat \ {0} /\ n >= InitialBucketCount
  BY HashMapAssumption DEF Chained
<1>1. cs = [i \in 0 .. n - 1 |-> {e \in Entries(bs) : indexFor(e.key, n) = i}]
  BY DEF resize
<1>2. DOMAIN cs = 0 .. n - 1 /\ \A i \in 0 .. n - 1 : cs[i] = {e \in Entries(bs) : indexFor(e.key, n) = i}
  BY <1>1
<1>3. Length(cs) = n
  BY <1>0, <1>2, LengthOfArray
<1>4. \A e \in Entries(bs) : e \in Entry /\ e.key \in Keys
  BY EntryPlace DEF Entry
<1> HIDE DEF n
<1>5. cs \in [0 .. n - 1 -> SUBSET Entry]
  BY <1>1, <1>4
<1>6. Entries(cs) = Entries(bs)
  <2>1. ASSUME NEW e \in Entries(cs) PROVE e \in Entries(bs)
    BY <1>2 DEF Entries
  <2>2. ASSUME NEW e \in Entries(bs) PROVE e \in Entries(cs)
    <3>1. indexFor(e.key, n) \in 0 .. n - 1
      BY <1>0, <1>4, IndexInRange
    <3>2. e \in cs[indexFor(e.key, n)]
      BY <1>2, <3>1
    <3> QED
      BY <1>2, <3>1, <3>2 DEF Entries
  <2> QED
    BY <2>1, <2>2
<1>7. ASSUME NEW i \in DOMAIN cs, NEW e \in cs[i]
      PROVE  i = indexFor(e.key, n) /\ \A d \in cs[i] : d.key = e.key => d = e
  BY <1>2, <1>7, OneEntryPerKey
<1> QED
  BY <1>0, <1>3, <1>5, <1>6, <1>7 DEF Chained, n

\* What push and splice make of the array.
Added(bs, x)   == [bs EXCEPT ![indexFor(x.key, Length(bs))] = @ \cup {x}]
Dropped(bs, e) == [bs EXCEPT ![indexFor(e.key, Length(bs))] = @ \ {e}]

\* push of an entry with a new key to the chain of its key.
LEMMA AddChained ==
  ASSUME NEW bs, Chained(bs), NEW x \in Entry, \A e \in Entries(bs) : e.key # x.key,
         NEW cs, cs = Added(bs, x)
  PROVE  Chained(cs) /\ Length(cs) = Length(bs) /\ Entries(cs) = Entries(bs) \cup {x}
<1> SUFFICES ASSUME NEW n, n = Length(bs), NEW j, j = indexFor(x.key, n),
                    cs = [bs EXCEPT ![j] = @ \cup {x}]
             PROVE  Chained(cs) /\ Length(cs) = n /\ Entries(cs) = Entries(bs) \cup {x}
  BY DEF Added
<1>0. n \in Nat \ {0} /\ n >= InitialBucketCount /\ x.key \in Keys
  BY HashMapAssumption DEF Chained, Entry
<1>1. j \in 0 .. n - 1
  BY <1>0, IndexInRange
<1>2. DOMAIN bs = 0 .. n - 1 /\ \A i \in 0 .. n - 1 : bs[i] \subseteq Entry
  BY DEF Chained
<1>3. DOMAIN cs = 0 .. n - 1 /\ Length(cs) = n
  BY <1>0, <1>2, LengthOfArray
<1>4. \A i \in 0 .. n - 1 : cs[i] = IF i = j THEN bs[i] \cup {x} ELSE bs[i]
  BY <1>2
<1>5. cs \in [0 .. n - 1 -> SUBSET Entry]
  <2>1. cs = [i \in 0 .. n - 1 |-> cs[i]]
    BY <1>2, Zenon
  <2>2. \A i \in 0 .. n - 1 : cs[i] \subseteq Entry
    BY <1>2, <1>4
  <2> QED
    BY <2>1, <2>2, Zenon
<1>6. Entries(cs) = Entries(bs) \cup {x}
  <2>1. ASSUME NEW d \in Entries(cs) PROVE d \in Entries(bs) \cup {x}
    <3>1. PICK i \in 0 .. n - 1 : d \in cs[i]
      BY <1>3 DEF Entries
    <3>2. d \in bs[i] \cup {x}
      BY <1>4, <3>1
    <3> QED
      BY <1>2, <3>2 DEF Entries
  <2>2. ASSUME NEW d \in Entries(bs) PROVE d \in Entries(cs)
    <3>1. PICK i \in 0 .. n - 1 : d \in bs[i]
      BY <1>2 DEF Entries
    <3>2. d \in cs[i]
      BY <1>4, <3>1
    <3> QED
      BY <1>3, <3>2 DEF Entries
  <2>3. x \in Entries(cs)
    <3>1. cs[j] = bs[j] \cup {x}
      BY <1>1, <1>2
    <3> QED
      BY <1>1, <1>3, <3>1 DEF Entries
  <2> QED
    BY <2>1, <2>2, <2>3
<1>7. ASSUME NEW i \in DOMAIN cs, NEW e \in cs[i]
      PROVE  i = indexFor(e.key, n) /\ \A d \in cs[i] : d.key = e.key => d = e
  <2>1. \A d \in bs[i] : d.key # x.key
    BY <1>2, <1>3 DEF Entries
  <2>2. ASSUME NEW d \in bs[i]
        PROVE  i = indexFor(d.key, n) /\ \A c \in bs[i] : c.key = d.key => c = d
    BY <1>2, <1>3 DEF Chained
  <2>3. CASE e \in bs[i]
    BY <1>3, <1>4, <2>1, <2>2, <2>3
  <2>4. CASE e \notin bs[i]
    BY <1>3, <1>4, <1>7, <2>1, <2>4
  <2> QED
    BY <2>3, <2>4
<1>8. Chained(cs)
  <2>1. Length(cs) \in Nat /\ Length(cs) >= InitialBucketCount
    BY <1>0, <1>3
  <2>2. cs \in [0 .. Length(cs) - 1 -> SUBSET Entry]
    BY <1>3, <1>5
  <2>3. \A i \in DOMAIN cs : \A e1 \in cs[i] :
          i = indexFor(e1.key, Length(cs)) /\ \A d1 \in cs[i] : d1.key = e1.key => d1 = e1
    BY <1>3, <1>7
  <2> QED
    BY <2>1, <2>2, <2>3 DEF Chained
<1> QED
  BY <1>3, <1>6, <1>8

\* splice of an entry out of its chain.
LEMMA DropChained ==
  ASSUME NEW bs, Chained(bs), NEW e \in Entries(bs),
         NEW cs, cs = Dropped(bs, e)
  PROVE  Chained(cs) /\ Length(cs) = Length(bs) /\ Entries(cs) = Entries(bs) \ {e}
<1> SUFFICES ASSUME NEW n, n = Length(bs), NEW j, j = indexFor(e.key, n),
                    cs = [bs EXCEPT ![j] = @ \ {e}]
             PROVE  Chained(cs) /\ Length(cs) = n /\ Entries(cs) = Entries(bs) \ {e}
  BY DEF Dropped
<1>0. n \in Nat /\ n >= InitialBucketCount
  BY DEF Chained
<1>1. j \in 0 .. n - 1
  BY EntryPlace DEF Chained
<1>2. DOMAIN bs = 0 .. n - 1 /\ \A i \in 0 .. n - 1 : bs[i] \subseteq Entry
  BY DEF Chained
<1>3. DOMAIN cs = 0 .. n - 1 /\ Length(cs) = n
  BY <1>0, <1>2, LengthOfArray
<1>4. \A i \in 0 .. n - 1 : cs[i] = IF i = j THEN bs[i] \ {e} ELSE bs[i]
  BY <1>2
<1>5. cs \in [0 .. n - 1 -> SUBSET Entry]
  BY <1>2, <1>3, <1>4
<1>6. \A i \in 0 .. n - 1 : e \in bs[i] => i = j
  BY <1>2 DEF Chained
<1>7. Entries(cs) = Entries(bs) \ {e}
  <2>1. ASSUME NEW d \in Entries(cs) PROVE d \in Entries(bs) \ {e}
    <3>1. PICK i \in 0 .. n - 1 : d \in cs[i]
      BY <1>3 DEF Entries
    <3>2. d \in bs[i] /\ d # e
      BY <1>0, <1>1, <1>4, <1>6, <3>1
    <3> QED
      BY <1>2, <3>2 DEF Entries
  <2>2. ASSUME NEW d \in Entries(bs) \ {e} PROVE d \in Entries(cs)
    <3>1. PICK i \in 0 .. n - 1 : d \in bs[i]
      BY <1>2 DEF Entries
    <3>2. d \in cs[i]
      BY <1>4, <3>1
    <3> QED
      BY <1>3, <3>2 DEF Entries
  <2> QED
    BY <2>1, <2>2
<1>8. ASSUME NEW i \in DOMAIN cs, NEW d \in cs[i]
      PROVE  i = indexFor(d.key, n) /\ \A c \in cs[i] : c.key = d.key => c = d
  <2>1. d \in bs[i] /\ cs[i] \subseteq bs[i]
    BY <1>3, <1>4, <1>8
  <2> QED
    BY <1>2, <1>3, <2>1 DEF Chained
<1>9. Chained(cs)
  <2>1. Length(cs) \in Nat /\ Length(cs) >= InitialBucketCount
    BY <1>0, <1>3
  <2>2. cs \in [0 .. Length(cs) - 1 -> SUBSET Entry]
    BY <1>3, <1>5
  <2>3. \A i \in DOMAIN cs : \A e1 \in cs[i] :
          i = indexFor(e1.key, Length(cs)) /\ \A d1 \in cs[i] : d1.key = e1.key => d1 = e1
    BY <1>3, <1>8
  <2> QED
    BY <2>1, <2>2, <2>3 DEF Chained
<1> QED
  BY <1>3, <1>7, <1>9

-----------------------------------------------------------------------------
(* The inductive invariant *)

MapInv ==
  /\ Chained(buckets)
  /\ IsFiniteSet(Entries(buckets)) /\ entryCount = Cardinality(Entries(buckets))
  /\ LoadBounded
  /\ answer \in Answers \cup {NoAnswer}

\* The scan of its chain finds a key's entry wherever in the map there is one.
LEMMA FoundIsAll ==
  ASSUME Chained(buckets), NEW k \in Keys
  PROVE  Found(k) = {e \in Entries(buckets) : e.key = k}
<1>1. index(k) \in DOMAIN buckets
  BY HashMapAssumption, IndexInRange DEF index, Chained
<1>2. ASSUME NEW e \in Found(k) PROVE e \in Entries(buckets) /\ e.key = k
  BY <1>1 DEF Found, Entries
<1>3. ASSUME NEW e \in Entries(buckets), e.key = k PROVE e \in Found(k)
  BY <1>3, EntryPlace DEF Found, index
<1> QED
  BY <1>2, <1>3

\* One resize is enough: the threshold allows an initial array with one entry.
LEMMA OneResizeIsEnough ==
  ASSUME NEW c \in Nat, NEW n \in Nat, NEW i \in Nat, NEW num \in Nat, NEW den \in Nat,
         den <= num * i, n >= i, c * den <= num * n
  PROVE  (c + 1) * den <= num * (2 * n)
<1>1. PICK d \in Nat : n = i + d
  BY n - i \in Nat
<1>2. num * n = num * i + num * d /\ num * d \in Nat /\ num * i \in Nat /\ num * n \in Nat
  BY <1>1
<1>3. den <= num * n
  BY <1>2
<1>4. (c + 1) * den = c * den + den /\ num * (2 * n) = num * n + num * n /\ c * den \in Nat
  BY SMT
<1> QED
  BY <1>2, <1>3, <1>4

\* put of a key that is there replaces its entry and nothing else.
LEMMA UpdateEffect ==
  ASSUME MapInv, NEW k \in Keys, NEW v \in Values, Update(k, v)
  PROVE  /\ Chained(buckets') /\ Length(buckets') = Length(buckets)
         /\ \E e \in Entries(buckets) :
              e.key = k /\ Entries(buckets') = (Entries(buckets) \ {e}) \cup {[key |-> k, value |-> v]}
<1> DEFINE x == [key |-> k, value |-> v]
<1>1. PICK e \in Found(k) :
        buckets' = [buckets EXCEPT ![index(k)] = (@ \ {e}) \cup {x}]
  BY DEF Update
<1>2. e \in Entries(buckets) /\ e.key = k
  BY <1>1, FoundIsAll DEF MapInv
<1> DEFINE bs == [buckets EXCEPT ![index(k)] = @ \ {e}]
<1>3. /\ Chained(bs) /\ Length(bs) = Length(buckets)
      /\ Entries(bs) = Entries(buckets) \ {e}
  <2>1. bs = Dropped(buckets, e)
    BY <1>2 DEF Dropped, index
  <2> HIDE DEF bs
  <2> QED
    BY <1>2, <2>1, DropChained DEF MapInv
<1>4. \A d \in Entries(bs) : d.key # k
  BY <1>2, <1>3, OneEntryPerKey DEF MapInv
<1>5. x \in Entry /\ x.key = k
  BY DEF Entry
<1>6. buckets' = [bs EXCEPT ![index(k)] = @ \cup {x}]
  BY <1>1
<1> HIDE DEF bs, x
<1>7. /\ Chained(buckets') /\ Length(buckets') = Length(bs)
      /\ Entries(buckets') = Entries(bs) \cup {x}
  <2>1. buckets' = Added(bs, x)
    BY <1>3, <1>5, <1>6 DEF Added, index
  <2> QED
    BY <1>3, <1>4, <1>5, <2>1, AddChained
<1> QED
  BY <1>2, <1>3, <1>7 DEF x

\* put of a new key adds its entry, whether the map is resized or not.
LEMMA InsertEffect ==
  ASSUME MapInv, NEW k \in Keys, NEW v \in Values, Insert(k, v)
  PROVE  /\ Chained(buckets')
         /\ \A e \in Entries(buckets) : e.key # k
         /\ Entries(buckets') = Entries(buckets) \cup {[key |-> k, value |-> v]}
         /\ Length(buckets') = IF exceedsLoad(entryCount + 1, Length(buckets))
                               THEN 2 * Length(buckets) ELSE Length(buckets)
<1> DEFINE x     == [key |-> k, value |-> v]
           grown == [buckets EXCEPT ![index(k)] = @ \cup {x}]
<1>1. \A e \in Entries(buckets) : e.key # k
  BY FoundIsAll DEF Insert, MapInv
<1>2. x \in Entry /\ x.key = k
  BY DEF Entry
<1>3. buckets' = IF exceedsLoad(entryCount + 1, Length(buckets)) THEN resize(grown) ELSE grown
  BY DEF Insert
<1>4. index(k) = indexFor(x.key, Length(buckets))
  BY <1>2 DEF index
<1>5. grown = [buckets EXCEPT ![index(k)] = @ \cup {x}]
  OBVIOUS
<1> HIDE DEF grown, x
<1>6. /\ Chained(grown) /\ Length(grown) = Length(buckets)
      /\ Entries(grown) = Entries(buckets) \cup {x}
  <2>1. grown = Added(buckets, x)
    BY <1>4, <1>5 DEF Added
  <2> QED
    BY <1>1, <1>2, <2>1, AddChained DEF MapInv
<1>7. /\ Chained(resize(grown)) /\ Length(resize(grown)) = 2 * Length(buckets)
      /\ Entries(resize(grown)) = Entries(buckets) \cup {x}
  BY <1>6, ResizeChained
<1> QED
  BY <1>1, <1>3, <1>6, <1>7 DEF x

\* remove of a key that is there takes its entry and nothing else.
LEMMA RemoveEffect ==
  ASSUME MapInv, NEW k \in Keys, NEW e \in Found(k),
         buckets' = [buckets EXCEPT ![index(k)] = @ \ {e}]
  PROVE  /\ Chained(buckets') /\ Length(buckets') = Length(buckets)
         /\ e \in Entries(buckets) /\ e.key = k
         /\ Entries(buckets') = Entries(buckets) \ {e}
<1>1. e \in Entries(buckets) /\ e.key = k
  BY FoundIsAll DEF MapInv
<1>2. buckets' = Dropped(buckets, e)
  BY <1>1 DEF Dropped, index
<1> QED
  BY <1>1, <1>2, DropChained DEF MapInv

-----------------------------------------------------------------------------
(* It is an invariant *)

\* The empty map satisfies the invariant.
LEMMA InitMapInv == Init => MapInv
<1> SUFFICES ASSUME Init PROVE MapInv
  OBVIOUS
<1>1. /\ Chained(buckets) /\ Length(buckets) = InitialBucketCount
      /\ Entries(buckets) = {}
  BY EmptyChained, HashMapAssumption DEF Init
<1>2. IsFiniteSet({}) /\ Cardinality({}) = 0
  BY FS_EmptySet
<1>3. LoadBounded
  BY <1>1, HashMapAssumption DEF Init, LoadBounded
<1> QED
  BY <1>1, <1>2, <1>3 DEF MapInv, Init

\* put of a key that is there.
LEMMA UpdateKeeps ==
  ASSUME MapInv, NEW k \in Keys, NEW v \in Values, Update(k, v)
  PROVE  MapInv'
<1> DEFINE x == [key |-> k, value |-> v]
<1>1. /\ Chained(buckets') /\ Length(buckets') = Length(buckets)
      /\ \E e \in Entries(buckets) :
           e.key = k /\ Entries(buckets') = (Entries(buckets) \ {e}) \cup {x}
  BY UpdateEffect
<1>2. PICK e \in Entries(buckets) :
        e.key = k /\ Entries(buckets') = (Entries(buckets) \ {e}) \cup {x}
  BY <1>1
<1>3. x.key = k
  OBVIOUS
<1> HIDE DEF x
<1>4. x \notin Entries(buckets) \ {e}
  BY <1>2, <1>3, OneEntryPerKey DEF MapInv
<1>5. /\ IsFiniteSet(Entries(buckets) \ {e})
      /\ Cardinality(Entries(buckets) \ {e}) = entryCount - 1
  BY <1>2, FS_RemoveElement DEF MapInv
<1>6. /\ IsFiniteSet(Entries(buckets'))
      /\ Cardinality(Entries(buckets')) = entryCount - 1 + 1
  <2> DEFINE others == Entries(buckets) \ {e}
  <2>1. Entries(buckets') = others \cup {x} /\ x \notin others
    BY <1>2, <1>4
  <2>2. IsFiniteSet(others) /\ Cardinality(others) = entryCount - 1
    BY <1>5
  <2> HIDE DEF others
  <2> QED
    BY <2>1, <2>2, FS_AddElement
<1>7. entryCount \in Nat /\ entryCount' = entryCount
  BY FS_CardinalityType DEF MapInv, Update
<1>8. answer' \in Answers
  BY DEF Update, Answer, Answers
<1>9. LoadBounded'
  BY <1>1, <1>7 DEF MapInv, LoadBounded
<1> QED
  BY <1>1, <1>6, <1>7, <1>8, <1>9 DEF MapInv

\* put of a new key.
LEMMA InsertKeeps ==
  ASSUME MapInv, NEW k \in Keys, NEW v \in Values, Insert(k, v)
  PROVE  MapInv'
<1> DEFINE x == [key |-> k, value |-> v]
<1>1. /\ Chained(buckets')
      /\ x \notin Entries(buckets)
      /\ Entries(buckets') = Entries(buckets) \cup {x}
      /\ Length(buckets') = IF exceedsLoad(entryCount + 1, Length(buckets))
                            THEN 2 * Length(buckets) ELSE Length(buckets)
  BY InsertEffect
<1> HIDE DEF x
<1>2. entryCount \in Nat /\ entryCount' = entryCount + 1
  BY FS_CardinalityType DEF MapInv, Insert
<1>3. IsFiniteSet(Entries(buckets')) /\ Cardinality(Entries(buckets')) = entryCount + 1
  BY <1>1, FS_AddElement DEF MapInv
<1>4. answer' \in Answers
  BY DEF Insert, Answer, Answers
<1>5. LoadBounded'
  <2>1. /\ Length(buckets) \in Nat /\ Length(buckets) >= InitialBucketCount
        /\ entryCount * LoadDen <= LoadNum * Length(buckets)
    BY DEF MapInv, LoadBounded, Chained
  <2>2. CASE exceedsLoad(entryCount + 1, Length(buckets))
    <3>1. (entryCount + 1) * LoadDen <= LoadNum * (2 * Length(buckets))
      BY <1>2, <2>1, OneResizeIsEnough, HashMapAssumption
    <3> QED
      BY <1>1, <1>2, <2>2, <3>1 DEF LoadBounded
  <2>3. CASE ~exceedsLoad(entryCount + 1, Length(buckets))
    <3>1. (entryCount + 1) * LoadDen \in Nat /\ LoadNum * Length(buckets) \in Nat
      BY <1>2, <2>1, HashMapAssumption
    <3>2. (entryCount + 1) * LoadDen <= LoadNum * Length(buckets)
      BY <2>3, <3>1 DEF exceedsLoad
    <3> QED
      BY <1>1, <1>2, <2>3, <3>2 DEF LoadBounded
  <2> QED
    BY <2>2, <2>3
<1> QED
  BY <1>1, <1>2, <1>3, <1>4, <1>5 DEF MapInv

\* remove, of a key that is there or not.
LEMMA RemoveKeeps ==
  ASSUME MapInv, NEW k \in Keys, remove(k)
  PROVE  MapInv'
<1>1. answer' \in Answers
  BY DEF remove, Answer, Answers
<1>2. CASE UNCHANGED <<buckets, entryCount>>
  BY <1>1, <1>2 DEF MapInv, LoadBounded
<1>3. ASSUME NEW e \in Found(k), buckets' = [buckets EXCEPT ![index(k)] = @ \ {e}],
             entryCount' = entryCount - 1
      PROVE  MapInv'
  <2>1. /\ Chained(buckets') /\ Length(buckets') = Length(buckets)
        /\ e \in Entries(buckets) /\ Entries(buckets') = Entries(buckets) \ {e}
    BY <1>3, RemoveEffect
  <2>2. /\ IsFiniteSet(Entries(buckets'))
        /\ Cardinality(Entries(buckets')) = entryCount - 1
    BY <2>1, FS_RemoveElement DEF MapInv
  <2>3. entryCount' \in Nat /\ entryCount \in Nat
    BY <1>3, <2>2, FS_CardinalityType DEF MapInv
  <2>4. LoadBounded'
    <3>1. (entryCount - 1) * LoadDen = entryCount * LoadDen - LoadDen
      BY <2>3, HashMapAssumption
    <3>2. entryCount * LoadDen \in Nat /\ LoadNum * Length(buckets) \in Nat
      BY <2>3, HashMapAssumption DEF MapInv, Chained
    <3> QED
      BY <1>3, <2>1, <3>1, <3>2, HashMapAssumption DEF MapInv, LoadBounded
  <2> QED
    BY <1>1, <1>3, <2>1, <2>2, <2>4 DEF MapInv
<1> QED
  BY <1>2, <1>3 DEF remove

\* Every call preserves the invariant.
LEMMA NextMapInv == MapInv /\ [Next]_vars => MapInv'
<1> SUFFICES ASSUME MapInv, [Next]_vars PROVE MapInv'
  OBVIOUS
<1>1. ASSUME NEW k \in Keys, NEW v \in Values, put(k, v)
      PROVE  MapInv'
  <2>1. CASE Refuse(k)
    BY <2>1 DEF Refuse, MapInv, LoadBounded, Answer, Answers
  <2> QED
    BY <1>1, <2>1, UpdateKeeps, InsertKeeps DEF put
<1>2. ASSUME NEW k \in Keys, get(k)
      PROVE  MapInv'
  <2>1. answer' \in Answers
    <3>1. \A e \in Found(k) : e.value \in Values
      BY FoundIsAll, EntryPlace DEF MapInv, Entry
    <3> QED
      BY <1>2, <3>1 DEF get, Answer, Answers
  <2> QED
    BY <1>2, <2>1 DEF get, MapInv, LoadBounded
<1>3. CASE UNCHANGED vars
  BY <1>3 DEF vars, MapInv, LoadBounded
<1> QED
  BY <1>1, <1>2, <1>3, RemoveKeeps DEF Next

\* The invariant holds after any calls.
LEMMA MapInvariant == Spec => []MapInv
  BY InitMapInv, NextMapInv, PTL DEF Spec

-----------------------------------------------------------------------------
(* Theorems *)

\* The buckets are an array of chains of entries, the answers those of a map.
THEOREM HashMapTypeCorrect == Spec => []TypeOK
<1>1. MapInv => TypeOK
  <2> SUFFICES ASSUME MapInv PROVE TypeOK
    OBVIOUS
  <2>1. Length(buckets) \in Nat \ {0}
    BY HashMapAssumption DEF MapInv, Chained
  <2>2. entryCount \in Nat
    BY FS_CardinalityType DEF MapInv
  <2> QED
    BY <2>1, <2>2 DEF MapInv, Chained, TypeOK
<1> QED
  BY <1>1, MapInvariant, PTL

\* After any calls and resizes every entry is where its key is looked for, and
\* counted once: for every hash function and any number of keys.
THEOREM EntriesStayFindable == Spec => []EntriesFindable
<1>1. MapInv => EntriesFindable
  BY DEF MapInv, Chained, EntriesFindable
<1> QED
  BY <1>1, MapInvariant, PTL

\* One resize per put keeps the average chain within the threshold.
THEOREM LoadStaysBounded == Spec => []LoadBounded
<1>1. MapInv => LoadBounded
  BY DEF MapInv
<1> QED
  BY <1>1, MapInvariant, PTL

-----------------------------------------------------------------------------
(* Refinement *)

\* mapBar of the buckets bs.
BarOf(bs) == [k \in Keys |-> IF \E e \in Entries(bs) : e.key = k
                             THEN (CHOOSE e \in Entries(bs) : e.key = k).value
                             ELSE NoValue]

\* The abstract map has a key's value when there is an entry with the key.
LEMMA BarOfEntry ==
  ASSUME NEW bs, Chained(bs)
  PROVE  /\ \A e \in Entries(bs) : e.key \in Keys /\ e.value \in Values /\ BarOf(bs)[e.key] = e.value
         /\ \A k \in Keys : (\A e \in Entries(bs) : e.key # k) => BarOf(bs)[k] = NoValue
<1>1. ASSUME NEW e \in Entries(bs)
      PROVE  e.key \in Keys /\ e.value \in Values /\ BarOf(bs)[e.key] = e.value
  <2>1. e.key \in Keys /\ e.value \in Values
    BY EntryPlace DEF Entry
  <2>2. \A d \in Entries(bs) : d.key = e.key => d = e
    BY OneEntryPerKey
  <2>3. (CHOOSE d \in Entries(bs) : d.key = e.key) = e
    BY <2>2
  <2> QED
    BY <2>1, <2>3 DEF BarOf
<1>2. ASSUME NEW k \in Keys, \A e \in Entries(bs) : e.key # k
      PROVE  BarOf(bs)[k] = NoValue
  BY <1>2 DEF BarOf
<1> QED
  BY <1>1, <1>2

\* A map with one key changed, a set of entries with some replaced by one.
With(f, k, v) == [f EXCEPT ![k] = v]
Replaced(S, old, x) == (S \ old) \cup {x}

\* Replacing a key's entry, if any, by x changes the map at x.key alone.
LEMMA BarAfterAdd ==
  ASSUME NEW bs, Chained(bs), NEW cs, Chained(cs), NEW old, NEW x,
         \A e \in old : e.key = x.key, Entries(cs) = Replaced(Entries(bs), old, x)
  PROVE  BarOf(cs) = With(BarOf(bs), x.key, x.value)
<1>1. x \in Entries(cs)
  BY DEF Replaced
<1>2. ASSUME NEW k \in Keys, k # x.key
      PROVE  BarOf(cs)[k] = BarOf(bs)[k]
  <2>1. CASE \E e \in Entries(bs) : e.key = k
    <3>1. PICK e \in Entries(bs) : e.key = k
      BY <2>1
    <3>2. e \in Entries(cs)
      BY <1>2, <3>1 DEF Replaced
    <3> QED
      BY <3>1, <3>2, BarOfEntry
  <2>2. CASE \A e \in Entries(bs) : e.key # k
    <3>1. \A e \in Entries(cs) : e.key # k
      BY <1>2, <2>2 DEF Replaced
    <3> QED
      BY <2>2, <3>1, BarOfEntry
  <2> QED
    BY <2>1, <2>2
<1>3. BarOf(cs)[x.key] = x.value
  BY <1>1, BarOfEntry
<1>4. /\ BarOf(bs) = [k \in Keys |-> BarOf(bs)[k]]
      /\ BarOf(cs) = [k \in Keys |-> BarOf(cs)[k]]
  BY DEF BarOf
<1> QED
  BY <1>2, <1>3, <1>4 DEF With

\* Taking a key's entry out changes the map at that key alone.
LEMMA BarAfterDrop ==
  ASSUME NEW bs, Chained(bs), NEW cs, Chained(cs), NEW x \in Entries(bs),
         Entries(cs) = Entries(bs) \ {x}
  PROVE  BarOf(cs) = With(BarOf(bs), x.key, NoValue)
<1>1. ASSUME NEW k \in Keys, k # x.key
      PROVE  BarOf(cs)[k] = BarOf(bs)[k]
  <2>1. CASE \E e \in Entries(bs) : e.key = k
    <3>1. PICK e \in Entries(bs) : e.key = k
      BY <2>1
    <3>2. e \in Entries(cs)
      BY <1>1, <3>1
    <3> QED
      BY <3>1, <3>2, BarOfEntry
  <2>2. CASE \A e \in Entries(bs) : e.key # k
    BY <2>2, BarOfEntry
  <2> QED
    BY <2>1, <2>2
<1>2. x.key \in Keys /\ BarOf(cs)[x.key] = NoValue
  BY OneEntryPerKey, BarOfEntry
<1>3. /\ BarOf(bs) = [k \in Keys |-> BarOf(bs)[k]]
      /\ BarOf(cs) = [k \in Keys |-> BarOf(cs)[k]]
  BY DEF BarOf
<1> QED
  BY <1>1, <1>2, <1>3 DEF With

\* mapBar is BarOf the buckets, before and after a step.
LEMMA MapBarIs == mapBar = BarOf(buckets) /\ mapBar' = BarOf(buckets')
  BY DEF mapBar, BarOf

\* As many keys are present as there are entries.
LEMMA PresentCounted ==
  ASSUME MapInv
  PROVE  /\ Map!Present = {e.key : e \in Entries(buckets)}
         /\ IsFiniteSet(Map!Present) /\ Cardinality(Map!Present) = entryCount
<1> DEFINE E == Entries(buckets)
           K == {e.key : e \in E}
           f == [e \in E |-> e.key]
<1>1. Map!Present = K
  <2>1. ASSUME NEW k \in Map!Present PROVE k \in K
    BY MapBarIs, BarOfEntry DEF Map!Present, MapInv
  <2>2. ASSUME NEW k \in K PROVE k \in Map!Present
    <3>1. PICK e \in E : k = e.key
      OBVIOUS
    <3>2. k \in Keys /\ mapBar[k] \in Values
      BY <3>1, MapBarIs, BarOfEntry DEF MapInv
    <3> QED
      BY <3>2, HashMapAssumption DEF Map!Present
  <2> QED
    BY <2>1, <2>2
<1>2. \A d, e \in E : d.key = e.key => d = e
  BY OneEntryPerKey DEF MapInv
<1> HIDE DEF E
<1>3. f \in Surjection(E, K)
  BY DEF Surjection
<1>4. f \in Injection(E, K)
  BY <1>2 DEF Injection, IsInjective
<1>5. IsFiniteSet(E) /\ entryCount = Cardinality(E)
  BY DEF E, MapInv
<1> HIDE DEF K, f
<1>6. IsFiniteSet(K) /\ Cardinality(K) = Cardinality(E)
  BY <1>3, <1>4, <1>5, FS_Surjection
<1> QED
  BY <1>1, <1>5, <1>6 DEF E, K

\* BoundedMap's Cardinality is the one of FiniteSets.
LEMMA SameCardinality == \A S : Map!Cardinality(S) = Cardinality(S)
  BY DEF Map!Cardinality, Cardinality

\* The map starts empty.
LEMMA MapStart == Init => Map!MapInit
<1> SUFFICES ASSUME Init PROVE Map!MapInit
  OBVIOUS
<1>1. Entries(buckets) = {}
  BY EmptyChained, HashMapAssumption DEF Init
<1> QED
  BY <1>1 DEF Map!MapInit, Init, mapBar, NoAnswer

\* put, on its three paths, is the bounded map's upsert or its refusal.
LEMMA PutImplements ==
  ASSUME MapInv, MapInv', NEW k \in Keys, NEW v \in Values, put(k, v)
  PROVE  Map!MapPut(k, v)
<1> DEFINE x == [key |-> k, value |-> v]
<1>0. Chained(buckets) /\ Chained(buckets')
  BY DEF MapInv
<1>1. CASE Update(k, v)
  <2>1. PICK e \in Entries(buckets) :
          e.key = k /\ Entries(buckets') = Replaced(Entries(buckets), {e}, x)
    BY <1>1, UpdateEffect DEF Replaced
  <2>2. k \in Map!Present
    BY <2>1, PresentCounted
  <2>3. mapBar' = [mapBar EXCEPT ![k] = v]
    <3>1. x.key = k /\ x.value = v
      OBVIOUS
    <3> HIDE DEF x
    <3>2. BarOf(buckets') = With(BarOf(buckets), x.key, x.value)
      BY <1>0, <2>1, <3>1, BarAfterAdd
    <3> QED
      BY <3>1, <3>2, MapBarIs DEF With
  <2>4. answer' = Answer("put", k, "ok", NoValue)
    BY <1>1 DEF Update
  <2> QED
    BY <2>2, <2>3, <2>4 DEF Map!MapPut, Map!Answer, Answer
<1>2. CASE Insert(k, v)
  <2>1. Entries(buckets') = Replaced(Entries(buckets), {}, x)
    BY <1>2, InsertEffect DEF Replaced
  <2>2. Map!Cardinality(Map!Present) < MaxEntries
    BY <1>2, PresentCounted, SameCardinality DEF Insert
  <2>3. mapBar' = [mapBar EXCEPT ![k] = v]
    <3>1. x.key = k /\ x.value = v
      OBVIOUS
    <3> HIDE DEF x
    <3>2. BarOf(buckets') = With(BarOf(buckets), x.key, x.value)
      BY <1>0, <2>1, <3>1, BarAfterAdd
    <3> QED
      BY <3>1, <3>2, MapBarIs DEF With
  <2>4. answer' = Answer("put", k, "ok", NoValue)
    BY <1>2 DEF Insert
  <2> QED
    BY <2>2, <2>3, <2>4 DEF Map!MapPut, Map!Answer, Answer
<1>3. CASE Refuse(k)
  <2>1. \A e \in Entries(buckets) : e.key # k
    BY <1>0, <1>3, FoundIsAll DEF Refuse
  <2>2. k \notin Map!Present /\ Map!Cardinality(Map!Present) >= MaxEntries
    BY <1>3, <2>1, PresentCounted, SameCardinality DEF Refuse
  <2>3. mapBar' = mapBar
    BY <1>3, MapBarIs DEF Refuse
  <2>4. answer' = Answer("put", k, "HashMapFullError", NoValue)
    BY <1>3 DEF Refuse
  <2> QED
    BY <2>2, <2>3, <2>4 DEF Map!MapPut, Map!Answer, Answer
<1> QED
  BY <1>1, <1>2, <1>3 DEF put

\* get finds the map's value, and fails exactly when there is none.
LEMMA GetImplements ==
  ASSUME MapInv, NEW k \in Keys, get(k)
  PROVE  Map!MapGet(k)
<1>1. mapBar' = mapBar
  BY MapBarIs DEF get
<1>2. ASSUME NEW e \in Found(k)
      PROVE  k \in Map!Present /\ mapBar[k] = e.value
  BY FoundIsAll, PresentCounted, MapBarIs, BarOfEntry DEF MapInv
<1>3. Found(k) = {} => k \notin Map!Present
  BY FoundIsAll, PresentCounted DEF MapInv
<1> QED
  BY <1>1, <1>2, <1>3 DEF get, Map!MapGet, Map!Answer, Answer

\* remove leaves the map without the key, whether it was there or not.
LEMMA RemoveImplements ==
  ASSUME MapInv, MapInv', NEW k \in Keys, remove(k)
  PROVE  Map!MapRemove(k)
<1>0. Chained(buckets) /\ Chained(buckets')
  BY DEF MapInv
<1>1. ASSUME NEW e \in Found(k), buckets' = [buckets EXCEPT ![index(k)] = @ \ {e}]
      PROVE  mapBar' = [mapBar EXCEPT ![k] = NoValue]
  <2>1. e \in Entries(buckets) /\ e.key = k /\ Entries(buckets') = Entries(buckets) \ {e}
    BY <1>1, RemoveEffect
  <2> QED
    BY <1>0, <2>1, BarAfterDrop, MapBarIs DEF With
<1>2. ASSUME Found(k) = {}, UNCHANGED buckets
      PROVE  mapBar' = [mapBar EXCEPT ![k] = NoValue]
  <2>1. mapBar[k] = NoValue
    BY <1>0, <1>2, FoundIsAll, BarOfEntry, MapBarIs
  <2>2. mapBar' = mapBar
    BY <1>2, MapBarIs
  <2> QED
    BY <2>1, <2>2 DEF mapBar
<1> QED
  BY <1>1, <1>2 DEF remove, Map!MapRemove, Map!Answer, Answer

\* MyHashMap is a bounded map, for every hash function, number of keys, entry
\* limit and threshold.
THEOREM HashMapImplementsMap == Spec => MapSpec
<1>1. MapInv /\ MapInv' /\ [Next]_vars => [Map!MapNext]_Map!mapVars
  <2> SUFFICES ASSUME MapInv, MapInv', [Next]_vars
               PROVE  [Map!MapNext]_Map!mapVars
    OBVIOUS
  <2>1. ASSUME NEW k \in Keys, NEW v \in Values, put(k, v)
        PROVE  Map!MapNext
    BY <2>1, PutImplements DEF Map!MapNext
  <2>2. ASSUME NEW k \in Keys, get(k) \/ remove(k)
        PROVE  Map!MapNext
    BY <2>2, GetImplements, RemoveImplements DEF Map!MapNext
  <2>3. CASE UNCHANGED vars
    BY <2>3, MapBarIs DEF vars, Map!mapVars
  <2> QED
    BY <2>1, <2>2, <2>3 DEF Next
<1> QED
  BY <1>1, MapStart, MapInvariant, PTL DEF Spec, MapSpec, Map!MapSpec
=============================================================================

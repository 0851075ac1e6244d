-------------------------------- MODULE HashMap --------------------------------
(***************************************************************************)
(* 02-hash-map: MyHashMap, separate chaining over a bucket array that      *)
(* doubles when the load factor is exceeded and never shrinks.  A chain is *)
(* the set of its entries: their order shows only in which of two entries  *)
(* with one key is found first, and EntriesFindable says there are none.   *)
(***************************************************************************)
EXTENDS Integers, FiniteSets

CONSTANTS Keys, Values, NoValue,
          Hash,                \* [Keys -> Int]: the injected hash function
          WordSize,            \* 2^32: what `>>> 0` reduces a hash to
          InitialBucketCount,  \* INITIAL_BUCKET_COUNT
          MaxEntries,          \* MAX_ENTRIES
          LoadNum, LoadDen     \* LOAD_FACTOR_THRESHOLD

ASSUME HashMapAssumption ==
  /\ NoValue \notin Values /\ Hash \in [Keys -> Int]
  /\ WordSize \in Nat \ {0} /\ InitialBucketCount \in Nat \ {0} /\ MaxEntries \in Nat
  /\ LoadNum \in Nat /\ LoadDen \in Nat /\ LoadDen <= LoadNum * InitialBucketCount

Entry == [key : Keys, value : Values]

VARIABLES buckets,     \* [0 .. n-1 -> SUBSET Entry]: the chains
          entryCount,
          answer       \* the last call and what it returned or threw

vars == <<buckets, entryCount, answer>>

Answer(call, k, status, v) == [call |-> call, key |-> k, status |-> status, value |-> v]
NoAnswer == [call |-> "none"]

createBuckets(n) == [i \in 0 .. n - 1 |-> {}]
Length(bs) == Cardinality(DOMAIN bs)
Entries(bs) == UNION {bs[i] : i \in DOMAIN bs}

indexFor(k, n) == (Hash[k] % WordSize) % n

\* The entries of the key's chain that the linear scan may stop at.
index(k) == indexFor(k, Length(buckets))
Found(k) == {e \in buckets[index(k)] : e.key = k}

\* The old positions kept: what re-bucketing is there to avoid.
resizeCopying(bs) ==
  [i \in 0 .. 2 * Length(bs) - 1 |-> IF i < Length(bs) THEN bs[i] ELSE {}]

\* Every entry is pushed to the chain of its key among twice as many.
resize(bs) ==
  LET n == 2 * Length(bs)
  IN  [i \in 0 .. n - 1 |-> {e \in Entries(bs) : indexFor(e.key, n) = i}]

exceedsLoadLate(count, n) == count > n
exceedsLoad(count, n) == count * LoadDen > LoadNum * n

Init ==
  /\ buckets = createBuckets(InitialBucketCount)
  /\ entryCount = 0 /\ answer = NoAnswer

-----------------------------------------------------------------------------
\* put of a key that is there.
Update(k, v) ==
  /\ \E e \in Found(k) :
       buckets' = [buckets EXCEPT ![index(k)] = (@ \ {e}) \cup {[key |-> k, value |-> v]}]
  /\ answer' = Answer("put", k, "ok", NoValue) /\ UNCHANGED entryCount

\* put of a new key, and the resize it may cause.
Insert(k, v) ==
  /\ Found(k) = {} /\ entryCount < MaxEntries
  /\ LET grown == [buckets EXCEPT ![index(k)] = @ \cup {[key |-> k, value |-> v]}]
     IN  buckets' = IF exceedsLoad(entryCount + 1, Length(buckets))
                    THEN resize(grown) ELSE grown
  /\ entryCount' = entryCount + 1 /\ answer' = Answer("put", k, "ok", NoValue)

\* The limit tested before the key is looked up.
RefuseAtCapacity(k) ==
  /\ entryCount >= MaxEntries
  /\ answer' = Answer("put", k, "HashMapFullError", NoValue)
  /\ UNCHANGED <<buckets, entryCount>>

\* put of a new key into a map that is full.
Refuse(k) ==
  /\ Found(k) = {} /\ entryCount >= MaxEntries
  /\ answer' = Answer("put", k, "HashMapFullError", NoValue)
  /\ UNCHANGED <<buckets, entryCount>>

put(k, v) == Update(k, v) \/ Insert(k, v) \/ Refuse(k)

get(k) ==
  /\ \/ \E e \in Found(k) : answer' = Answer("get", k, "ok", e.value)
     \/ Found(k) = {} /\ answer' = Answer("get", k, "KeyNotFoundError", NoValue)
  /\ UNCHANGED <<buckets, entryCount>>

removeUncounted(k) ==
  /\ buckets' = [buckets EXCEPT ![index(k)] = @ \ Found(k)]
  /\ entryCount' = entryCount - 1 /\ answer' = Answer("remove", k, "ok", NoValue)

remove(k) ==
  /\ \/ \E e \in Found(k) : /\ buckets' = [buckets EXCEPT ![index(k)] = @ \ {e}]
                            /\ entryCount' = entryCount - 1
     \/ Found(k) = {} /\ UNCHANGED <<buckets, entryCount>>
  /\ answer' = Answer("remove", k, "ok", NoValue)

Next == \E k \in Keys : get(k) \/ remove(k) \/ \E v \in Values : put(k, v)

Spec == Init /\ [][Next]_vars

-----------------------------------------------------------------------------
(* Properties *)

Answers == [call : {"put", "get", "remove"}, key : Keys, value : Values \cup {NoValue},
            status : {"ok", "KeyNotFoundError", "HashMapFullError"}]

TypeOK ==
  /\ Length(buckets) \in Nat \ {0}
  /\ buckets \in [0 .. Length(buckets) - 1 -> SUBSET Entry]
  /\ entryCount \in Nat
  /\ answer \in Answers \cup {NoAnswer}

\* After any sequence of puts and removes across any number of resizes, every
\* entry is in the chain where its key will be looked for, no key has two, and
\* entryCount is the number of entries.
EntriesFindable ==
  /\ \A i \in DOMAIN buckets : \A e \in buckets[i] :
       /\ i = indexFor(e.key, Length(buckets))
       /\ \A d \in buckets[i] : d.key = e.key => d = e
  /\ IsFiniteSet(Entries(buckets)) /\ entryCount = Cardinality(Entries(buckets))

\* "once entries-per-bucket crosses this on average ... we double the bucket
\* array": between calls the average chain is within the threshold, also right
\* after the one resize that a put makes.
LoadBounded == entryCount * LoadDen <= LoadNum * Length(buckets)

\* MyHashMap implements the bounded map: collisions, resizes and the entry
\* limit never show in what put, get and remove return.
mapBar == [k \in Keys |-> IF \E e \in Entries(buckets) : e.key = k
                          THEN (CHOOSE e \in Entries(buckets) : e.key = k).value
                          ELSE NoValue]
Map == INSTANCE BoundedMap WITH map <- mapBar
MapSpec == Map!MapSpec
=============================================================================

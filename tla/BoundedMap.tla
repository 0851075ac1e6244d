------------------------------ MODULE BoundedMap ------------------------------
(***************************************************************************)
(* What 02-hash-map promises its caller: a map from keys to values with an *)
(* upsert that refuses only a new key, and only when MaxEntries are in, a  *)
(* get that fails on a missing key, and a remove that never fails.         *)
(***************************************************************************)
EXTENDS Naturals, FiniteSets

CONSTANTS Keys, Values, NoValue, MaxEntries

VARIABLES map,      \* [Keys -> Values \cup {NoValue}]
          answer    \* the last call and what it returned or threw

mapVars == <<map, answer>>

Answer(call, k, status, v) == [call |-> call, key |-> k, status |-> status, value |-> v]

Present == {k \in Keys : map[k] # NoValue}

MapInit == map = [k \in Keys |-> NoValue] /\ answer = [call |-> "none"]

MapPut(k, v) ==
  \/ /\ k \in Present \/ Cardinality(Present) < MaxEntries
     /\ map' = [map EXCEPT ![k] = v] /\ answer' = Answer("put", k, "ok", NoValue)
  \/ /\ k \notin Present /\ Cardinality(Present) >= MaxEntries
     /\ UNCHANGED map /\ answer' = Answer("put", k, "HashMapFullError", NoValue)

MapGet(k) ==
  /\ answer' = IF k \in Present THEN Answer("get", k, "ok", map[k])
               ELSE Answer("get", k, "KeyNotFoundError", NoValue)
  /\ UNCHANGED map

MapRemove(k) ==
  map' = [map EXCEPT ![k] = NoValue] /\ answer' = Answer("remove", k, "ok", NoValue)

MapNext == \E k \in Keys : MapGet(k) \/ MapRemove(k) \/ \E v \in Values : MapPut(k, v)

MapSpec == MapInit /\ [][MapNext]_mapVars
=============================================================================

-------------------------------- MODULE MCDedup --------------------------------
(***************************************************************************)
(* Four lines: no seed parts a and b, the first seed parts neither from c, *)
(* d is elsewhere.  Two or three buckets per split, two more levels.       *)
(***************************************************************************)
EXTENDS Dedup, TLC

CONSTANTS a, b, c, d

MCBytes == a :> 2 @@ b :> 1 @@ c :> 1 @@ d :> 1

MCHash == a :> [s \in Seeds |-> 6 + s] @@ b :> [s \in Seeds |-> 6 + s]
          @@ c :> [s \in Seeds |-> 6 + 2 * s] @@ d :> [s \in Seeds |-> 1]
=============================================================================

------------------------------- MODULE MCHashMap -------------------------------
(***************************************************************************)
(* Five keys over two buckets that grow to eight.  k1 and k2 part only at   *)
(* the last resize, k2 and k5 never do; k3 has a negative hash, k5 one     *)
(* beyond the word.                                                        *)
(***************************************************************************)
EXTENDS HashMap, TLC

CONSTANTS k1, k2, k3, k4, k5

MCHash == k1 :> 0 @@ k2 :> 4 @@ k3 :> -1 @@ k4 :> 2 @@ k5 :> 36
=============================================================================

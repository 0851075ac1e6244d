----------------------------- MODULE MCPageViews -----------------------------
(***************************************************************************)
(* Small instance of FailingCycles: two views of one hour, deleted in two  *)
(* batches, and two multi payloads over two page/hour buckets, one of      *)
(* which two hour keys name.                                               *)
(***************************************************************************)
EXTENDS FailingCycles, TLC

CONSTANTS v1, v2, m1, m2, noon, midnight, k00, k24, k12

\* The views share an hour; the hour keys 24:00 and 00:00 name one bucket.
MCBucketOf == [v \in Views |-> noon]
MCHourBucket == [k \in HourKeys |-> IF k = k12 THEN noon ELSE midnight]

\* m1 is the usual payload; m2 names one hour twice.
MCPayload == [m \in Multis |->
  IF m = m1 THEN (k12 :> 2 @@ k00 :> 1) ELSE (k24 :> 1 @@ k00 :> 1)]

ASSUME ClocksAgreeEnough == GraceSuffices
=============================================================================

------------------------------ MODULE MCAnalytics ------------------------------
(***************************************************************************)
(* Two views of one hour and one payload, a day of three hours.            *)
(***************************************************************************)
EXTENDS Analytics

CONSTANTS v1, v2, m1, k4, k5, page

MCBuckets == {page} \X {4, 5}
MCBucketOf == [v \in Views |-> <<page, IF v = v1 THEN 4 ELSE 5>>]
MCHourBucket == [k \in HourKeys |-> <<page, IF k = k4 THEN 4 ELSE 5>>]
MCPayload == [m \in Multis |-> [k \in HourKeys |-> 1]]
MCTimes == {9, 10, 13, 14}
MCTakes == {0, 2, 4}

ASSUME ClocksAgreeEnough == GraceSuffices
=============================================================================

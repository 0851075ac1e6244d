---------------------------- MODULE MCBlobsService ---------------------------
(***************************************************************************)
(* Small instances of BlobsService: two or three connections, two ids, and *)
(* envelopes of one to three bytes, so that overwrites shrink and grow and *)
(* both limits bind.                                                       *)
(***************************************************************************)
EXTENDS BlobsService, FiniteSetsExt, TLC

CONSTANTS small, other, large, bad, huge

\* small and other are 1 byte, large 3; bad fails a 400 validation, huge the payload cap.
MCHeaderLen == [e \in Envelopes |-> 1]
MCPayloadLen ==
  [e \in Envelopes |-> CASE e = large -> 2 [] e = huge -> 4 [] OTHER -> 0]

\* Total counts pairs; it is the sum the code computes.
ASSUME TotalIsSum ==
  \A f \in [Ids -> 0 .. 3] : Total(f) = MapThenSumSet(LAMBDA i : f[i], Ids)

Symmetry == Permutations(Clients) \cup Permutations(Ids)
=============================================================================

------------------------------ MODULE UniqueLines ------------------------------
(***************************************************************************)
(* What 01-large-scale-dedup promises: the output receives lines of the    *)
(* input, none of them twice, and when the program ends it has them all.   *)
(***************************************************************************)
EXTENDS Naturals

CONSTANT Lines

VARIABLES input,     \* [Lines -> Nat]: how often each line occurs
          output,    \* [Lines -> Nat]: how often it has been written
          finished

uniqueVars == <<input, output, finished>>

UniqueInit == /\ input \in [Lines -> Nat]
              /\ output = [l \in Lines |-> 0] /\ finished = FALSE

Write(l) == /\ ~finished /\ input[l] > 0 /\ output[l] = 0
            /\ output' = [output EXCEPT ![l] = 1]
            /\ UNCHANGED <<input, finished>>

Finish == /\ ~finished /\ \A l \in Lines : input[l] > 0 => output[l] = 1
          /\ finished' = TRUE /\ UNCHANGED <<input, output>>

UniqueSpec == UniqueInit /\ [][Finish \/ \E l \in Lines : Write(l)]_uniqueVars
=============================================================================

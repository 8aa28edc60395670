------------------------ MODULE MCWaitFreeRingBuffer ------------------------
(* Four slots wrap within a few operations and leave room for three items, *)
(* so full, empty and every split between them occur.                      *)
EXTENDS WaitFreeRingBuffer, TLC

Interchangeable == Permutations(Items)
=============================================================================

-------------------------------- MODULE MCTimer --------------------------------
(* A counter of 7 bits; delay_spin is called with 1 and PIT_MSC(1) to           *)
(* PIT_MSC(10), which are all 2, and here with one longer time.                 *)
EXTENDS Timer

MCTimes == {1, 2, 5}
===============================================================================

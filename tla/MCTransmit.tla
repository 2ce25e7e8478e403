------------------------------ MODULE MCTransmit ------------------------------
(* Values for the constants of Transmit: the sizes of eth.c, the shortest and  *)
(* the longest ping and getmem of the scripts.                                 *)
EXTENDS Transmit

MCPingLens == {1, 11}
MCGetLens == {1, 1024}
MCLags == {0, 1}
===============================================================================

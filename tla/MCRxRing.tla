------------------------------- MODULE MCRxRing -------------------------------
(* Values for the constants of RxRing: the sizes are those of eth.c, the ring  *)
(* is 8 pages instead of 26 so that frames of 1, 3 and 6 pages meet its end at *)
(* every position.                                                             *)
EXTENDS RxRing

\* The last size is one start_recv refuses.
MCCounts == {64, 601, 1522, 1530}
MCCommands == {0, 2, 6}
MCPaddings == {0, 10}

\* putmem_flipped transfers of 10, 512 and 1024 bytes, in frames of 42 bytes of
\* protocol headers, 7 of command and 4 of CRC; the first is padded to 64 bytes.
MCFlippedCounts == {64, 565, 1077}
MCFlippedCommands == {7}
MCFlippedPaddings == {0, 1}
===============================================================================

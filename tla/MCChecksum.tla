------------------------------ MODULE MCChecksum ------------------------------
(* 192.168.1.x, where no packet is long enough for a second carry, and         *)
(* 192.168.30.x, where some are: ping, the 15 bytes of a call, and getmem.     *)
EXTENDS Checksum

MCHosts == {<<49320, 256 + h>> : h \in {1, 10, 100}}
             \cup {<<49320, 7680 + h>> : h \in {1, 10, 100}}
MCIpLens == {29, 43, 57} \cup 910 .. 930
===============================================================================

-------------------------------- MODULE MCInt13 --------------------------------
(* A floppy and the disk that are known, a floppy that is not, and a disk of    *)
(* more than 1024 cylinders.  Sectors at the ends of a track and of the images; *)
(* a buffer at the end of its segment.                                          *)
EXTENDS Int13

MCSizes == {720, 2880, 513600, 17671500}
MCAddresses == {17, 719, 2878, 513599}
===============================================================================

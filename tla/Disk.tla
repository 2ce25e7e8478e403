--------------------------------- MODULE Disk ---------------------------------
(***************************************************************************)
(* What the emulated drive promises to the guest: a read gives what was    *)
(* last written to the very sectors asked for, whole; a drive that keeps   *)
(* its contents has them after a restart, too.                             *)
(***************************************************************************)
EXTENDS Naturals, Sequences

CONSTANTS Blocks, Lens, Values

VARIABLES
  keeps,         \* the contents survive a restart
  disk,          \* sector -> what is in it
  answer         \* to the last read or write

vars == <<keeps, disk, answer>>

Fresh == [b \in Blocks |-> "old"]
NoAnswer == [at |-> 0, data |-> << >>]

Init == keeps \in BOOLEAN /\ disk = Fresh /\ answer = NoAnswer

Read(a, l) ==
  /\ a + l - 1 \in Blocks
  /\ answer' = [at |-> a, data |-> [k \in 1 .. l |-> disk[a + k - 1]]]
  /\ UNCHANGED <<keeps, disk>>

Write(a, l, v) ==
  /\ disk' = [b \in Blocks |-> IF b \in a .. a + l - 1 THEN v ELSE disk[b]]
  /\ answer' = [at |-> a, data |-> << >>]
  /\ UNCHANGED keeps

\* The guest goes on.
Taken == answer' = NoAnswer /\ UNCHANGED <<keeps, disk>>

Restarted ==
  /\ answer' = NoAnswer
  /\ disk' = IF keeps THEN disk ELSE Fresh
  /\ UNCHANGED keeps

Next ==
  \/ \E a \in Blocks, l \in Lens : Read(a, l) \/ \E v \in Values : Write(a, l, v)
  \/ Taken \/ Restarted
===============================================================================

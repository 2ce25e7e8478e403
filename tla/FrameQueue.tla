------------------------------ MODULE FrameQueue ------------------------------
(***************************************************************************)
(* What eth.c promises in both directions.  Receiving: the frames the card *)
(* accepted are handed to the handlers one at a time, in the order of      *)
(* their arrival, each of them exactly once; the card may refuse a frame,  *)
(* which then never enters the queue.  Sending: the packets handed to      *)
(* start_send_udp leave the card one at a time, in order, exactly once.    *)
(***************************************************************************)
EXTENDS Naturals, Sequences

CONSTANT Frame      \* the frames there are

VARIABLES
  queue,            \* accepted and not yet taken
  taken             \* taken, in order

vars == <<queue, taken>>

TypeOK ==
  /\ queue \in Seq(Frame)
  /\ taken \in Seq(Frame)

Init ==
  /\ queue = << >>
  /\ taken = << >>

Accept(f) ==
  /\ queue' = Append(queue, f)
  /\ UNCHANGED taken

Take ==
  /\ queue # << >>
  /\ taken' = Append(taken, Head(queue))
  /\ queue' = Tail(queue)

Next == (\E f \in Frame : Accept(f)) \/ Take

Spec == Init /\ [][Next]_vars
===============================================================================

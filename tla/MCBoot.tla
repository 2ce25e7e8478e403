-------------------------------- MODULE MCBoot --------------------------------
(* The machine is switched on twice and the guest makes two calls in each boot.  *)
(* One port and two polls are the least with which the set-up can fail in every  *)
(* way; a stack of three lets start be entered twice over the first activation.  *)
EXTENDS Boot

\* A new NE1000, which works.
NewCard ==
  /\ dev = [p \in 1 .. Ports |-> "card"] /\ ram = NE1000
  /\ ~sta /\ ~mon /\ ~prx /\ bnry = pstart /\ curr = pstart

\* What follows the set-up does not depend on the card, nor the set-up on the server: every
\* card with one kind of server, and every kind of server with one card.
OneAtATime == NewCard \/ server = [by |-> "looper", drive |-> "disk"]

MCInit == Init /\ OneAtATime
MCFairSpec == MCInit /\ [][Next]_vars /\ Fairness
===============================================================================

-------------------------------- MODULE MCDhcp --------------------------------
(* Dhcp for TLC: the addresses and the servers are model values, and neither   *)
(* matters by name.  The safety run uses that as a symmetry; the liveness run,  *)
(* for which TLC has none, fixes what one server offers in the beginning.      *)
EXTENDS Dhcp, TLC

CONSTANTS s1, a1

MCSymmetry == Permutations(Servers) \cup Permutations(Addrs)

MCInit == Init /\ offer[s1] = a1
MCFairSpec == MCInit /\ [][Next]_vars /\ Fairness
===============================================================================

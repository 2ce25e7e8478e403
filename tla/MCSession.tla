------------------------------ MODULE MCSession -------------------------------
(* Values for the constants of Session.  a is the session of a script that    *)
(* serves INT 13h, b the second session cga.py opens beside it for putmem.    *)
EXTENDS Session, TLC

CONSTANTS a, b

Pair == {a, b}
PairKinds == a :> {"cached", "read"} @@ b :> {"write"}
Single == {a}
SingleKinds == a :> {"write", "cached"}
WriteKinds == [s \in Pair |-> {"write"}]
===============================================================================

---------------------------------- MODULE Rpc ---------------------------------
(***************************************************************************)
(* What scripts/monitor.py and the command loop of main.c promise to a     *)
(* script: a command is executed once between the call and its return.     *)
(* Only a script that dies inside a call, which another one replaces, may  *)
(* leave its last command unexecuted.  Leave commands (continue_boot,      *)
(* isr_handled) are posted, not called.                                    *)
(***************************************************************************)
EXTENDS Naturals, Sequences

CONSTANTS
  Sessions,      \* monitor objects
  Effects,       \* kinds of command that change the target, at most once
  Reads          \* kinds of command that only answer

VARIABLES
  busy,          \* session -> inside a call
  kind, op,      \* session -> kind and number of its last command
  starts,        \* session -> scripts started so far, one after another
  done           \* session -> commands executed, in order

vars == <<busy, kind, op, starts, done>>

Executed(s) == \E i \in DOMAIN done[s] : done[s][i] = op[s]

Init ==
  /\ busy = [s \in Sessions |-> FALSE]
  /\ kind = [s \in Sessions |-> "none"]
  /\ op = [s \in Sessions |-> 0]
  /\ starts = [s \in Sessions |-> 0]
  /\ done = [s \in Sessions |-> << >>]

Call(s) ==
  /\ ~busy[s]
  /\ \E k \in Effects \cup Reads : kind' = [kind EXCEPT ![s] = k]
  /\ busy' = [busy EXCEPT ![s] = TRUE]
  /\ op' = [op EXCEPT ![s] = @ + 1]
  /\ UNCHANGED <<starts, done>>

Post(s) ==
  /\ ~busy[s]
  /\ kind' = [kind EXCEPT ![s] = "leave"]
  /\ op' = [op EXCEPT ![s] = @ + 1]
  /\ UNCHANGED <<busy, starts, done>>

Execute(s) ==
  /\ kind[s] \in Effects \cup {"leave"}
  /\ ~Executed(s)
  /\ done' = [done EXCEPT ![s] = Append(@, op[s])]
  /\ UNCHANGED <<busy, kind, op, starts>>

\* The only way out of a call for the script that made it.
Return(s) ==
  /\ busy[s]
  /\ kind[s] \in Effects => Executed(s)
  /\ busy' = [busy EXCEPT ![s] = FALSE]
  /\ UNCHANGED <<kind, op, starts, done>>

\* Another script takes the place of one that died, inside a call or not; the call
\* of the dead one may still be executed.
Start(s) ==
  /\ starts' = [starts EXCEPT ![s] = @ + 1]
  /\ busy' = [busy EXCEPT ![s] = FALSE]
  /\ UNCHANGED <<kind, op, done>>

Next == \E s \in Sessions :
  Start(s) \/ Call(s) \/ Post(s) \/ Execute(s) \/ Return(s)

Spec == Init /\ [][Next]_vars
===============================================================================

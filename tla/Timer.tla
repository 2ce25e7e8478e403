--------------------------------- MODULE Timer ---------------------------------
(***************************************************************************)
(* The tick counter of delay_c.c and the two places that wait by it:       *)
(* delay_spin, which compares signed 16-bit numbers, and the announcement  *)
(* timer of start's loop, which compares unsigned ones.                    *)
(*                                                                         *)
(* A tick takes 55 ms, far longer than the instructions between two halts  *)
(* or one round of the loop: at most one tick falls into those.            *)
(***************************************************************************)
EXTENDS Integers

CONSTANTS
  Half,          \* 0x8000
  Times          \* what delay_spin is called with

ASSUME TimerAssumption ==
  /\ Half \in Nat \ {0, 1, 2}
  /\ Times \subseteq 1 .. Half - 1

VARIABLES
  ctr,           \* uint16_t, counted up by int 1Ch
  pc,            \* "returned" (also: elsewhere), "spin", "halt", "read" in
                 \* delay_spin; "poll", "send", "recv" in the loop of start
  timeout,       \* of delay_spin, before the conversion to int16_t
  still_resend, resend_delay,
  ticked,        \* the tick that may fall into these instructions has come
  time, start,   \* history: the argument of delay_spin and ctr when it was called
  elapsed,       \* history: ticks since then, 2 * Half if more
  since          \* history: ticks since the last announcement, 2 * Half if more

delay == <<timeout, time, start>>
resend == <<still_resend, resend_delay>>
vars == <<ctr, pc, delay, resend, ticked, elapsed, since>>

\* A uint16_t, for values of less than twice its range.
Uint16(n) == IF n >= 2 * Half THEN n - 2 * Half ELSE n

\* Its conversion to int16_t.
Int16(n) == IF n >= Half THEN n - 2 * Half ELSE n

\* The history counters stop at the range of ctr.
Count(n) == IF n < 2 * Half THEN n + 1 ELSE n

-------------------------------------------------------------------------------
Init ==
  /\ ctr \in 0 .. 2 * Half - 1 /\ pc = "returned" /\ ticked = FALSE
  /\ timeout = 0 /\ time = 0 /\ start = 0 /\ elapsed = 0
  /\ still_resend = FALSE /\ resend_delay = 0 /\ since = 0

\* int1c calls delay_c_isr; it also ends a halt.
Tick ==
  /\ pc \in {"halt", "returned"} \/ ~ticked
  /\ ctr' = Uint16(ctr + 1)
  /\ pc' = IF pc = "halt" THEN "read" ELSE pc
  /\ ticked' = (pc # "returned")
  /\ elapsed' = IF pc \in {"spin", "halt", "read"} THEN Count(elapsed) ELSE elapsed
  /\ since' = IF pc \in {"poll", "recv"} THEN Count(since) ELSE since
  /\ UNCHANGED <<delay, resend>>

\* Any other interrupt ends a halt as well.
OtherInterrupt ==
  /\ pc = "halt" /\ pc' = "read"
  /\ UNCHANGED <<ctr, delay, resend, ticked, elapsed, since>>

Delay(t) ==
  /\ pc = "returned"
  /\ time' = t /\ start' = ctr /\ elapsed' = 0
  /\ timeout' = Uint16(t + ctr)
  /\ pc' = "spin"
  /\ UNCHANGED <<ctr, resend, ticked, since>>

\* The character is written; then the processor waits for an interrupt.
Halts ==
  /\ pc = "spin" /\ pc' = "halt" /\ ticked' = FALSE
  /\ UNCHANGED <<ctr, delay, resend, elapsed, since>>

\* Mutant: the comparison is not signed.
GoesOnUnsigned == ctr < timeout

\* Mutant: the loop ends only at the very tick.
GoesOnUntilEqual == ctr # timeout

\* Mutant: <= for <.
GoesOnOnce == Int16(ctr) <= Int16(timeout)

\* now < timeout.
GoesOn == Int16(ctr) < Int16(timeout)

ReadsCtr ==
  /\ pc = "read"
  /\ IF GoesOn THEN pc' = "spin" /\ UNCHANGED ticked ELSE pc' = "returned" /\ ticked' = FALSE
  /\ UNCHANGED <<ctr, delay, resend, elapsed, since>>

\* start reaches its loop; only when it was entered by INT 13h does it announce itself.
EnterLoop ==
  /\ pc = "returned" /\ pc' = "poll"
  /\ still_resend' \in BOOLEAN /\ resend_delay' = ctr
  /\ timeout' = 0 /\ time' = 0 /\ start' = 0 /\ elapsed' = 0
  /\ UNCHANGED <<ctr, ticked, since>>

\* Mutant: the announcement waits for a later tick.
DueAfter == ctr > resend_delay

Due == ctr >= resend_delay

Check ==
  /\ pc = "poll" /\ ticked' = FALSE
  /\ pc' = IF still_resend /\ Due THEN "send" ELSE "recv"
  /\ UNCHANGED <<ctr, delay, resend, elapsed, since>>

\* Mutant: the announcement is next due after five seconds.
NextAfter == Uint16(resend_delay + Half \div 2)

\* What resend_delay is after the announcement: PIT_MSC(5000) has been added to it,
\* but the counter is stored over the sum.
NextDue == ctr

Sent ==
  /\ pc = "send" /\ pc' = "recv"
  /\ resend_delay' = NextDue /\ since' = 0
  /\ UNCHANGED <<ctr, delay, still_resend, ticked, elapsed>>

\* The rest of a round: no command has come, one that does not leave, or one that does.
Receives ==
  /\ pc = "recv"
  /\ \/ pc' = "poll" /\ still_resend' \in {still_resend, FALSE}
        /\ UNCHANGED <<resend_delay, since>>
     \/ pc' = "returned" /\ still_resend' = FALSE /\ resend_delay' = 0 /\ since' = 0
  /\ UNCHANGED <<ctr, delay, ticked, elapsed>>

InDelay == Halts \/ ReadsCtr
InLoop == Check \/ Sent \/ Receives
Called == EnterLoop \/ \E t \in Times : Delay(t)

Next == Tick \/ OtherInterrupt \/ InDelay \/ InLoop \/ Called

Spec == Init /\ [][Next]_vars

\* The timer ticks and the processor goes on.
FairSpec == Spec /\ WF_vars(Tick) /\ WF_vars(InDelay) /\ WF_vars(InLoop)

-------------------------------------------------------------------------------
(* Properties *)

TypeOK ==
  /\ ctr \in 0 .. 2 * Half - 1 /\ timeout \in 0 .. 2 * Half - 1
  /\ resend_delay \in 0 .. 2 * Half - 1
  /\ pc \in {"returned", "spin", "halt", "read", "poll", "send", "recv"}
  /\ still_resend \in BOOLEAN /\ ticked \in BOOLEAN
  /\ time \in Times \cup {0} /\ start \in 0 .. 2 * Half - 1
  /\ elapsed \in 0 .. 2 * Half /\ since \in 0 .. 2 * Half

\* The delay reaches over the end of the positive int16_t.
Overflows == start < Half /\ Half <= start + time

\* delay_spin returns no earlier than asked, wherever the counter wraps, except when
\* the sum leaves the positive int16_t: then it returns after one interrupt.
WaitsEnough == pc = "returned" => elapsed >= time \/ Overflows

\* The one deadline delay_spin can miss: no greater int16_t follows it.
LastTick == timeout = Half - 1

\* delay_spin returns within a tick of the time asked for, unless it missed LastTick.
ReturnsInTime == pc = "returned" => elapsed <= time + 1 \/ LastTick

\* delay_spin returns: a tick that comes between the comparison and the halt is made up
\* for by the next one, except at LastTick, where it may wait for ever.
DelayReturns == pc = "spin" ~> pc = "returned" \/ LastTick

\* Waiting for its first command, start announces itself in every round of its loop, and
\* not every five seconds, until the counter wraps; then it is silent until the counter
\* has come round.
SilentOnlyAfterWrap ==
  [][Check /\ still_resend /\ pc' = "recv" => resend_delay + since >= 2 * Half]_vars

\* The silence ends: a monitor that missed all announcements gets another.
AnnouncesAgain == pc = "poll" /\ still_resend ~> pc = "send" \/ ~still_resend
===============================================================================

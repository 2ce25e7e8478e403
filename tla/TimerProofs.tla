------------------------------ MODULE TimerProofs ------------------------------
(* When delay_spin returns, neither early nor late, and when the announcement  *)
(* timer of start falls silent, for every width of the counter and every time  *)
(* asked for.                                                                  *)
EXTENDS Timer, TLAPS

\* While delay_spin runs, timeout is the wrapped sum, and ctr is where the ticks that
\* were counted have taken it.
DelayInv ==
  /\ TypeOK
  /\ pc \in {"spin", "halt", "read"} =>
       /\ time \in Times
       /\ timeout = Uint16(start + time)
       /\ elapsed < time => ctr = Uint16(start + elapsed)
  /\ pc \in {"poll", "send", "recv"} => elapsed = 0 /\ time = 0
  /\ WaitsEnough

\* The parts of the type invariant: flags and numbers.
FlagsOK == still_resend \in BOOLEAN /\ ticked \in BOOLEAN

NumbersOK ==
  /\ ctr \in 0 .. 2 * Half - 1 /\ timeout \in 0 .. 2 * Half - 1
  /\ resend_delay \in 0 .. 2 * Half - 1
  /\ pc \in {"returned", "spin", "halt", "read", "poll", "send", "recv"}
  /\ time \in Times \cup {0} /\ start \in 0 .. 2 * Half - 1
  /\ elapsed \in 0 .. 2 * Half /\ since \in 0 .. 2 * Half

\* They are all of it.
LEMMA TypeParts == TypeOK <=> FlagsOK /\ NumbersOK
  BY DEF TypeOK, FlagsOK, NumbersOK

\* And after a step as well.
LEMMA TypePartsNext == TypeOK' <=> FlagsOK' /\ NumbersOK'
  BY DEF TypeOK, FlagsOK, NumbersOK

\* The counter stays in its range when it is counted up or added to.
LEMMA Uint16Range ==
  ASSUME NEW m \in 0 .. 2 * Half - 1, NEW n \in 0 .. 2 * Half - 1
  PROVE  Uint16(m + n) \in 0 .. 2 * Half - 1
  BY TimerAssumption DEF Uint16

\* One tick more is one count more, modulo the range of the counter.
LEMMA Uint16Next ==
  ASSUME NEW m \in 0 .. 2 * Half - 1, NEW n \in 0 .. Half
  PROVE  Uint16(Uint16(m + n) + 1) = Uint16(m + (n + 1))
  BY TimerAssumption DEF Uint16

\* The signed comparison orders two counts after the same start, unless the positive
\* int16_t overflows between them.
LEMMA SignedOrder ==
  ASSUME NEW s \in 0 .. 2 * Half - 1, NEW t \in 1 .. Half - 1, NEW e \in Nat,
         e < t, ~(s < Half /\ Half <= s + t)
  PROVE  Int16(Uint16(s + e)) < Int16(Uint16(s + t))
  BY TimerAssumption DEF Uint16, Int16

\* The initial states satisfy the invariant.
LEMMA DelayInvInit == Init => DelayInv
<1> SUFFICES ASSUME Init PROVE DelayInv
  OBVIOUS
<1> USE TimerAssumption DEF Init
<1>1. FlagsOK
  BY Zenon DEF FlagsOK
<1>2. NumbersOK
  BY DEF NumbersOK
<1>3. TypeOK
  BY <1>1, <1>2, TypeParts
<1>4. pc = "returned" /\ elapsed >= time
  OBVIOUS
<1> QED
  BY <1>3, <1>4 DEF DelayInv, WaitsEnough

\* Every step keeps the types.
LEMMA TypeStep == TypeOK /\ [Next]_vars => TypeOK'
<1> SUFFICES ASSUME FlagsOK, NumbersOK, [Next]_vars PROVE FlagsOK' /\ NumbersOK'
  BY TypeParts, TypePartsNext
<1>1. FlagsOK'
  <2> USE DEF FlagsOK, delay, resend
  <2>1. CASE Tick \/ OtherInterrupt
    BY <2>1, Zenon DEF Tick, OtherInterrupt
  <2>2. CASE InDelay
    BY <2>2, Zenon DEF InDelay, Halts, ReadsCtr
  <2>3. CASE InLoop
    BY <2>3, Zenon DEF InLoop, Check, Sent, Receives
  <2>4. CASE Called
    BY <2>4, Zenon DEF Called, EnterLoop, Delay
  <2>5. CASE UNCHANGED vars
    BY <2>5, Zenon DEF vars
  <2> QED
    BY <2>1, <2>2, <2>3, <2>4, <2>5 DEF Next
<1>2. NumbersOK'
  <2> USE TimerAssumption DEF NumbersOK, delay, resend
  <2>1. CASE Tick
    <3>1. ctr' \in 0 .. 2 * Half - 1
      BY <2>1 DEF Tick, Uint16
    <3>2. elapsed' \in 0 .. 2 * Half /\ since' \in 0 .. 2 * Half
      BY <2>1 DEF Tick, Count
    <3> QED
      BY <2>1, <3>1, <3>2 DEF Tick
  <2>2. CASE OtherInterrupt \/ InDelay
    BY <2>2 DEF OtherInterrupt, InDelay, Halts, ReadsCtr
  <2>3. CASE Check \/ Sent
    BY <2>3 DEF Check, Sent, NextDue
  <2>4. CASE Receives
    <3>1. /\ UNCHANGED <<ctr, timeout, time, start, elapsed>>
          /\ pc' \in {"poll", "returned"}
          /\ \/ UNCHANGED <<resend_delay, since>>
             \/ resend_delay' = 0 /\ since' = 0
      BY <2>4, Zenon DEF Receives, delay
    <3> QED
      BY <3>1
  <2>5. CASE EnterLoop
    BY <2>5 DEF EnterLoop
  <2>6. ASSUME NEW t \in Times, Delay(t) PROVE NumbersOK'
    <3>1. Uint16(t + ctr) \in 0 .. 2 * Half - 1
      BY Uint16Range
    <3> QED
      BY <2>6, <3>1 DEF Delay
  <2>7. CASE UNCHANGED vars
    BY <2>7 DEF vars
  <2> QED
    BY <2>1, <2>2, <2>3, <2>4, <2>5, <2>6, <2>7 DEF Next, InLoop, Called
<1> QED
  BY <1>1, <1>2

\* Every step keeps the invariant.
LEMMA DelayStep == DelayInv /\ [Next]_vars => DelayInv'
<1> SUFFICES ASSUME DelayInv, [Next]_vars PROVE DelayInv'
  OBVIOUS
<1>0. TypeOK /\ TypeOK'
  BY TypeStep DEF DelayInv
<1> USE TimerAssumption, <1>0 DEF DelayInv, WaitsEnough, Overflows, delay, resend
<1>1. CASE Tick
  <2>1. CASE pc \in {"spin", "halt", "read"}
    <3>1. elapsed' = Count(elapsed) /\ ctr' = Uint16(ctr + 1)
          /\ pc' \in {"spin", "halt", "read"} /\ UNCHANGED delay
      BY <1>1, <2>1 DEF Tick
    <3>2. ASSUME elapsed' < time PROVE ctr' = Uint16(start + elapsed')
      <4>1. elapsed' = elapsed + 1 /\ elapsed < time /\ elapsed \in 0 .. Half
        BY <2>1, <3>1, <3>2 DEF Count, TypeOK
      <4>2. ctr = Uint16(start + elapsed)
        BY <2>1, <4>1
      <4>3. start \in 0 .. 2 * Half - 1
        BY DEF TypeOK
      <4> QED
        BY <3>1, <4>1, <4>2, <4>3, Uint16Next
    <3> QED
      BY <2>1, <3>1, <3>2
  <2>2. CASE pc \notin {"spin", "halt", "read"}
    BY <1>1, <2>2 DEF Tick
  <2> QED
    BY <2>1, <2>2
<1>2. CASE OtherInterrupt
  BY <1>2 DEF OtherInterrupt
<1>3. CASE Halts
  BY <1>3 DEF Halts
<1>4. CASE ReadsCtr
  <2>1. CASE GoesOn
    BY <1>4, <2>1 DEF ReadsCtr
  <2>2. CASE ~GoesOn
    <3>1. elapsed >= time \/ Overflows
      <4> SUFFICES ASSUME elapsed < time, ~Overflows PROVE GoesOn
        BY <1>0, <1>4, <2>2 DEF TypeOK, ReadsCtr
      <4>1. pc = "read"
        BY <1>4 DEF ReadsCtr
      <4>2. start \in 0 .. 2 * Half - 1 /\ time \in 1 .. Half - 1 /\ elapsed \in Nat
        BY <4>1 DEF TypeOK
      <4>3. Int16(Uint16(start + elapsed)) < Int16(Uint16(start + time))
        BY <4>2, SignedOrder DEF Overflows
      <4> QED
        BY <4>1, <4>3 DEF GoesOn
    <3> QED
      BY <1>4, <2>2, <3>1 DEF ReadsCtr
  <2> QED
    BY <2>1, <2>2
<1>5. CASE InLoop
  <2>1. pc \notin {"spin", "halt", "read"}
    BY <1>5 DEF InLoop, Check, Sent, Receives
  <2>2. pc' \notin {"spin", "halt", "read"} /\ UNCHANGED <<time, start, elapsed>>
    BY <1>5 DEF InLoop, Check, Sent, Receives
  <2>3. pc \in {"poll", "send", "recv"}
    BY <1>5 DEF InLoop, Check, Sent, Receives
  <2>4. time' = 0 /\ elapsed' = 0
    BY <2>2, <2>3
  <2> QED
    BY <2>2, <2>4
<1>6. CASE EnterLoop
  BY <1>6 DEF EnterLoop
<1>7. ASSUME NEW t \in Times, Delay(t) PROVE DelayInv'
  <2>1. /\ pc' = "spin" /\ time' = t /\ start' = ctr /\ elapsed' = 0 /\ ctr' = ctr
        /\ timeout' = Uint16(t + ctr)
    BY <1>7 DEF Delay
  <2>2. t + ctr = ctr + t /\ ctr = Uint16(ctr + 0)
    BY DEF TypeOK, Uint16
  <2> QED
    BY <2>1, <2>2
<1>8. CASE UNCHANGED vars
  BY <1>8 DEF vars
<1> QED
  BY <1>1, <1>2, <1>3, <1>4, <1>5, <1>6, <1>7, <1>8 DEF Next, InDelay, Called

\* delay_spin never returns early, wherever the counter wraps, unless the deadline
\* overflows the positive int16_t (delay_c.c:33).
THEOREM DelayWaitsEnough == Spec => []WaitsEnough
<1>1. DelayInv => WaitsEnough
  BY DEF DelayInv
<1> QED
  BY <1>1, DelayInvInit, DelayStep, PTL DEF Spec

\* The counter, the deadline and resend_delay stay 16-bit numbers whatever is added to
\* them (delay_c.c:33, main.c:72-83).
THEOREM TimerTypes == Spec => []TypeOK
<1>1. DelayInv => TypeOK
  BY DEF DelayInv
<1> QED
  BY <1>1, DelayInvInit, DelayStep, PTL DEF Spec

-------------------------------------------------------------------------------
(* Not late *)

Waiting == pc \in {"spin", "halt", "read"}

\* How many ticks delay_spin may be into its wait: fewer than asked for when ctr is
\* about to be compared again only after a tick that is still to come, and one more
\* than asked for when a tick came before the halt and another one ended it.
Latest ==
  IF pc = "spin" /\ ~ticked THEN time - 1
  ELSE IF pc = "read" /\ ticked THEN time + 1 ELSE time

\* Until it misses LastTick, delay_spin is not late and ctr counts its ticks.
LateInv ==
  /\ DelayInv
  /\ Waiting /\ ~LastTick => elapsed <= Latest /\ ctr = Uint16(start + elapsed)
  /\ pc = "halt" => ~ticked
  /\ ReturnsInTime

\* At the deadline and one tick after it the signed comparison ends the wait, unless
\* the deadline is the greatest int16_t.
LEMMA SignedDeadline ==
  ASSUME NEW s \in 0 .. 2 * Half - 1, NEW t \in 1 .. Half - 1, NEW e \in {t, t + 1},
         Uint16(s + t) # Half - 1
  PROVE  ~(Int16(Uint16(s + e)) < Int16(Uint16(s + t)))
<1>1. CASE e = t
  BY <1>1, TimerAssumption DEF Uint16, Int16
<1>2. CASE e = t + 1
  BY <1>2, TimerAssumption DEF Uint16, Int16
<1> QED
  BY <1>1, <1>2

\* A tick does not make delay_spin late: at most one falls between a comparison and the
\* halt after it.
LEMMA LateTick == LateInv /\ Waiting /\ ~LastTick /\ Tick => elapsed' <= Latest' /\ ctr' = Uint16(start' + elapsed')
<1> SUFFICES ASSUME LateInv, Waiting, ~LastTick, Tick
             PROVE  elapsed' <= Latest' /\ ctr' = Uint16(start' + elapsed')
  OBVIOUS
<1>1. /\ ctr \in 0 .. 2 * Half - 1 /\ start \in 0 .. 2 * Half - 1 /\ elapsed \in 0 .. 2 * Half
      /\ time \in 1 .. Half - 1
  BY TimerAssumption DEF LateInv, DelayInv, TypeOK, Waiting
<1>2. elapsed <= Latest /\ ctr = Uint16(start + elapsed) /\ (pc = "halt" => ~ticked)
  BY DEF LateInv
<1>3. elapsed' = Count(elapsed) /\ ctr' = Uint16(ctr + 1) /\ ticked' = TRUE
      /\ time' = time /\ start' = start
  BY Zenon DEF Tick, Waiting, delay
<1>4. ticked = FALSE
  BY <1>2, Zenon DEF Tick, Waiting, LateInv, DelayInv, TypeOK
<1>5. \/ pc = "spin" /\ pc' = "spin"
      \/ pc # "spin" /\ pc' = "read"
  BY DEF Tick, Waiting
<1>6. elapsed < Half /\ elapsed' = elapsed + 1 /\ elapsed' <= Latest'
  <2>1. CASE pc = "spin" /\ pc' = "spin"
    <3>1. Latest = time - 1 /\ Latest' = time
      BY <1>3, <1>4, <2>1, Zenon DEF Latest
    <3> QED
      BY <1>1, <1>2, <1>3, <3>1, TimerAssumption DEF Count
  <2>2. CASE pc # "spin" /\ pc' = "read"
    <3>1. Latest = time /\ Latest' = time + 1
      BY <1>3, <1>4, <2>2, Zenon DEF Latest
    <3> QED
      BY <1>1, <1>2, <1>3, <3>1, TimerAssumption DEF Count
  <2> QED
    BY <1>5, <2>1, <2>2
<1>7. ctr' = Uint16(start' + elapsed')
  <2>1. elapsed \in 0 .. Half
    BY <1>1, <1>6, TimerAssumption
  <2> QED
    BY <1>1, <1>2, <1>3, <1>6, <2>1, Uint16Next
<1> QED
  BY <1>6, <1>7

\* Every step keeps the invariant.
LEMMA LateStep == LateInv /\ [Next]_vars => LateInv'
<1> SUFFICES ASSUME LateInv, [Next]_vars PROVE LateInv'
  OBVIOUS
<1>0. DelayInv /\ DelayInv' /\ TypeOK /\ TypeOK'
  BY DelayStep DEF LateInv, DelayInv
<1>1. SUFFICES /\ Waiting' /\ ~LastTick' => elapsed' <= Latest' /\ ctr' = Uint16(start' + elapsed')
               /\ pc' = "halt" => ~ticked'
               /\ ReturnsInTime'
  BY <1>0 DEF LateInv
<1>2. CASE Tick
  <2>1. CASE Waiting
    <3>1. Waiting' /\ pc' # "halt" /\ LastTick' = LastTick
      BY <1>2, <2>1 DEF Tick, Waiting, LastTick, delay
    <3> QED
      BY <1>2, <2>1, <3>1, LateTick DEF ReturnsInTime, Waiting
  <2>2. CASE ~Waiting
    BY <1>2, <2>2, Zenon DEF LateInv, Tick, Waiting, ReturnsInTime, LastTick, delay
  <2> QED
    BY <2>1, <2>2
<1>3. CASE OtherInterrupt
  BY <1>3 DEF LateInv, OtherInterrupt, Waiting, Latest, LastTick, ReturnsInTime, delay
<1>4. CASE Halts
  <2>1. /\ pc = "spin" /\ pc' = "halt" /\ ~ticked' /\ UNCHANGED <<ctr, timeout, time, start, elapsed>>
    BY <1>4 DEF Halts, delay
  <2>2. time \in Int /\ elapsed \in Int
    BY <1>0, TimerAssumption DEF TypeOK
  <2> QED
    BY <2>1, <2>2 DEF LateInv, Waiting, Latest, LastTick, ReturnsInTime
<1>5. CASE ReadsCtr
  <2> USE <1>5 DEF ReadsCtr, delay
  <2>1. /\ pc = "read" /\ UNCHANGED <<ctr, timeout, time, start, elapsed>>
        /\ start \in 0 .. 2 * Half - 1 /\ time \in 1 .. Half - 1 /\ elapsed \in 0 .. 2 * Half
        /\ timeout = Uint16(start + time)
    BY <1>0, TimerAssumption DEF DelayInv, TypeOK
  <2>2. CASE GoesOn
    <3>1. pc' = "spin"
      BY <2>2
    <3>2. ASSUME ~LastTick PROVE elapsed < time /\ ctr = Uint16(start + elapsed)
      <4>1. elapsed <= time + 1 /\ ctr = Uint16(start + elapsed)
        BY <2>1, <3>2 DEF LateInv, Waiting, Latest
      <4>2. elapsed \notin {time, time + 1}
        BY <2>1, <2>2, <3>2, <4>1, SignedDeadline DEF GoesOn, LastTick
      <4> QED
        BY <2>1, <4>1, <4>2
    <3>3. ~LastTick => elapsed' <= Latest' /\ ctr' = Uint16(start' + elapsed')
      BY <2>1, <3>1, <3>2 DEF Latest
    <3> QED
      BY <2>1, <3>1, <3>3 DEF LastTick, ReturnsInTime
  <2>3. CASE ~GoesOn
    <3>1. pc' = "returned"
      BY <2>3
    <3>2. elapsed <= time + 1 \/ LastTick
      BY <2>1 DEF LateInv, Waiting, Latest
    <3> QED
      BY <2>1, <3>1, <3>2 DEF LastTick, ReturnsInTime, Waiting
  <2> QED
    BY <2>2, <2>3
<1>6. CASE InLoop
  <2>1. pc \in {"poll", "send", "recv"} /\ pc' \in {"poll", "send", "recv", "returned"}
    BY <1>6 DEF InLoop, Check, Sent, Receives
  <2>2. UNCHANGED <<time, elapsed>>
    BY <1>6 DEF InLoop, Check, Sent, Receives, delay
  <2>3. time' = 0 /\ elapsed' = 0
    BY <1>0, <2>1, <2>2 DEF DelayInv
  <2> QED
    BY <2>1, <2>3 DEF Waiting, ReturnsInTime
<1>7. CASE EnterLoop
  BY <1>7 DEF EnterLoop, Waiting, ReturnsInTime
<1>8. ASSUME NEW t \in Times, Delay(t)
      PROVE  /\ Waiting' /\ ~LastTick' => elapsed' <= Latest' /\ ctr' = Uint16(start' + elapsed')
             /\ pc' = "halt" => ~ticked'
             /\ ReturnsInTime'
  <2>1. pc' = "spin" /\ time' = t /\ start' = ctr /\ elapsed' = 0 /\ ctr' = ctr
    BY <1>8 DEF Delay
  <2>2. t \in 1 .. Half - 1 /\ ctr \in 0 .. 2 * Half - 1
    BY <1>0, TimerAssumption DEF TypeOK
  <2>3. ctr' = Uint16(start' + elapsed')
    BY <2>1, <2>2, TimerAssumption DEF Uint16
  <2>4. elapsed' <= Latest'
    <3>1. Latest' \in {t - 1, t}
      BY <2>1, Zenon DEF Latest
    <3> QED
      BY <2>1, <2>2, <3>1
  <2> QED
    BY <2>1, <2>3, <2>4 DEF ReturnsInTime
<1>9. CASE UNCHANGED vars
  BY <1>9, Zenon DEF LateInv, vars, delay, Waiting, Latest, LastTick, ReturnsInTime
<1> QED
  BY <1>2, <1>3, <1>4, <1>5, <1>6, <1>7, <1>8, <1>9 DEF Next, InDelay, Called

\* delay_spin returns no later than one tick after the time asked for, wherever the
\* counter wraps and whatever interrupts end its halts, unless its deadline is 0x7fff
\* (delay_c.c:33-40).
THEOREM DelayReturnsInTime == Spec => []ReturnsInTime
<1>1. Init => LateInv
  <2> SUFFICES ASSUME Init PROVE LateInv
    OBVIOUS
  <2>1. pc = "returned" /\ elapsed = 0 /\ time = 0
    BY DEF Init
  <2> QED
    BY <2>1, DelayInvInit DEF LateInv, Waiting, ReturnsInTime
<1>2. LateInv => ReturnsInTime
  BY DEF LateInv
<1> QED
  BY <1>1, <1>2, LateStep, PTL DEF Spec

-------------------------------------------------------------------------------
(* The announcement timer *)

\* While start polls, ctr is as many ticks after the last announcement as were counted,
\* until it wraps; outside of the loop nothing is counted.
SilentInv ==
  /\ TypeOK
  /\ pc \in {"poll", "recv"} /\ resend_delay + since < 2 * Half => ctr = resend_delay + since
  /\ pc \in {"returned", "spin", "halt", "read"} => since = 0

\* Every step keeps the invariant.
LEMMA SilentStep == SilentInv /\ [Next]_vars => SilentInv'
<1> SUFFICES ASSUME SilentInv, [Next]_vars PROVE SilentInv'
  OBVIOUS
<1>0. TypeOK /\ TypeOK'
  BY TypeStep DEF SilentInv
<1>1. /\ ctr \in 0 .. 2 * Half - 1 /\ resend_delay \in 0 .. 2 * Half - 1
      /\ since \in 0 .. 2 * Half /\ Half \in Nat
  BY <1>0, TimerAssumption DEF TypeOK
<1> USE <1>0, <1>1 DEF SilentInv, resend
<1>2. CASE Tick
  <2>1. CASE pc \in {"poll", "recv"}
    <3>1. /\ since' = Count(since) /\ ctr' = Uint16(ctr + 1)
          /\ pc' = pc /\ resend_delay' = resend_delay
      BY <1>2, <2>1 DEF Tick
    <3>2. ASSUME resend_delay' + since' < 2 * Half PROVE ctr' = resend_delay' + since'
      <4>1. since' = since + 1
        BY <3>1, <3>2 DEF Count
      <4>2. ctr = resend_delay + since /\ ctr + 1 < 2 * Half
        BY <2>1, <3>1, <3>2, <4>1
      <4>3. ctr' = ctr + 1
        BY <3>1, <4>2 DEF Uint16
      <4> QED
        BY <3>1, <4>1, <4>2, <4>3
    <3> QED
      BY <2>1, <3>1, <3>2
  <2>2. CASE pc \notin {"poll", "recv"}
    BY <1>2, <2>2 DEF Tick
  <2> QED
    BY <2>1, <2>2
<1>3. CASE OtherInterrupt \/ InDelay
  <2>1. /\ pc \in {"spin", "halt", "read"} /\ pc' \in {"spin", "halt", "read", "returned"}
        /\ since' = since
    BY <1>3 DEF OtherInterrupt, InDelay, Halts, ReadsCtr
  <2> QED
    BY <2>1
<1>4. CASE Check
  BY <1>4 DEF Check
<1>5. CASE Sent
  <2>1. pc' = "recv" /\ resend_delay' = ctr /\ since' = 0 /\ ctr' = ctr
    BY <1>5 DEF Sent, NextDue
  <2> QED
    BY <2>1
<1>6. CASE Receives
  BY <1>6 DEF Receives
<1>7. CASE EnterLoop
  <2>1. pc' = "poll" /\ resend_delay' = ctr /\ since' = 0 /\ ctr' = ctr
    BY <1>7 DEF EnterLoop
  <2> QED
    BY <2>1
<1>8. ASSUME NEW t \in Times, Delay(t) PROVE SilentInv'
  <2>1. pc' = "spin" /\ since' = 0
    BY <1>8 DEF Delay
  <2> QED
    BY <2>1
<1>9. CASE UNCHANGED vars
  BY <1>9, Zenon DEF vars
<1> QED
  BY <1>2, <1>3, <1>4, <1>5, <1>6, <1>7, <1>8, <1>9 DEF Next, InLoop, Called

\* While start waits for its first command it lets no round of its loop go by without an
\* announcement until the counter has wrapped since the last one (main.c:76-83).
THEOREM AnnouncementsStopAtTheWrap == Spec => SilentOnlyAfterWrap
<1>1. Init => SilentInv
  <2> SUFFICES ASSUME Init PROVE SilentInv
    OBVIOUS
  <2>1. TypeOK
    BY DelayInvInit DEF DelayInv
  <2>2. pc = "returned" /\ since = 0
    BY DEF Init
  <2> QED
    BY <2>1, <2>2 DEF SilentInv
<1>2. SilentInv /\ [Next]_vars
      => [Check /\ still_resend /\ pc' = "recv" => resend_delay + since >= 2 * Half]_vars
  <2> SUFFICES ASSUME SilentInv, Check, still_resend, pc' = "recv", resend_delay + since < 2 * Half
               PROVE  FALSE
    <3>1. SilentInv => resend_delay + since \in Int /\ 2 * Half \in Int
      BY TimerAssumption DEF SilentInv, TypeOK
    <3> QED
      BY <3>1
  <2>1. ctr < resend_delay
    BY TimerAssumption DEF Check, Due, SilentInv, TypeOK
  <2>2. ctr = resend_delay + since
    BY DEF SilentInv, Check
  <2> QED
    BY <2>1, <2>2, TimerAssumption DEF SilentInv, TypeOK
<1> QED
  BY <1>1, <1>2, SilentStep, PTL DEF Spec, SilentOnlyAfterWrap
===============================================================================

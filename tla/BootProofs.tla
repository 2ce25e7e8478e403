------------------------------- MODULE BootProofs -------------------------------
(***************************************************************************)
(* What the driver's set-up hands over to the receive path, and when it    *)
(* halts, for every number of ports, poll limit and buffer size, alone and *)
(* as a part of the boot; and the vectors, for any number of boots, calls  *)
(* and scripts: INT 19h is the BIOS's again when anything but the set-up   *)
(* runs, where INT 13h leads to depends only on how often it was hooked, a *)
(* server waits only for a vector that is hooked, and a caller's answer is *)
(* its own unless start was entered again.                                 *)
(***************************************************************************)
EXTENDS Boot, TLAPS

-------------------------------------------------------------------------------
(* The set-up of the card *)

\* The steps from the one named on.
FromDone == {"done"}
FromGo == {"go"} \cup FromDone
FromAccept == {"accept"} \cup FromGo
FromCurr == {"curr"} \cup FromAccept
FromLayout == {"layout"} \cup FromCurr
FromFound == {"found"} \cup FromLayout

\* What each part of the set-up has established once it is over.  The card is
\* stopped or in monitor mode from before the memory test until it is handed over,
\* so none of it is undone by a frame that comes in.
SetUpInv ==
  /\ stored /\ step = "rdc" => IsCard /\ ram = buff_start
  /\ step \in FromFound => IsCard /\ ram = buff_start
  /\ step \in {"write", "rdc", "found", "layout", "curr", "accept"} => mon
  /\ step \in FromLayout \ FromDone => ~sta
  /\ step \in FromLayout => ~prx
  /\ step \in FromCurr => /\ pstart = rx_page_start /\ pstop = rx_page_stop
                          /\ bnry = BnryInit
  /\ step \in FromAccept => curr = rx_page_start
  /\ step \in FromGo => ~mon
  /\ step \in FromDone => sta

\* The initial states satisfy the invariant: nothing has been done yet.
LEMMA SetUpInvInit == SetUpInit => SetUpInv
  BY DEF SetUpInit, SetUpInv, FromFound, FromLayout, FromCurr, FromAccept, FromGo, FromDone

\* Every step of the driver keeps the invariant.
LEMMA DriverKeeps == SetUpInv /\ Driver => SetUpInv'
<1> SUFFICES ASSUME SetUpInv, Driver PROVE SetUpInv'
  OBVIOUS
<1> USE DEF SetUpInv, FromFound, FromLayout, FromCurr, FromAccept, FromGo, FromDone,
            hardware, regs, local, IsCard, rx_page_start, rx_page_stop, BnryInit
<1>1. CASE DetectNext \/ DetectFails \/ DetectTakes
  BY <1>1 DEF DetectNext, DetectFails, DetectTakes
<1>2. CASE Check \/ StartCard \/ Monitor
  BY <1>2 DEF Check, StartCard, Monitor
<1>3. CASE WriteMem \/ WriteMemWaits
  BY <1>3 DEF WriteMem, WriteMemWaits
<1>4. CASE ReadBackFound \/ ReadBackFails
  BY <1>4 DEF ReadBackFound, ReadBackFails
<1>5. CASE StopCard \/ Layout
  BY <1>5 DEF StopCard, Layout, Stopped
<1>6. CASE SetCurr
  BY <1>6 DEF SetCurr
<1>7. CASE AcceptFrames
  BY <1>7 DEF AcceptFrames
<1>8. CASE Go
  BY <1>8 DEF Go
<1> QED
  BY <1>1, <1>2, <1>3, <1>4, <1>5, <1>6, <1>7, <1>8 DEF Driver

\* Every step of the card keeps the invariant.
LEMMA CardKeeps == SetUpInv /\ (CardStores \/ CardReceives) => SetUpInv'
<1> SUFFICES ASSUME SetUpInv, CardStores \/ CardReceives PROVE SetUpInv'
  OBVIOUS
<1> USE DEF SetUpInv, FromFound, FromLayout, FromCurr, FromAccept, FromGo, FromDone,
            hardware, regs, local, IsCard, rx_page_start, rx_page_stop, BnryInit
<1>1. CASE CardStores
  BY <1>1 DEF CardStores
<1>2. CASE CardReceives
  BY <1>2 DEF CardReceives
<1> QED
  BY <1>1, <1>2

\* eth_initialize returns only with a card whose memory works, its ring empty and its
\* registers as RxRing starts from, whatever an earlier run left in them and whatever
\* arrives while the card is set up (eth.c:97-234).
THEOREM SetUpReady == SetUpSpec => []Ready
<1>1. SetUpInit => SetUpInv
  BY SetUpInvInit
<1>2. SetUpInv /\ [SetUpNext]_setup => SetUpInv'
  <2> SUFFICES ASSUME SetUpInv, [SetUpNext]_setup PROVE SetUpInv'
    OBVIOUS
  <2>1. CASE UNCHANGED setup
    BY <2>1 DEF SetUpInv, setup, hardware, regs, local, IsCard, rx_page_start,
                rx_page_stop, BnryInit
  <2>2. CASE Restart
    BY <2>2 DEF Restart, SetUpInv, FromFound, FromLayout, FromCurr, FromAccept, FromGo,
                FromDone
  <2> QED
    BY <2>1, <2>2, DriverKeeps, CardKeeps DEF SetUpNext
<1>3. SetUpInv => Ready
  BY DEF SetUpInv, Ready, FromDone, FromGo, FromAccept, FromCurr, FromLayout, FromFound,
         BnryInit
<1> QED
  BY <1>1, <1>2, <1>3, PTL DEF SetUpSpec

\* The parts of the type invariant: the bits, where the driver is, and the numbers.
BitsOK ==
  /\ sta \in BOOLEAN /\ mon \in BOOLEAN /\ prx \in BOOLEAN /\ rdc \in BOOLEAN
  /\ stored \in BOOLEAN /\ gaveUp \in BOOLEAN
  /\ dev \in [1 .. Ports -> {"empty", "other", "alike", "card"}]

StepOK ==
  /\ step \in {"detect", "check", "start", "monitor", "write", "rdc", "found",
               "layout", "curr", "accept", "go", "done", "halted"}
  /\ ram \in {0, NE1000, NE2000} /\ buff_start \in {NE1000, NE2000}
  /\ io_base \in 1 .. Ports + 1 /\ waits \in Nat /\ waits < MaxWait

RegsOK == pstart \in Pages /\ pstop \in Pages /\ bnry \in Pages /\ curr \in Pages

\* They are all of it.
LEMMA SetUpParts == SetUpTypeOK <=> BitsOK /\ StepOK /\ RegsOK
  BY Zenon DEF SetUpTypeOK, BitsOK, StepOK, RegsOK

\* And after a step as well.
LEMMA SetUpPartsNext == SetUpTypeOK' <=> BitsOK' /\ StepOK' /\ RegsOK'
  BY Zenon DEF SetUpTypeOK, BitsOK, StepOK, RegsOK

\* The initial states have the types, whatever an earlier run left in the card.
LEMMA SetUpTypesInit == SetUpInit => SetUpTypeOK
<1> SUFFICES ASSUME SetUpInit PROVE BitsOK /\ StepOK /\ RegsOK
  BY SetUpParts
<1>1. BitsOK
  BY Zenon DEF SetUpInit, AnyCard, BitsOK
<1>2. StepOK
  BY SetUpAssumption DEF SetUpInit, StepOK, NE1000, NE2000
<1>3. RegsOK
  <2>1. ram \in {0, NE1000, NE2000} /\ pstart = ram + TxPages /\ pstop = ram + BufPages
        /\ bnry \in pstart .. pstop - 1 /\ curr \in pstart .. pstop - 1
    BY Zenon DEF SetUpInit, AnyCard
  <2> QED
    BY <2>1, SetUpAssumption DEF RegsOK, Pages, NE1000, NE2000
<1> QED
  BY <1>1, <1>2, <1>3

\* Every step of the set-up keeps the types.
LEMMA SetUpTypesStep == SetUpTypeOK /\ [SetUpNext]_setup => SetUpTypeOK'
<1> SUFFICES ASSUME BitsOK, StepOK, RegsOK, [SetUpNext]_setup PROVE BitsOK' /\ StepOK' /\ RegsOK'
  BY SetUpParts, SetUpPartsNext
<1> USE DEF hardware, regs, local
<1>1. BitsOK'
  <2> USE DEF BitsOK
  <2>1. CASE DetectNext \/ DetectFails \/ DetectTakes \/ Check \/ Monitor
    BY <2>1, Zenon DEF DetectNext, DetectFails, DetectTakes, Check, Monitor
  <2>2. CASE StartCard
    BY <2>2, Zenon DEF StartCard, IsCard
  <2>3. CASE WriteMem \/ WriteMemWaits \/ ReadBackFound \/ ReadBackFails
    <3>1. gaveUp' \in {gaveUp, gaveUp \/ ~rdc} /\ stored' \in {stored, FALSE} /\ rdc' \in {rdc, FALSE}
          /\ UNCHANGED <<sta, mon, prx, dev>>
      BY <2>3 DEF WriteMem, WriteMemWaits, ReadBackFound, ReadBackFails
    <3> QED
      BY <3>1, Zenon
  <2>4. CASE StopCard \/ Layout \/ SetCurr \/ AcceptFrames \/ Go
    BY <2>4, Zenon DEF StopCard, Stopped, Layout, SetCurr, AcceptFrames, Go
  <2>5. CASE CardStores \/ CardReceives \/ Restart
    BY <2>5, Zenon DEF CardStores, CardReceives, Restart
  <2>6. CASE UNCHANGED setup
    BY <2>6, Zenon DEF setup
  <2> QED
    BY <2>1, <2>2, <2>3, <2>4, <2>5, <2>6 DEF SetUpNext, Driver
<1>2. StepOK'
  <2> USE SetUpAssumption DEF StepOK, NE1000, NE2000
  <2>1. CASE DetectNext \/ DetectFails \/ DetectTakes
    BY <2>1 DEF DetectNext, DetectFails, DetectTakes
  <2>2. CASE Check
    BY <2>2 DEF Check
  <2>3. CASE StartCard \/ Monitor
    BY <2>3 DEF StartCard, Monitor
  <2>4. CASE WriteMem \/ WriteMemWaits \/ ReadBackFound
    BY <2>4 DEF WriteMem, WriteMemWaits, WaitsOn, ReadBackFound
  <2>5. CASE ReadBackFails
    BY <2>5 DEF ReadBackFails, NextPlace
  <2>6. CASE StopCard \/ Layout \/ SetCurr \/ AcceptFrames \/ Go
    BY <2>6 DEF StopCard, Layout, SetCurr, AcceptFrames, Go
  <2>7. CASE CardStores \/ CardReceives
    <3>1. UNCHANGED <<step, ram, buff_start, io_base, waits>>
      BY <2>7, Zenon DEF CardStores, CardReceives
    <3> QED
      BY <3>1
  <2>8. CASE Restart
    BY <2>8 DEF Restart
  <2>9. CASE UNCHANGED setup
    BY <2>9, Zenon DEF setup
  <2> QED
    BY <2>1, <2>2, <2>3, <2>4, <2>5, <2>6, <2>7, <2>8, <2>9 DEF SetUpNext, Driver
<1>3. RegsOK'
  <2> USE SetUpAssumption DEF RegsOK, Pages, NE1000, NE2000
  <2>1. CASE DetectNext \/ DetectFails \/ DetectTakes \/ Check \/ StartCard
    BY <2>1, Zenon DEF DetectNext, DetectFails, DetectTakes, Check, StartCard
  <2>2. CASE Monitor
    BY <2>2 DEF Monitor
  <2>3. CASE WriteMem \/ WriteMemWaits \/ ReadBackFound
    BY <2>3, Zenon DEF WriteMem, WriteMemWaits, ReadBackFound
  <2>4. CASE ReadBackFails
    BY <2>4 DEF ReadBackFails
  <2>5. CASE Layout
    BY <2>5 DEF Layout, StepOK, BnryInit, rx_page_start, rx_page_stop
  <2>6. CASE SetCurr
    BY <2>6 DEF SetCurr, StepOK, rx_page_start
  <2>7. CASE StopCard \/ AcceptFrames \/ Go \/ CardStores
    BY <2>7, Zenon DEF StopCard, AcceptFrames, Go, CardStores
  <2>8. CASE CardReceives
    BY <2>8 DEF CardReceives
  <2>9. CASE Restart
    BY <2>9 DEF Restart
  <2>10. CASE UNCHANGED setup
    BY <2>10, Zenon DEF setup
  <2> QED
    BY <2>1, <2>2, <2>3, <2>4, <2>5, <2>6, <2>7, <2>8, <2>9, <2>10 DEF SetUpNext, Driver
<1> QED
  BY <1>1, <1>2, <1>3

\* The memory test has missed only memory that is not there, unless it gave up: the
\* pattern is not found at a page the card was done with, and the first place was given
\* up before the second is tried.
HaltInv ==
  /\ buff_start \in {NE1000, NE2000}
  /\ step = "detect" => buff_start = NE1000
  /\ step = "rdc" /\ IsCard /\ rdc /\ ~stored => ram # buff_start
  /\ IsCard /\ buff_start = NE2000 /\ ram = NE1000 => gaveUp
  /\ HaltsForAReason

\* What the invariant needs of the types.
HardwareOK == ram \in {0, NE1000, NE2000} /\ rdc \in BOOLEAN /\ stored \in BOOLEAN

\* Every step of the driver keeps the invariant.
LEMMA DriverHalts == HardwareOK /\ HaltInv /\ Driver => HaltInv'
<1> SUFFICES ASSUME HardwareOK, HaltInv, Driver PROVE HaltInv'
  OBVIOUS
<1> USE DEF HardwareOK, HaltInv, HaltsForAReason, hardware, regs, local, IsCard, NE1000, NE2000
<1>1. CASE DetectNext \/ DetectFails \/ DetectTakes
  BY <1>1 DEF DetectNext, DetectFails, DetectTakes
<1>2. CASE Check \/ StartCard \/ Monitor
  BY <1>2 DEF Check, StartCard, Monitor
<1>3. CASE WriteMem \/ WriteMemWaits \/ ReadBackFound
  BY <1>3 DEF WriteMem, WriteMemWaits, ReadBackFound
<1>4. CASE ReadBackFails
  <2>1. /\ step = "rdc" /\ ~stored /\ UNCHANGED <<dev, ram, io_base, rdc, stored>>
        /\ buff_start' = NE2000
        /\ gaveUp' = (gaveUp \/ ~rdc)
        /\ \/ step' = "halted" /\ buff_start = NE2000
           \/ step' = "write"
    BY <1>4 DEF ReadBackFails, NextPlace
  <2>2. IsCard /\ ram = buff_start => gaveUp'
    BY <2>1
  <2>3. IsCard /\ buff_start = NE2000 /\ ram = NE1000 => gaveUp'
    BY <2>1
  <2> QED
    BY <2>1, <2>2, <2>3
<1>5. CASE StopCard \/ Layout \/ SetCurr \/ AcceptFrames \/ Go
  BY <1>5 DEF StopCard, Layout, SetCurr, AcceptFrames, Go
<1> QED
  BY <1>1, <1>2, <1>3, <1>4, <1>5 DEF Driver

\* The machine halts in the set-up only because no port answers like a card, the first
\* that does is none, its memory does not work, or writemem gave up waiting for it
\* (eth.c:97-176).
THEOREM SetUpHaltsForAReason == SetUpSpec => []HaltsForAReason
<1>1. SetUpInit => HaltInv
  BY DEF SetUpInit, HaltInv, HaltsForAReason, NE1000, NE2000
<1>2. SetUpTypeOK /\ HaltInv /\ [SetUpNext]_setup => HaltInv'
  <2> SUFFICES ASSUME HardwareOK, HaltInv, [SetUpNext]_setup PROVE HaltInv'
    BY Zenon DEF SetUpTypeOK, HardwareOK
  <2> USE DEF HaltInv, HaltsForAReason, hardware, regs, local, IsCard, NE1000, NE2000
  <2>1. CASE CardStores
    BY <2>1 DEF CardStores
  <2>2. CASE CardReceives
    BY <2>2 DEF CardReceives
  <2>3. CASE Restart
    BY <2>3 DEF Restart
  <2>4. CASE UNCHANGED setup
    BY <2>4 DEF setup
  <2> QED
    BY <2>1, <2>2, <2>3, <2>4, DriverHalts DEF SetUpNext
<1>3. HaltInv => HaltsForAReason
  BY DEF HaltInv
<1> QED
  BY <1>1, <1>2, <1>3, SetUpTypesInit, SetUpTypesStep, PTL DEF SetUpSpec

\* What the set-up is left by; and the steps that enter start, that leave it, or that it
\* takes without a command.
SetUpEnded == SetUpHalts \/ AsksForAddress
Enters == \E reaches \in BOOLEAN : EntersStart(reaches)
Leaves == (\E c \in {"leave", "handled"} : LeaveReaches(c)) \/ LeaveIgnored \/ LeaveLost \/ FindsCopy
Waits == Announces \/ FindsForeign

\* In the whole system, too, the set-up goes on by the steps of the driver and of the
\* card and starts again when the machine does: nothing else touches the card before
\* eth_initialize has returned.
THEOREM BootSetsUp == Spec => SetUpSpec
<1>1. Init => SetUpInit
  BY DEF Init
<1>2. [Next]_vars => [SetUpNext]_setup
  <2> SUFFICES ASSUME [Next]_vars PROVE SetUpNext \/ UNCHANGED setup
    OBVIOUS
  <2>1. CASE LoadsGuest \/ EntersRam \/ SetUpEnded \/ \E reaches \in BOOLEAN : SaysHello(reaches)
    BY <2>1, Zenon DEF LoadsGuest, EntersRam, SetUpEnded, SetUpHalts, AsksForAddress, SaysHello
  <2>2. CASE SetsUp \/ CardInSetUp
    BY <2>2, Zenon DEF SetsUp, CardInSetUp, SetUpNext
  <2>3. CASE ThroughGuestHook \/ Enters \/ Waits \/ ReachesBios \/ ReceivesInt \/ FindsIntAgain
    BY <2>3, Zenon DEF ThroughGuestHook, Enters, EntersStart, Waits, Announces, FindsForeign,
                       ReachesBios, ReceivesInt, FindsIntAgain
  <2>4. CASE Constructs \/ CountsDisk \/ WakesUp \/ AsksParams \/ Serves
    BY <2>4, Zenon DEF Constructs, CountsDisk, WakesUp, AsksParams, Serves, Command
  <2>5. CASE Installs \/ Leaves
    BY <2>5, Zenon DEF Installs, Leaves, LeaveReaches, LeaveIgnored, LeaveLost, FindsCopy
  <2>6. CASE LooperStarts \/ StartsByHand \/ StopsByHand \/ ReaderStarts \/ SendsInt
    BY <2>6, Zenon DEF LooperStarts, StartsByHand, StopsByHand, ReaderStarts, SendsInt
  <2>7. CASE GuestCalls19 \/ GuestHooks \/ \E c \in {"mine", "other"} : GuestCalls(c)
    BY <2>7, Zenon DEF GuestCalls19, GuestHooks, GuestCalls
  <2>8. ASSUME NEW ctrl \in BOOLEAN, PowerOn(ctrl) PROVE SetUpNext
    BY <2>8, Zenon DEF PowerOn, SetUpNext
  <2>9. CASE UNCHANGED vars
    BY <2>9, Zenon DEF vars
  <2> QED
    BY <2>1, <2>2, <2>3, <2>4, <2>5, <2>6, <2>7, <2>8, <2>9
       DEF Next, Machine, Server, SetUpEnded, Enters, Leaves, Waits
<1> QED
  BY <1>1, <1>2, PTL DEF Spec, SetUpSpec

\* So what holds of the set-up holds of every boot: start(0) is entered only with a card
\* that is ready, and the machine halts only for a reason.
THEOREM BootIsSetUp == Spec => []Ready /\ []HaltsForAReason
  BY BootSetsUp, SetUpReady, SetUpHaltsForAReason

-------------------------------------------------------------------------------
(* INT 13h *)

\* What a hook of INT 13h reads and writes.
hooks == <<vec13, captured[1], os_next, installs>>

\* Not hooked, hooked once, and a circle; before, after or without the guest's own hook.
ChainInv ==
  /\ DOMAIN captured = {0, 1} /\ installs \in Nat
  /\ \/ installs = 0 /\ vec13 = "bios" /\ os_next = "none"
     \/ installs = 0 /\ vec13 = "os" /\ os_next = "bios"
     \/ installs = 1 /\ vec13 = "ram" /\ captured[1] = "bios" /\ os_next = "none"
     \/ installs = 1 /\ vec13 = "os" /\ captured[1] = "bios" /\ os_next = "ram"
     \/ installs = 1 /\ vec13 = "ram" /\ captured[1] = "os" /\ os_next = "bios"
     \/ installs > 1 /\ vec13 = "ram" /\ captured[1] = "ram"
     \/ installs > 1 /\ vec13 = "os" /\ captured[1] = "ram" /\ os_next = "ram"
     \/ installs > 1 /\ vec13 = "ram" /\ captured[1] = "os" /\ os_next = "ram"

\* Steps that leave the hooks alone.
LEMMA HooksKept ==
  ASSUME ChainInv, UNCHANGED hooks, DOMAIN captured' = DOMAIN captured
  PROVE  ChainInv'
  BY DEF ChainInv, hooks

\* install13h, or a command that is taken for a repetition.
LEMMA InstallKeeps == ChainInv /\ Installs => ChainInv'
<1> SUFFICES ASSUME ChainInv, Installs PROVE ChainInv'
  OBVIOUS
<1>1. CASE Top.bit = m
  <2>1. /\ captured' = [captured EXCEPT ![1] = vec13] /\ vec13' = "ram"
        /\ installs' = installs + 1 /\ os_next' = os_next
    BY <1>1 DEF Installs, Captures
  <2>2. captured'[1] = vec13 /\ DOMAIN captured' = {0, 1}
    BY <2>1 DEF ChainInv
  <2> QED BY <2>1, <2>2 DEF ChainInv
<1>2. CASE Top.bit # m
  BY <1>2 DEF Installs, ChainInv
<1> QED BY <1>1, <1>2

\* The guest hooks INT 13h.
LEMMA GuestHookKeeps == ChainInv /\ GuestHooks => ChainInv'
  BY DEF GuestHooks, ChainInv, counts

\* The BIOS sets the vectors up.
LEMMA PowerOnKeeps == ASSUME NEW ctrl, PowerOn(ctrl) PROVE ChainInv'
  BY DEF PowerOn, ChainInv

\* Every other step leaves them alone.
LEMMA OthersKeep ==
  ASSUME ChainInv,
         \/ LoadsGuest \/ EntersRam \/ SetsUp \/ SetUpEnded
         \/ \E reaches \in BOOLEAN : SaysHello(reaches)
         \/ ThroughGuestHook \/ Enters \/ ReachesBios \/ ReceivesInt \/ FindsIntAgain
         \/ CardInSetUp \/ Leaves \/ Waits
         \/ Constructs \/ CountsDisk \/ WakesUp \/ AsksParams \/ Serves
         \/ LooperStarts \/ StartsByHand \/ StopsByHand \/ ReaderStarts \/ SendsInt
         \/ GuestCalls19 \/ \E c \in {"mine", "other"} : GuestCalls(c)
         \/ UNCHANGED vars
  PROVE  ChainInv'
<1>1. CASE EntersRam
  <2>1. UNCHANGED <<vec13, os_next, installs>> /\ captured' = [captured EXCEPT ![0] = vec32]
    BY <1>1 DEF EntersRam, counts
  <2>2. captured'[1] = captured[1] /\ DOMAIN captured' = DOMAIN captured
    BY <2>1 DEF ChainInv
  <2> QED BY <2>1, <2>2, HooksKept DEF hooks
<1>2. CASE ~EntersRam
  <2>1. UNCHANGED <<vec13, captured, os_next, installs>>
    <3>1. CASE LoadsGuest \/ SetsUp \/ SetUpEnded \/ \E reaches \in BOOLEAN : SaysHello(reaches)
      BY <3>1 DEF LoadsGuest, SetsUp, SetUpEnded, SetUpHalts, AsksForAddress, SaysHello, vectors,
                  counts, machine
    <3>2. CASE ThroughGuestHook \/ Enters \/ ReachesBios \/ ReceivesInt \/ FindsIntAgain
      BY <3>2 DEF ThroughGuestHook, Enters, EntersStart, ReachesBios, ReceivesInt, FindsIntAgain,
                  vectors, counts
    <3>3. CASE CardInSetUp \/ Leaves \/ Waits
      BY <3>3 DEF CardInSetUp, Leaves, LeaveReaches, LeaveIgnored, LeaveLost, FindsCopy, Waits,
                  Announces, FindsForeign, vectors, counts, machine
    <3>4. CASE Constructs \/ CountsDisk \/ WakesUp \/ AsksParams \/ Serves
      BY <3>4 DEF Constructs, CountsDisk, WakesUp, AsksParams, Serves, Command, vectors, counts
    <3>5. CASE LooperStarts \/ StartsByHand \/ StopsByHand \/ ReaderStarts \/ SendsInt
      BY <3>5 DEF LooperStarts, StartsByHand, StopsByHand, ReaderStarts, SendsInt, vectors, counts,
                  machine
    <3>6. CASE GuestCalls19 \/ \E c \in {"mine", "other"} : GuestCalls(c)
      BY <3>6 DEF GuestCalls19, GuestCalls, vectors
    <3>7. CASE UNCHANGED vars
      BY <3>7 DEF vars, machine, vectors, counts
    <3> QED BY <1>2, <3>1, <3>2, <3>3, <3>4, <3>5, <3>6, <3>7
  <2> QED BY <2>1, HooksKept DEF hooks
<1> QED BY <1>1, <1>2

\* So every step keeps the chain in order.
LEMMA ChainStep == ChainInv /\ [Next]_vars => ChainInv'
  BY InstallKeeps, GuestHookKeeps, PowerOnKeeps, OthersKeep
     DEF Next, Machine, Server, SetUpEnded, Enters, Leaves, Waits

\* INT 13h ends at the BIOS as long as it was hooked once at most, and comes round for ever
\* once it was hooked twice.
THEOREM ChainIsRight == Spec => []ChainEndsAtBios
<1>1. Init => ChainInv
  BY DEF Init, ChainInv
<1>2. ChainInv => ChainEndsAtBios
  BY DEF ChainInv, ChainEndsAtBios, Link
<1> QED BY <1>1, <1>2, ChainStep, PTL DEF Spec

-------------------------------------------------------------------------------
(* INT 19h *)

\* INT 32h has the BIOS's vector, and INT 19h after the hook was passed.
EntryInv ==
  /\ vec32 = "bios"
  /\ run \notin {"off", "int19"} => vec19 = "bios"
  /\ run = "int19" => vec19 = "bios" \/ going = "rom"

\* Every step keeps that: only the option ROM hooks INT 19h, and move_to_ram puts back
\* what it found.
LEMMA EntryStep == EntryInv /\ [Next]_vars => EntryInv'
<1> SUFFICES ASSUME EntryInv, [Next]_vars PROVE EntryInv'
  OBVIOUS
<1>1. ASSUME NEW ctrl \in BOOLEAN, PowerOn(ctrl) PROVE EntryInv'
  BY <1>1 DEF PowerOn, Saves, EntryInv
<1>2. CASE EntersRam
  BY <1>2 DEF EntersRam, Restores, EntryInv
<1>3. CASE LoadsGuest \/ SetsUp \/ SetUpEnded \/ \E reaches \in BOOLEAN : SaysHello(reaches)
  BY <1>3 DEF LoadsGuest, SetsUp, SetUpEnded, SetUpHalts, AsksForAddress, SaysHello, vectors,
              machine, EntryInv
<1>4. CASE ThroughGuestHook \/ Enters \/ ReachesBios \/ ReceivesInt \/ FindsIntAgain
  BY <1>4 DEF ThroughGuestHook, Enters, EntersStart, ReachesBios, Returns, ReceivesInt,
              FindsIntAgain, IntCommand, Polls, vectors, EntryInv
<1>5. CASE CardInSetUp \/ Leaves \/ Waits
  <2>1. /\ UNCHANGED vectors
        /\ \/ UNCHANGED <<run, going>>
           \/ run = "start" /\ vec19 = "bios"
    BY <1>5 DEF CardInSetUp, Leaves, LeaveReaches, LeaveIgnored, LeaveLost, FindsCopy, Waits,
                Announces, FindsForeign, Polls, machine, EntryInv
  <2> QED
    BY <2>1 DEF vectors, EntryInv
<1>6. CASE Constructs \/ CountsDisk \/ WakesUp \/ AsksParams \/ Serves \/ Installs
  BY <1>6 DEF Constructs, CountsDisk, WakesUp, AsksParams, Serves, Installs, Command, vectors,
              EntryInv
<1>7. CASE LooperStarts \/ StartsByHand \/ StopsByHand \/ ReaderStarts \/ SendsInt
  BY <1>7 DEF LooperStarts, StartsByHand, StopsByHand, ReaderStarts, SendsInt, vectors, machine,
              EntryInv
<1>8. CASE GuestHooks \/ GuestCalls19 \/ \E c \in {"mine", "other"} : GuestCalls(c)
  BY <1>8 DEF GuestHooks, GuestCalls19, GuestCalls, vectors, EntryInv
<1>9. CASE UNCHANGED vars
  BY <1>9 DEF vars, machine, vectors, EntryInv
<1> QED
  BY <1>1, <1>2, <1>3, <1>4, <1>5, <1>6, <1>7, <1>8, <1>9
     DEF Next, Machine, Server, SetUpEnded, Enters, Leaves, Waits

\* When the guest runs, INT 19h does not lead to start(0) again.
THEOREM StartOnce == Spec => []BootsOnce
<1>1. Init => EntryInv
  BY DEF Init, EntryInv
<1>2. EntryInv => BootsOnce
  BY DEF EntryInv, BootsOnce
<1> QED BY <1>1, <1>2, EntryStep, PTL DEF Spec

-------------------------------------------------------------------------------
(* The types of the whole *)

\* An activation of start.
Activations == [irq : {0, 1}, bit : BOOLEAN, next : {"bios", "ram", "os"}]

\* The stack after a command: the activation on top has another bit, or the same.
LEMMA AfterStack ==
  ASSUME stack \in Seq(Activations), stack # << >>, NEW b
  PROVE  /\ After(b) \in Seq(Activations)
         /\ Len(After(b)) = Len(stack) /\ After(b) # << >>
         /\ \A k \in 1 .. Len(stack) : After(b)[k].next = stack[k].next
         /\ After(b)[Len(After(b))].bit = Toggled(Top.bit, b)
<1> DEFINE n == Len(stack)
           top == [stack[n] EXCEPT !.bit = Toggled(@, b)]
<1>1. n \in Nat /\ n \in 1 .. n /\ n \in DOMAIN stack
  OBVIOUS
<1>2. Top \in Activations /\ Top.bit \in BOOLEAN
  <2>1. Top \in Activations
    BY <1>1 DEF Top
  <2> QED
    BY <2>1 DEF Activations
<1>3. Toggled(Top.bit, b) \in BOOLEAN
  BY <1>2, Zenon DEF Toggled
<1>4. top \in Activations /\ top.bit = Toggled(Top.bit, b) /\ top.next = stack[n].next
  BY <1>2, <1>3 DEF Top, Activations
<1>5. After(b) = [stack EXCEPT ![n] = top]
  BY DEF After
<1> HIDE DEF top
<1>6. After(b) \in Seq(Activations) /\ Len(After(b)) = n
  BY <1>1, <1>4, <1>5
<1>7. After(b) # << >>
  BY <1>1, <1>6
<1>8. ASSUME NEW k \in 1 .. n PROVE After(b)[k].next = stack[k].next
  BY <1>1, <1>4, <1>5, <1>8
<1>9. After(b)[n].bit = Toggled(Top.bit, b)
  BY <1>1, <1>4, <1>5
<1> QED
  BY <1>6, <1>7, <1>8, <1>9

\* The stack without its top.
LEMMA BelowStack ==
  ASSUME stack \in Seq(Activations), stack # << >>
  PROVE  /\ Below \in Seq(Activations) /\ Len(Below) = Len(stack) - 1
         /\ \A k \in 1 .. Len(Below) : Below[k] = stack[k]
<1>1. Len(stack) \in Nat /\ Len(stack) > 0
  OBVIOUS
<1> QED
  BY <1>1 DEF Below

\* The parts of the type invariant: what the actors do, what the vectors hold, and the
\* stack.
ModesOK ==
  /\ run \in {"off", "int19", "setup", "dhcp", "start", "guest", "int13", "unbooted", "halted",
              "crashed"}
  /\ call \in {"none", "mine", "other"}
  /\ at \in {"off", "new", "count", "counted", "install", "leave", "wait", "params", "serve",
             "handled"}
  /\ hello \in {"none", "sent", "lost"} /\ reader \in {"off", "next", "int"}
  /\ answer \in {"none", "bios", "stale"} /\ surplus \in {"none", "leave", "handled"}

VectorsOK ==
  /\ vec19 \in {"bios", "rom"} /\ os_next \in {"none", "bios", "ram"}
  /\ captured \in [{0, 1} -> {"none", "bios", "ram", "os"}]
  /\ captured[0] \in {"none", "bios"}
  /\ run \in {"setup", "dhcp"} => captured[0] = "bios"
  /\ installs = 0 => captured[1] = "none"

\* An interrupt that has got to v can go on from there.
LeadsOn(v) == v # "none" /\ (v = "ram" => captured[1] # "none") /\ (v = "os" => os_next # "none")

\* Where the interrupt under way is, and where every activation will go on to, there is
\* a handler; and start runs in an activation.
StackOK ==
  /\ going \in {"bios", "rom", "ram", "os"} /\ LeadsOn(going)
  /\ stack \in Seq(Activations) /\ Len(stack) <= MaxDepth
  /\ \A k \in 1 .. Len(stack) : LeadsOn(stack[k].next)
  /\ run = "start" => stack # << >>

\* What the actors do stays what it can be.
LEMMA ModesStep == ModesOK /\ [Next]_vars => ModesOK'
<1> SUFFICES ASSUME ModesOK, [Next]_vars PROVE ModesOK'
  OBVIOUS
<1> USE DEF ModesOK, vectors, counts, machine, polling, serving, reading
<1>1. ASSUME NEW ctrl \in BOOLEAN, PowerOn(ctrl) PROVE ModesOK'
  BY <1>1, Zenon DEF PowerOn
<1>2. CASE LoadsGuest \/ EntersRam \/ SetsUp \/ CardInSetUp \/ SetUpEnded
  BY <1>2 DEF LoadsGuest, EntersRam, SetsUp, CardInSetUp, SetUpEnded, SetUpHalts, AsksForAddress
<1>3. ASSUME NEW reaches \in BOOLEAN, SaysHello(reaches) PROVE ModesOK'
  BY <1>3 DEF SaysHello
<1>4. CASE ThroughGuestHook \/ Enters \/ Waits
  BY <1>4 DEF ThroughGuestHook, Enters, EntersStart, Waits, Announces, FindsForeign, polling
<1>5. CASE ReachesBios
  BY <1>5 DEF ReachesBios, Returns, Answers
<1>6. CASE ReceivesInt \/ FindsIntAgain
  BY <1>6 DEF ReceivesInt, FindsIntAgain, IntCommand, Answers
<1>7. CASE Leaves
  <2>1. /\ UNCHANGED hello /\ at' \in {at, "wait"} /\ surplus' \in {"none", "leave", "handled"}
        /\ \/ UNCHANGED <<run, call, reader, answer>>
           \/ \E c \in {"leave", "handled"} : LeavesBy(c)
    BY <1>7 DEF Leaves, LeaveReaches, LeaveIgnored, LeaveLost, FindsCopy, LeaveSent
  <2>2. ASSUME NEW c \in {"leave", "handled"}, LeavesBy(c)
        PROVE  /\ run' \in {"int19", "int13", "unbooted", "start", "guest"}
               /\ call' \in {call, "none"}
               /\ reader' \in {reader, "next"} /\ answer' \in {answer, "bios"}
    BY <2>2 DEF LeavesBy, Returns, Answers
  <2> QED
    BY <2>1, <2>2
<1>8. CASE Constructs \/ CountsDisk \/ WakesUp \/ AsksParams \/ Serves
  BY <1>8 DEF Constructs, CountsDisk, WakesUp, AsksParams, Serves, Command, AfterNew
<1>9. CASE Installs
  BY <1>9 DEF Installs
<1>10. CASE LooperStarts \/ StartsByHand \/ StopsByHand
  BY <1>10 DEF LooperStarts, StartsByHand, StopsByHand, AfterNew
<1>11. CASE ReaderStarts \/ SendsInt
  BY <1>11 DEF ReaderStarts, SendsInt
<1>12. CASE GuestHooks \/ GuestCalls19 \/ \E c \in {"mine", "other"} : GuestCalls(c)
  BY <1>12 DEF GuestHooks, GuestCalls19, GuestCalls
<1>13. CASE UNCHANGED vars
  BY <1>13 DEF vars
<1> QED
  BY <1>1, <1>2, <1>3, <1>4, <1>5, <1>6, <1>7, <1>8, <1>9, <1>10, <1>11, <1>12, <1>13
     DEF Next, Machine, Server, SetUpEnded, Enters, Leaves, Waits

\* So do the vectors: only the set-up takes INT 32h's, and only install13h INT 13h's.
LEMMA VectorsStep == VectorsOK /\ EntryInv /\ ChainInv /\ [Next]_vars => VectorsOK'
<1> SUFFICES ASSUME VectorsOK, EntryInv, ChainInv, [Next]_vars PROVE VectorsOK'
  OBVIOUS
<1> USE DEF VectorsOK, vectors, counts, machine, serving, reading
<1>1. ASSUME NEW ctrl \in BOOLEAN, PowerOn(ctrl) PROVE VectorsOK'
  BY <1>1 DEF PowerOn
<1>2. CASE EntersRam
  <2>1. vec32 = "bios" /\ vec19' = vec32 /\ captured' = [captured EXCEPT ![0] = vec32]
         /\ UNCHANGED <<os_next, installs>>
    BY <1>2 DEF EntersRam, Restores, EntryInv
  <2> QED
    BY <2>1
<1>3. CASE Installs
  <2>1. vec13 \in {"bios", "ram", "os"}
    BY DEF ChainInv
  <2>2. UNCHANGED <<vec19, os_next, run>> /\ installs \in Nat
        /\ \/ captured' = [captured EXCEPT ![1] = vec13] /\ installs' = installs + 1
           \/ UNCHANGED <<captured, installs>>
    BY <1>3 DEF Installs, Captures, ChainInv
  <2> QED
    BY <2>1, <2>2
<1>4. CASE LoadsGuest \/ SetsUp \/ CardInSetUp \/ SetUpEnded \/ \E reaches \in BOOLEAN : SaysHello(reaches)
  BY <1>4 DEF LoadsGuest, SetsUp, CardInSetUp, SetUpEnded, SetUpHalts, AsksForAddress, SaysHello
<1>5. CASE ThroughGuestHook \/ Enters \/ ReachesBios \/ ReceivesInt \/ FindsIntAgain
  BY <1>5 DEF ThroughGuestHook, Enters, EntersStart, ReachesBios, Returns, ReceivesInt, FindsIntAgain,
              IntCommand
<1>6. CASE Leaves \/ Waits
  <2>1. UNCHANGED <<vectors, installs>> /\ (run' \in {"setup", "dhcp"} => UNCHANGED run)
    <3>1. ASSUME NEW c, LeavesBy(c) PROVE run' \notin {"setup", "dhcp"}
      BY <3>1 DEF LeavesBy, Returns
    <3>2. CASE LeaveIgnored \/ LeaveLost \/ Waits
      BY <3>2 DEF LeaveIgnored, LeaveLost, Waits, Announces, FindsForeign
    <3>3. ASSUME NEW c \in {"leave", "handled"}, LeaveReaches(c)
          PROVE  UNCHANGED <<vectors, installs>> /\ run' \notin {"setup", "dhcp"}
      BY <3>1, <3>3 DEF LeaveReaches
    <3>4. ASSUME FindsCopy
          PROVE  UNCHANGED <<vectors, installs>> /\ (run' \in {"setup", "dhcp"} => UNCHANGED run)
      <4>1. UNCHANGED <<vectors, installs>> /\ (UNCHANGED run \/ LeavesBy(surplus))
        BY <3>4 DEF FindsCopy
      <4> QED
        BY <3>1, <4>1
    <3> QED
      BY <1>6, <3>2, <3>3, <3>4 DEF Leaves
  <2> QED
    BY <2>1
<1>7. CASE Constructs \/ CountsDisk \/ WakesUp \/ AsksParams \/ Serves
  BY <1>7 DEF Constructs, CountsDisk, WakesUp, AsksParams, Serves, Command
<1>8. CASE LooperStarts \/ StartsByHand \/ StopsByHand \/ ReaderStarts \/ SendsInt
  BY <1>8 DEF LooperStarts, StartsByHand, StopsByHand, ReaderStarts, SendsInt
<1>9. CASE GuestHooks \/ GuestCalls19 \/ \E c \in {"mine", "other"} : GuestCalls(c)
  BY <1>9 DEF GuestHooks, GuestCalls19, GuestCalls, ChainInv
<1>10. CASE UNCHANGED vars
  BY <1>10 DEF vars
<1> QED
  BY <1>1, <1>2, <1>3, <1>4, <1>5, <1>6, <1>7, <1>8, <1>9, <1>10
     DEF Next, Machine, Server, SetUpEnded, Enters, Leaves, Waits

\* Where INT 13h starts, and where the guest's hook goes on to, there is a handler.
LEMMA ChainLeadsOn == ChainInv /\ VectorsOK => LeadsOn(vec13) /\ (os_next # "none" => LeadsOn(os_next))
  BY DEF ChainInv, LeadsOn, VectorsOK

\* A handler that was there stays there, except when the BIOS sets the vectors up.
VectorsStay == (captured[1] # "none" => captured'[1] # "none") /\ (os_next # "none" => os_next' # "none")

\* So a step keeps the invariant that puts only such places on the stack, or takes
\* some from it.
LEMMA StackKept ==
  ASSUME StackOK, VectorsStay,
         going' \in {"bios", "rom", "ram", "os"}, LeadsOn(going)',
         stack' \in Seq(Activations), Len(stack') <= MaxDepth,
         \A k \in 1 .. Len(stack') : k <= Len(stack) /\ stack'[k].next = stack[k].next,
         run' = "start" => stack' # << >>
  PROVE  StackOK'
<1>1. \A k \in 1 .. Len(stack') : LeadsOn(stack[k].next)
  <2> SUFFICES ASSUME NEW k \in 1 .. Len(stack') PROVE LeadsOn(stack[k].next)
    OBVIOUS
  <2>1. k \in 1 .. Len(stack)
    BY DEF StackOK
  <2> QED
    BY <2>1 DEF StackOK
<1>2. \A k \in 1 .. Len(stack') : LeadsOn(stack[k].next) => LeadsOn(stack[k].next)'
  BY DEF LeadsOn, VectorsStay
<1> QED
  BY <1>1, <1>2 DEF StackOK

\* Steps that leave the stack alone.
LEMMA StackSame ==
  ASSUME StackOK, VectorsStay, UNCHANGED stack,
         going' \in {"bios", "rom", "ram", "os"}, LeadsOn(going)',
         run' = "start" => stack # << >>
  PROVE  StackOK'
<1>1. stack' \in Seq(Activations) /\ Len(stack') <= MaxDepth
      /\ \A k \in 1 .. Len(stack') : k <= Len(stack) /\ stack'[k].next = stack[k].next
  BY DEF StackOK
<1> QED
  BY <1>1, StackKept

\* The interrupt that start is left by, or a command's int, goes on to where there is a
\* handler.
LEMMA GoingStays ==
  ASSUME StackOK, VectorsStay, UNCHANGED going
  PROVE  going' \in {"bios", "rom", "ram", "os"} /\ LeadsOn(going)'
  BY DEF StackOK, LeadsOn, VectorsStay

\* Every command leaves a well-formed stack.
LEMMA AfterKeeps ==
  ASSUME StackOK, VectorsStay, stack # << >>, NEW b, stack' = After(b),
         going' \in {"bios", "rom", "ram", "os"}, LeadsOn(going)'
  PROVE  StackOK'
<1>1. /\ stack' \in Seq(Activations) /\ Len(stack') = Len(stack) /\ stack' # << >>
      /\ \A k \in 1 .. Len(stack) : stack'[k].next = stack[k].next
  BY AfterStack DEF StackOK
<1>2. Len(stack') <= MaxDepth /\ \A k \in 1 .. Len(stack') : k <= Len(stack)
  BY <1>1 DEF StackOK
<1> QED
  BY <1>1, <1>2, StackKept

\* Only when the BIOS sets the vectors up is a handler gone.
LEMMA HandlersStay ==
  ASSUME VectorsOK, ChainInv, [Next]_vars, \A ctrl \in BOOLEAN : ~PowerOn(ctrl)
  PROVE  VectorsStay
<1> USE DEF VectorsStay, vectors, counts, machine
<1>1. CASE EntersRam
  <2>1. captured' = [captured EXCEPT ![0] = vec32] /\ UNCHANGED os_next
    BY <1>1 DEF EntersRam
  <2> QED
    BY <2>1 DEF VectorsOK
<1>2. CASE Installs
  <2>1. captured' \in {captured, [captured EXCEPT ![1] = vec13]} /\ UNCHANGED os_next
    BY <1>2 DEF Installs, Captures
  <2> QED
    BY <2>1 DEF VectorsOK, ChainInv
<1>3. CASE GuestHooks
  BY <1>3 DEF GuestHooks
<1>4. CASE LoadsGuest \/ SetsUp \/ CardInSetUp \/ SetUpEnded \/ \E reaches \in BOOLEAN : SaysHello(reaches)
  BY <1>4 DEF LoadsGuest, SetsUp, CardInSetUp, SetUpEnded, SetUpHalts, AsksForAddress, SaysHello
<1>5. CASE ThroughGuestHook \/ Enters \/ ReachesBios \/ ReceivesInt \/ FindsIntAgain
  BY <1>5 DEF ThroughGuestHook, Enters, EntersStart, ReachesBios, ReceivesInt, FindsIntAgain
<1>6. CASE Leaves \/ Waits
  BY <1>6 DEF Leaves, LeaveReaches, LeaveIgnored, LeaveLost, FindsCopy, Waits, Announces,
              FindsForeign
<1>7. CASE Constructs \/ CountsDisk \/ WakesUp \/ AsksParams \/ Serves
  BY <1>7 DEF Constructs, CountsDisk, WakesUp, AsksParams, Serves, Command
<1>8. CASE LooperStarts \/ StartsByHand \/ StopsByHand \/ ReaderStarts \/ SendsInt
  BY <1>8 DEF LooperStarts, StartsByHand, StopsByHand, ReaderStarts, SendsInt
<1>9. CASE GuestCalls19 \/ \E c \in {"mine", "other"} : GuestCalls(c)
  BY <1>9 DEF GuestCalls19, GuestCalls
<1>10. CASE UNCHANGED vars
  BY <1>10 DEF vars
<1> QED
  BY <1>1, <1>2, <1>3, <1>4, <1>5, <1>6, <1>7, <1>8, <1>9, <1>10
     DEF Next, Machine, Server, SetUpEnded, Enters, Leaves, Waits

\* The invariants the stack's rests on.
PathsOK == VectorsOK /\ EntryInv /\ ChainInv

\* A leave that is taken for new ends the activation on top, and the call goes on, or back.
LEMMA LeaveKeeps ==
  ASSUME PathsOK, StackOK, VectorsStay, run = "start", UNCHANGED vectors, NEW c, LeavesBy(c)
  PROVE  StackOK'
<1>1. stack \in Seq(Activations) /\ Len(stack) \in Nat /\ stack # << >>
  BY DEF StackOK
<1>2. /\ stack' = Below
      /\ \/ going' = Top.next /\ run' # "start" /\ UNCHANGED <<captured, os_next>>
         \/ UNCHANGED going /\ (run' = "start" => Len(Below) # 0)
  BY DEF LeavesBy, Returns, vectors
<1>3. /\ Below \in Seq(Activations) /\ Len(Below) = Len(stack) - 1
      /\ \A k \in 1 .. Len(Below) : Below[k] = stack[k]
  BY <1>1, BelowStack
<1>4. Len(Below) <= MaxDepth /\ \A k \in 1 .. Len(Below) : k <= Len(stack) /\ Below[k].next = stack[k].next
  BY <1>1, <1>3, BootAssumption DEF StackOK
<1>5. going' \in {"bios", "rom", "ram", "os"} /\ LeadsOn(going)'
  <2>1. CASE UNCHANGED going
    BY <2>1, GoingStays
  <2>2. CASE going' = Top.next /\ UNCHANGED <<captured, os_next>>
    <3>1. Len(stack) \in 1 .. Len(stack)
      BY <1>1
    <3>2. Top \in Activations /\ LeadsOn(Top.next)
      BY <1>1, <3>1 DEF Top, StackOK
    <3>3. Top.next \in {"bios", "ram", "os"}
      BY <3>2 DEF Activations
    <3> QED
      BY <2>2, <3>2, <3>3 DEF LeadsOn
  <2> QED
    BY <1>2, <2>1, <2>2
<1>6. run' = "start" => Below # << >>
  BY <1>2
<1> QED
  BY <1>2, <1>3, <1>4, <1>5, <1>6, StackKept

\* Every step keeps the stack in order, where it is left, entered again or cut short.
LEMMA StackStep == PathsOK /\ StackOK /\ [Next]_vars => StackOK'
<1> SUFFICES ASSUME PathsOK, StackOK, [Next]_vars PROVE StackOK'
  OBVIOUS
<1> USE DEF vectors, counts, machine, serving, reading
<1>1. ASSUME NEW ctrl \in BOOLEAN, PowerOn(ctrl) PROVE StackOK'
  <2>1. going' \in {"bios", "rom"} /\ stack' = << >> /\ run' = "int19"
    BY <1>1 DEF PowerOn, Saves
  <2>2. << >> \in Seq(Activations) /\ Len(<< >>) = 0 /\ MaxDepth \in Nat
    BY BootAssumption
  <2> QED
    BY <2>1, <2>2 DEF StackOK, LeadsOn
<1>2. SUFFICES ASSUME \A ctrl \in BOOLEAN : ~PowerOn(ctrl) PROVE StackOK'
  BY <1>1
<1>3. VectorsStay
  BY <1>2, HandlersStay DEF PathsOK
<1>4. LeadsOn(vec13) /\ vec13 \in {"bios", "ram", "os"}
      /\ (os_next # "none" => LeadsOn(os_next)) /\ os_next \in {"none", "bios", "ram"}
  BY ChainLeadsOn DEF PathsOK, VectorsOK, ChainInv
<1>5. stack \in Seq(Activations) /\ Len(stack) \in Nat
  BY DEF StackOK
<1>6. CASE LoadsGuest \/ EntersRam \/ SetsUp \/ CardInSetUp \/ SetUpEnded
  <2>1. UNCHANGED <<going, stack>> /\ (run' = "start" => run = "start")
    BY <1>6 DEF LoadsGuest, EntersRam, SetsUp, CardInSetUp, SetUpEnded, SetUpHalts, AsksForAddress
  <2> QED
    BY <1>3, <2>1, StackSame, GoingStays DEF StackOK
<1>7. ASSUME NEW reaches \in BOOLEAN, SaysHello(reaches) PROVE StackOK'
  <2>1. stack' = << Activation(0) >> /\ UNCHANGED <<going, captured, os_next>> /\ captured[0] = "bios"
    BY <1>7 DEF SaysHello, PathsOK, VectorsOK
  <2>2. Activation(0) \in Activations /\ Activation(0).next = "bios"
    BY <2>1 DEF Activation, Activations
  <2>3. stack' \in Seq(Activations) /\ Len(stack') = 1 /\ stack'[1] = Activation(0) /\ stack' # << >>
    BY <2>1, <2>2
  <2>4. Len(stack') <= MaxDepth /\ \A k \in 1 .. Len(stack') : stack'[k].next = "bios"
    BY <2>2, <2>3, BootAssumption
  <2> QED
    BY <1>3, <2>3, <2>4, GoingStays, <2>1 DEF StackOK, LeadsOn
<1>8. CASE ThroughGuestHook
  <2>1. going = "os" /\ going' = os_next /\ UNCHANGED <<stack, captured, os_next>> /\ run' = "int13"
    BY <1>8 DEF ThroughGuestHook
  <2>2. os_next # "none"
    BY <2>1 DEF StackOK, LeadsOn
  <2>3. going' \in {"bios", "rom", "ram", "os"} /\ LeadsOn(going)'
    BY <1>4, <2>1, <2>2 DEF LeadsOn
  <2> QED
    BY <1>3, <2>1, <2>3, StackSame
<1>9. ASSUME NEW reaches \in BOOLEAN, EntersStart(reaches) PROVE StackOK'
  <2>1. going = "ram" /\ UNCHANGED <<going, captured, os_next>>
        /\ \/ /\ Len(stack) < MaxDepth /\ stack' = Append(stack, Activation(1))
           \/ /\ run' = "crashed" /\ UNCHANGED stack
    BY <1>9 DEF EntersStart
  <2>2. CASE UNCHANGED stack
    BY <1>3, <1>9, <2>1, <2>2, StackSame, GoingStays DEF StackOK, EntersStart
  <2>3. CASE Len(stack) < MaxDepth /\ stack' = Append(stack, Activation(1))
    <3>1. captured[1] \in {"bios", "ram", "os"} /\ LeadsOn(captured[1])
      <4>1. captured[1] # "none" /\ captured[1] \in {"none", "bios", "ram", "os"}
        BY <2>1 DEF StackOK, LeadsOn, PathsOK, VectorsOK
      <4>2. captured[1] = "os" => os_next # "none"
        BY <4>1 DEF PathsOK, VectorsOK, ChainInv
      <4> QED
        BY <4>1, <4>2 DEF LeadsOn
    <3>2. Activation(1) \in Activations /\ Activation(1).next = captured[1]
      BY <3>1 DEF Activation, Activations
    <3>3. stack' \in Seq(Activations) /\ Len(stack') = Len(stack) + 1 /\ Len(stack') <= MaxDepth
          /\ stack' # << >>
      BY <1>5, <2>3, <3>2, BootAssumption
    <3>4. ASSUME NEW k \in 1 .. Len(stack') PROVE LeadsOn(stack'[k].next)
      <4>1. CASE k = Len(stack) + 1
        BY <1>5, <2>3, <3>1, <3>2, <4>1
      <4>2. CASE k # Len(stack) + 1
        <5>1. k \in 1 .. Len(stack) /\ stack'[k] = stack[k]
          BY <1>5, <2>3, <3>3, <4>2
        <5> QED
          BY <5>1 DEF StackOK
      <4> QED
        BY <4>1, <4>2
    <3> QED
      BY <1>3, <2>1, <3>3, <3>4, GoingStays DEF StackOK, LeadsOn
  <2> QED
    BY <2>1, <2>2, <2>3
<1>10. CASE ReachesBios
  <2>1. UNCHANGED <<going, stack>> /\ (run' = "start" => Len(stack) # 0)
    BY <1>10 DEF ReachesBios, Returns
  <2> QED
    BY <1>3, <1>5, <2>1, StackSame, GoingStays
<1>11. CASE Leaves
  <2>1. ASSUME NEW c \in {"leave", "handled"}, LeaveReaches(c) PROVE StackOK'
    <3>1. run = "start" /\ UNCHANGED vectors /\ LeavesBy(c)
      BY <2>1, Zenon DEF LeaveReaches, Polls
    <3> QED
      BY <1>3, <3>1, LeaveKeeps
  <2>2. CASE FindsCopy
    <3>1. run = "start" /\ UNCHANGED vectors
          /\ (LeavesBy(surplus) \/ UNCHANGED <<run, going, stack>>)
      BY <2>2, Zenon DEF FindsCopy
    <3>2. CASE LeavesBy(surplus)
      BY <1>3, <3>1, <3>2, LeaveKeeps
    <3> QED
      BY <1>3, <3>1, <3>2, StackSame, GoingStays DEF StackOK
  <2>3. CASE LeaveIgnored
    <3>1. UNCHANGED <<run, going, stack>>
      BY <2>3 DEF LeaveIgnored
    <3> QED
      BY <1>3, <3>1, StackSame, GoingStays DEF StackOK
  <2>4. CASE LeaveLost
    <3>1. stack # << >> /\ UNCHANGED <<run, going>> /\ (UNCHANGED stack \/ stack' = After(FALSE))
      BY <2>4 DEF LeaveLost, Polls, StackOK
    <3>2. CASE UNCHANGED stack
      BY <1>3, <3>1, <3>2, StackSame, GoingStays
    <3>3. CASE stack' = After(FALSE)
      BY <1>3, <3>1, <3>3, AfterKeeps, GoingStays
    <3> QED
      BY <3>1, <3>2, <3>3
  <2> QED
    BY <1>11, <2>1, <2>2, <2>3, <2>4 DEF Leaves
<1>12. CASE Waits
  <2>1. UNCHANGED <<run, stack, going>>
    BY <1>12 DEF Waits, Announces, FindsForeign
  <2> QED
    BY <1>3, <2>1, StackSame, GoingStays DEF StackOK
<1>13. CASE ReceivesInt \/ FindsIntAgain
  <2>1. /\ stack # << >>
        /\ \/ stack' = After(rm) /\ going' = vec13 /\ UNCHANGED <<captured, os_next>>
           \/ UNCHANGED <<stack, going>>
    BY <1>13 DEF ReceivesInt, FindsIntAgain, IntCommand, Polls, StackOK
  <2>2. CASE stack' = After(rm) /\ going' = vec13 /\ UNCHANGED <<captured, os_next>>
    <3>1. going' \in {"bios", "rom", "ram", "os"} /\ LeadsOn(going)'
      BY <1>4, <2>2 DEF LeadsOn
    <3> QED
      BY <1>3, <2>1, <2>2, <3>1, AfterKeeps
  <2>3. CASE UNCHANGED <<stack, going>>
    BY <1>3, <2>1, <2>3, StackSame, GoingStays
  <2> QED
    BY <2>1, <2>2, <2>3
<1>14. CASE Constructs \/ CountsDisk \/ WakesUp \/ AsksParams \/ Serves \/ Installs
  <2>1. stack # << >> /\ stack' = After(m) /\ UNCHANGED going
    BY <1>14 DEF Constructs, CountsDisk, WakesUp, AsksParams, Serves, Command, Installs, Polls, StackOK
  <2> QED
    BY <1>3, <2>1, AfterKeeps, GoingStays
<1>15. CASE ReaderStarts
  <2>1. stack # << >> /\ stack' = After(FALSE) /\ UNCHANGED going
    BY <1>15 DEF ReaderStarts, Polls, StackOK
  <2> QED
    BY <1>3, <2>1, AfterKeeps, GoingStays
<1>16. CASE LooperStarts \/ StartsByHand \/ StopsByHand \/ SendsInt \/ UNCHANGED vars
  <2>1. UNCHANGED <<run, stack, going>>
    BY <1>16 DEF LooperStarts, StartsByHand, StopsByHand, SendsInt, vars
  <2> QED
    BY <1>3, <2>1, StackSame, GoingStays DEF StackOK
<1>17. CASE GuestHooks \/ GuestCalls19 \/ \E c \in {"mine", "other"} : GuestCalls(c)
  <2>1. UNCHANGED stack /\ (run' = "start" => run = "start")
        /\ \/ UNCHANGED going
           \/ going' \in {vec13, vec19} /\ UNCHANGED <<captured, os_next>>
    BY <1>17 DEF GuestHooks, GuestCalls19, GuestCalls
  <2>2. going' \in {"bios", "rom", "ram", "os"} /\ LeadsOn(going)'
    <3>1. CASE UNCHANGED going
      BY <1>3, <3>1, GoingStays
    <3>2. CASE going' \in {vec13, vec19} /\ UNCHANGED <<captured, os_next>>
      <4>1. vec19 \in {"bios", "rom"} /\ LeadsOn(vec19)
        BY DEF PathsOK, VectorsOK, LeadsOn
      <4> QED
        BY <1>4, <3>2, <4>1 DEF LeadsOn
    <3> QED
      BY <2>1, <3>1, <3>2
  <2> QED
    BY <1>3, <2>1, <2>2, StackSame DEF StackOK
<1> QED
  BY <1>2, <1>6, <1>7, <1>8, <1>9, <1>10, <1>11, <1>12, <1>13, <1>14, <1>15, <1>16, <1>17
     DEF Next, Machine, Server, SetUpEnded, Enters, Leaves, Waits

\* The whole of it: what the actors do, the vectors, the chain and the stack.
BootInv == ModesOK /\ PathsOK /\ StackOK

\* Before the machine is switched on nothing is hooked and nothing runs.
LEMMA BootInvInit == Init => BootInv
<1> SUFFICES ASSUME Init PROVE BootInv
  OBVIOUS
<1>1. ModesOK
  BY DEF Init, ModesOK
<1>2. PathsOK
  BY DEF Init, PathsOK, VectorsOK, EntryInv, ChainInv
<1>3. StackOK
  <2>1. stack = << >> /\ going = "bios" /\ run = "off"
    BY DEF Init
  <2>2. << >> \in Seq(Activations) /\ Len(<< >>) = 0 /\ MaxDepth \in Nat
    BY BootAssumption
  <2> QED
    BY <2>1, <2>2 DEF StackOK, LeadsOn
<1> QED
  BY <1>1, <1>2, <1>3 DEF BootInv

\* And every step keeps it so.
LEMMA BootInvStep == BootInv /\ [Next]_vars => BootInv'
<1> SUFFICES ASSUME BootInv, [Next]_vars PROVE BootInv'
  OBVIOUS
<1>1. PathsOK'
  BY VectorsStep, EntryStep, ChainStep DEF BootInv, PathsOK
<1> QED
  BY <1>1, ModesStep, StackStep DEF BootInv

\* Whatever the guest, the servers and the resets do, start is never left to a place
\* that holds no handler, and its activations fit the stack that BootTypeOK gives them
\* (init.S:50-183, main.c:38-291).
THEOREM BootTypes == Spec => []BootTypeOK
<1>1. SetUpTypeOK /\ BootInv => BootTypeOK
  <2> SUFFICES ASSUME SetUpTypeOK, BootInv PROVE BootTypeOK
    OBVIOUS
  <2>1. ASSUME NEW k \in 1 .. Len(stack)
        PROVE  stack[k].irq \in {0, 1} /\ stack[k].bit \in BOOLEAN /\ stack[k].next \in {"bios", "ram", "os"}
    <3>1. stack[k] \in Activations
      BY DEF BootInv, StackOK
    <3> QED
      BY <3>1 DEF Activations
  <2>2. vec32 \in {"bios", "rom"} /\ vec13 \in {"bios", "ram", "os"} /\ installs \in Nat
    BY DEF BootInv, PathsOK, EntryInv, ChainInv
  <2> QED
    BY <2>1, <2>2, Zenon DEF BootTypeOK, BootInv, ModesOK, PathsOK, VectorsOK, StackOK
<1> QED
  BY <1>1, BootInvInit, BootInvStep, BootSetsUp, SetUpTypesInit, SetUpTypesStep, PTL DEF Spec, SetUpSpec

-------------------------------------------------------------------------------
(* The phases of the scripts *)

\* The phases, and whether the looper knows the machine, are bits.
PhasesOK == m \in BOOLEAN /\ rm \in BOOLEAN /\ known \in BOOLEAN /\ frame \in BOOLEAN

\* Only one script runs at a time, the reader with no old leave in its way; and only the
\* looper is told of a Hello.
ActorsOK ==
  /\ reader # "off" => at = "off" /\ server.by = "hand" /\ surplus = "none"
  /\ hello = "sent" => server.by = "looper"
  /\ server.drive \in {"floppy", "disk"}

\* They stay bits.
LEMMA PhasesStep == PhasesOK /\ [Next]_vars => PhasesOK'
<1> SUFFICES ASSUME PhasesOK, [Next]_vars PROVE PhasesOK'
  OBVIOUS
<1> USE DEF PhasesOK, machine, polling, serving, reading
<1>1. CASE \E ctrl \in BOOLEAN : PowerOn(ctrl)
  BY <1>1, Zenon DEF PowerOn
<1>2. CASE LoadsGuest \/ EntersRam \/ SetsUp \/ CardInSetUp \/ SetUpEnded
  BY <1>2, Zenon DEF LoadsGuest, EntersRam, SetsUp, CardInSetUp, SetUpEnded, SetUpHalts, AsksForAddress
<1>3. CASE ThroughGuestHook \/ Enters \/ Waits \/ \E reaches \in BOOLEAN : SaysHello(reaches)
  BY <1>3, Zenon DEF ThroughGuestHook, Enters, EntersStart, Waits, Announces, FindsForeign, polling,
                     SaysHello
<1>4. CASE ReachesBios
  BY <1>4, Zenon DEF ReachesBios, Returns, Answers
<1>5. CASE ReceivesInt \/ FindsIntAgain
  BY <1>5, Zenon DEF ReceivesInt, FindsIntAgain, IntCommand, Answers
<1>6. CASE LeaveIgnored \/ LeaveLost
  BY <1>6, Zenon DEF LeaveIgnored, LeaveLost, LeaveSent
<1>7. ASSUME NEW c \in {"leave", "handled"}, LeaveReaches(c) \/ FindsCopy PROVE PhasesOK'
  <2>1. ASSUME NEW d, LeavesBy(d) PROVE rm' \in BOOLEAN /\ frame' \in BOOLEAN
    BY <2>1, Zenon DEF LeavesBy, Returns, Answers
  <2> QED
    BY <1>7, <2>1, Zenon DEF LeaveReaches, FindsCopy, LeaveSent
<1>8. CASE Constructs \/ CountsDisk \/ WakesUp \/ AsksParams \/ Serves
  BY <1>8, Zenon DEF Constructs, CountsDisk, WakesUp, AsksParams, Serves, Command
<1>9. CASE Installs
  BY <1>9, Zenon DEF Installs
<1>10. CASE LooperStarts \/ StartsByHand \/ StopsByHand \/ ReaderStarts \/ SendsInt
  BY <1>10, Zenon DEF LooperStarts, StartsByHand, StopsByHand, ReaderStarts, SendsInt
<1>11. CASE GuestHooks \/ GuestCalls19 \/ \E c \in {"mine", "other"} : GuestCalls(c)
  BY <1>11, Zenon DEF GuestHooks, GuestCalls19, GuestCalls
<1>12. CASE UNCHANGED vars
  BY <1>12, Zenon DEF vars
<1> QED
  BY <1>1, <1>2, <1>3, <1>4, <1>5, <1>6, <1>7, <1>8, <1>9, <1>10, <1>11, <1>12
     DEF Next, Machine, Server, SetUpEnded, Enters, Waits

\* The reader is started only when no server runs, and a server only when no reader does.
LEMMA ActorsStep == ActorsOK /\ [Next]_vars => ActorsOK'
<1> SUFFICES ASSUME ActorsOK, [Next]_vars PROVE ActorsOK'
  OBVIOUS
<1> USE DEF ActorsOK, machine, polling, serving, reading
<1>1. CASE \E ctrl \in BOOLEAN : PowerOn(ctrl)
  BY <1>1 DEF PowerOn
<1>2. CASE LoadsGuest \/ EntersRam \/ SetsUp \/ CardInSetUp \/ SetUpEnded
  BY <1>2 DEF LoadsGuest, EntersRam, SetsUp, CardInSetUp, SetUpEnded, SetUpHalts, AsksForAddress
<1>3. CASE ThroughGuestHook \/ Enters \/ Waits \/ \E reaches \in BOOLEAN : SaysHello(reaches)
  BY <1>3 DEF ThroughGuestHook, Enters, EntersStart, Waits, Announces, FindsForeign, SaysHello
<1>4. CASE ReachesBios
  BY <1>4 DEF ReachesBios, Returns, Answers
<1>5. CASE ReceivesInt \/ FindsIntAgain
  BY <1>5 DEF ReceivesInt, FindsIntAgain, IntCommand, Answers
<1>6. CASE LeaveIgnored \/ LeaveLost
  BY <1>6 DEF LeaveIgnored, LeaveLost, LeaveSent
<1>7. ASSUME NEW c \in {"leave", "handled"}, LeaveReaches(c) \/ FindsCopy PROVE ActorsOK'
  <2>1. reader = "off" /\ UNCHANGED <<server, hello>>
    BY <1>7 DEF LeaveReaches, FindsCopy
  <2>2. ASSUME NEW d, LeavesBy(d) PROVE reader' = "off"
    BY <2>1, <2>2 DEF LeavesBy, Returns, Answers
  <2>3. reader' = "off"
    BY <1>7, <2>1, <2>2 DEF LeaveReaches, FindsCopy
  <2> QED
    BY <2>1, <2>3
<1>8. CASE Constructs \/ CountsDisk \/ WakesUp \/ AsksParams \/ Serves \/ Installs
  <2>1. at # "off" /\ UNCHANGED <<server, hello, reader>>
    BY <1>8, Zenon DEF Constructs, CountsDisk, WakesUp, AsksParams, Serves, Command, Installs
  <2> QED
    BY <2>1
<1>9. CASE LooperStarts \/ StartsByHand \/ StopsByHand \/ ReaderStarts \/ SendsInt
  BY <1>9 DEF LooperStarts, StartsByHand, StopsByHand, ReaderStarts, SendsInt, Polls
<1>10. CASE GuestHooks \/ GuestCalls19 \/ \E c \in {"mine", "other"} : GuestCalls(c)
  BY <1>10 DEF GuestHooks, GuestCalls19, GuestCalls
<1>11. CASE UNCHANGED vars
  BY <1>11 DEF vars
<1> QED
  BY <1>1, <1>2, <1>3, <1>4, <1>5, <1>6, <1>7, <1>8, <1>9, <1>10, <1>11
     DEF Next, Machine, Server, SetUpEnded, Enters, Waits

\* Whether a command is executed or taken for a repetition, start's bit is the phase of
\* the next one after it.
LEMMA InPhase ==
  ASSUME StackOK, stack # << >>, NEW b \in BOOLEAN, stack' = After(b)
  PROVE  (Top.bit)' = ~b
<1>1. stack'[Len(stack')].bit = Toggled(Top.bit, b)
  BY AfterStack DEF StackOK
<1>2. Top.bit \in BOOLEAN
  <2>1. Top \in Activations
    BY DEF Top, StackOK
  <2> QED
    BY <2>1 DEF Activations
<1>3. Toggled(Top.bit, b) = ~b
  BY <1>2, Zenon DEF Toggled
<1> QED
  BY <1>1, <1>3 DEF Top

\* A server of this boot is in phase with start from its first command on, until it has
\* hooked INT 13h; except that the looper's second floppy server begins with that very
\* command, in the phase its monitor object was left in.
ServedInv ==
  started /\ installs = 0 /\ ~(reused /\ server.drive = "floppy") =>
    \/ at \in {"off", "new", "count"}
    \/ at \in {"counted", "install"} /\ Polls /\ Top.bit = m

\* The invariants the two phase invariants rest on.
Context == StackOK /\ PhasesOK /\ ActorsOK /\ installs \in Nat

\* Steps that keep what ServedInv is about.
LEMMA ServedSame ==
  ASSUME ServedInv, UNCHANGED <<started, installs, reused, server, at, run, frame, surplus, stack, m>>
  PROVE  ServedInv'
  BY DEF ServedInv, Polls, Top

\* A server's command keeps it in phase.
LEMMA ServedCommand ==
  ASSUME Context, ServedInv, NEW from, NEW to, Command(from, to),
         \/ from = "new" /\ to = AfterNew
         \/ from = "count" /\ to = "counted"
         \/ from = "counted" /\ to = "install"
         \/ from \in {"wait", "params", "serve"} /\ to \in {"params", "serve", "leave", "handled"}
  PROVE  ServedInv'
<1>1. /\ Polls /\ at = from /\ at' = to /\ stack' = After(m) /\ m' = ~m
      /\ UNCHANGED <<run, frame, surplus, server, started, reused, installs>>
  BY DEF Command, counts
<1>2. stack # << >> /\ m \in BOOLEAN
  BY <1>1 DEF Context, StackOK, PhasesOK, Polls
<1>3. (Top.bit)' = m'
  BY <1>1, <1>2, InPhase DEF Context
<1>4. Polls'
  BY <1>1 DEF Polls
<1>5. AfterNew \in {"count", "install"}
  BY DEF AfterNew
<1> QED
  BY <1>1, <1>3, <1>4, <1>5 DEF ServedInv

\* Every step keeps the invariant.
LEMMA ServedStep == Context /\ ServedInv /\ [Next]_vars => ServedInv'
<1> SUFFICES ASSUME Context, ServedInv, [Next]_vars PROVE ServedInv'
  OBVIOUS
<1> USE DEF vectors, counts, machine, serving, reading
<1>1. ASSUME NEW ctrl \in BOOLEAN, PowerOn(ctrl) PROVE ServedInv'
  BY <1>1 DEF PowerOn, ServedInv
<1>2. CASE Constructs \/ CountsDisk \/ WakesUp \/ AsksParams \/ Serves
  BY <1>2, ServedCommand DEF Constructs, CountsDisk, WakesUp, AsksParams, Serves
<1>3. CASE Installs
  <2>1. /\ at = "install" /\ UNCHANGED <<started, reused, server>>
        /\ \/ Top.bit = m /\ installs' = installs + 1
           \/ Top.bit # m /\ UNCHANGED installs
    BY <1>3 DEF Installs
  <2> QED
    BY <2>1 DEF ServedInv, Context
<1>4. CASE LooperStarts
  <2>1. /\ UNCHANGED <<installs, server>> /\ reused' = known
        /\ at' = IF known THEN AfterNew ELSE "new"
    BY <1>4 DEF LooperStarts
  <2>2. server.drive \in {"floppy", "disk"}
    BY DEF Context, ActorsOK
  <2>3. at' \in {"new", "count"} \/ (reused' /\ server.drive = "floppy")
    BY <2>1, <2>2 DEF AfterNew
  <2> QED
    BY <2>1, <2>3 DEF ServedInv
<1>5. CASE StartsByHand \/ StopsByHand
  BY <1>5 DEF StartsByHand, StopsByHand, ServedInv
<1>6. CASE Leaves
  <2>1. UNCHANGED <<installs, started, reused, server>>
        /\ (at \in {"leave", "handled"} \/ (UNCHANGED at /\ ~Polls))
    BY <1>6 DEF Leaves, LeaveReaches, LeaveIgnored, LeaveLost, FindsCopy, Polls
  <2> QED
    BY <2>1 DEF ServedInv
<1>7. CASE ReaderStarts
  BY <1>7 DEF ReaderStarts, ServedInv
<1>8. CASE ReceivesInt
  <2>1. at = "off" /\ UNCHANGED <<installs, started, reused, server, at>>
    BY <1>8 DEF ReceivesInt, Context, ActorsOK
  <2> QED
    BY <2>1 DEF ServedInv
<1>9. CASE FindsIntAgain \/ ThroughGuestHook \/ Enters \/ ReachesBios
  <2>1. ~Polls /\ UNCHANGED <<installs, started, reused, server, at>>
    BY <1>9 DEF FindsIntAgain, ThroughGuestHook, Enters, EntersStart, ReachesBios, Polls, Context,
                PhasesOK
  <2> QED
    BY <2>1 DEF ServedInv
<1>10. CASE LoadsGuest \/ EntersRam \/ SetUpEnded \/ \E reaches \in BOOLEAN : SaysHello(reaches)
  <2>1. run # "start" /\ UNCHANGED <<installs, started, reused, server, at>>
    BY <1>10 DEF LoadsGuest, EntersRam, SetUpEnded, SetUpHalts, AsksForAddress, SaysHello
  <2> QED
    BY <2>1 DEF ServedInv, Polls
<1>11. CASE GuestHooks \/ GuestCalls19 \/ \E c \in {"mine", "other"} : GuestCalls(c)
  <2>1. run # "start" /\ UNCHANGED <<installs, started, reused, server, at>>
    BY <1>11 DEF GuestHooks, GuestCalls19, GuestCalls
  <2> QED
    BY <2>1 DEF ServedInv, Polls
<1>12. CASE SetsUp \/ CardInSetUp \/ Waits \/ SendsInt \/ UNCHANGED vars
  BY <1>12, ServedSame DEF SetsUp, CardInSetUp, Waits, Announces, FindsForeign, SendsInt, vars, polling
<1> QED
  BY <1>1, <1>2, <1>3, <1>4, <1>5, <1>6, <1>7, <1>8, <1>9, <1>10, <1>11, <1>12
     DEF Next, Machine, Server, SetUpEnded, Enters, Leaves, Waits

\* While the reader runs, start is in phase with it between two int commands; while one is
\* executed its bit has already gone on; and if start was entered meanwhile, moved says so.
AnswersInv ==
  reader # "off" =>
    \/ run = "start" /\ ~frame /\ Top.bit = rm
    \/ run = "start" /\ frame /\ reader = "int" /\ moved
    \/ run = "int13" /\ frame /\ reader = "int" /\ stack # << >> /\ Top.bit = ~rm
    \/ run = "crashed"

\* An int command, found once or again, keeps that.
LEMMA AnswersInt ==
  ASSUME Context, run = "start", IntCommand, reader = "off" \/ reader = "int"
  PROVE  AnswersInv'
<1>1. stack # << >> /\ rm \in BOOLEAN
  BY DEF Context, StackOK, PhasesOK
<1>2. CASE Top.bit = rm
  <2>1. stack' = After(rm) /\ run' = "int13" /\ frame' = TRUE /\ UNCHANGED <<reader, rm>>
    BY <1>2 DEF IntCommand
  <2>2. (Top.bit)' = ~rm'
    BY <1>1, <2>1, InPhase DEF Context
  <2>3. stack' # << >>
    BY <1>1, <2>1, AfterStack DEF Context, StackOK
  <2> QED
    BY <2>1, <2>2, <2>3 DEF AnswersInv
<1>3. CASE Top.bit # rm
  <2>1. UNCHANGED <<stack, run>> /\ frame' = FALSE
        /\ (reader = "int" => rm' = ~rm) /\ (reader = "off" => reader' = "off")
    BY <1>3 DEF IntCommand, Answers
  <2>2. Top.bit \in BOOLEAN
    <3>1. Top \in Activations
      BY <1>1 DEF Top, Context, StackOK
    <3> QED
      BY <3>1 DEF Activations
  <2>3. reader = "int" => (Top.bit)' = rm'
    BY <1>1, <1>3, <2>1, <2>2, Zenon DEF Top
  <2> QED
    BY <2>1, <2>3 DEF AnswersInv
<1> QED
  BY <1>2, <1>3

\* Every step keeps the invariant.
LEMMA AnswersStep == Context /\ AnswersInv /\ [Next]_vars => AnswersInv'
<1> SUFFICES ASSUME Context, AnswersInv, [Next]_vars PROVE AnswersInv'
  OBVIOUS
<1> USE DEF vectors, counts, machine, polling, serving, reading
<1>1. ASSUME NEW ctrl \in BOOLEAN, PowerOn(ctrl) PROVE AnswersInv'
  BY <1>1 DEF PowerOn, AnswersInv
<1>2. CASE Server \/ FindsCopy
  <2>1. reader = "off"
    BY <1>2 DEF Server, Constructs, CountsDisk, WakesUp, AsksParams, Serves, Command, Installs,
                LeaveReaches, LeaveIgnored, LeaveLost, FindsCopy, Context, ActorsOK
  <2>2. ASSUME NEW c, LeavesBy(c) PROVE UNCHANGED reader
    BY <2>1, <2>2 DEF LeavesBy, Returns, Answers
  <2>3. UNCHANGED reader
    BY <1>2, <2>2 DEF Server, Constructs, CountsDisk, WakesUp, AsksParams, Serves, Command, Installs,
                      LeaveReaches, LeaveIgnored, LeaveLost, FindsCopy
  <2> QED
    BY <2>1, <2>3 DEF AnswersInv
<1>3. CASE ReceivesInt
  BY <1>3, AnswersInt DEF ReceivesInt, Polls
<1>4. CASE FindsIntAgain
  <2>1. reader = "off" \/ reader = "int"
    BY <1>4 DEF FindsIntAgain, AnswersInv, Context, PhasesOK
  <2> QED
    BY <1>4, <2>1, AnswersInt DEF FindsIntAgain
<1>5. CASE Enters
  BY <1>5 DEF Enters, EntersStart, AnswersInv
<1>6. CASE ReachesBios
  <2>1. CASE reader = "off"
    BY <1>6, <2>1 DEF ReachesBios, Returns, Answers, AnswersInv
  <2>2. CASE reader # "off"
    <3>1. reader = "int" /\ stack # << >> /\ Top.bit = ~rm
      BY <1>6, <2>2 DEF ReachesBios, AnswersInv
    <3>2. run' = "start" /\ stack' = stack /\ frame' = FALSE /\ rm' = ~rm
      BY <1>6, <3>1 DEF ReachesBios, Returns, Answers, Context, StackOK
    <3> QED
      BY <3>1, <3>2 DEF AnswersInv, Top
  <2> QED
    BY <2>1, <2>2
<1>7. CASE ReaderStarts
  <2>1. Polls /\ stack' = After(FALSE) /\ rm' = TRUE /\ UNCHANGED <<run, frame>>
    BY <1>7 DEF ReaderStarts
  <2>2. (Top.bit)' = ~FALSE
    BY <2>1, InPhase DEF Context, StackOK, Polls
  <2> QED
    BY <2>1, <2>2 DEF AnswersInv, Polls
<1>8. CASE LooperStarts \/ StartsByHand \/ StopsByHand
  <2>1. reader' = "off"
    BY <1>8 DEF LooperStarts, StartsByHand, StopsByHand, Context, ActorsOK
  <2> QED
    BY <2>1 DEF AnswersInv
<1>9. CASE SendsInt
  BY <1>9 DEF SendsInt, AnswersInv, Top
<1>10. CASE ThroughGuestHook
  BY <1>10 DEF ThroughGuestHook, AnswersInv, Top
<1>11. CASE LoadsGuest \/ EntersRam \/ SetUpEnded \/ \E reaches \in BOOLEAN : SaysHello(reaches)
  <2>1. run \notin {"start", "int13", "crashed"} /\ UNCHANGED reader
    BY <1>11 DEF LoadsGuest, EntersRam, SetUpEnded, SetUpHalts, AsksForAddress, SaysHello
  <2> QED
    BY <2>1 DEF AnswersInv
<1>12. CASE GuestHooks \/ GuestCalls19 \/ \E c \in {"mine", "other"} : GuestCalls(c)
  <2>1. run = "guest" /\ UNCHANGED reader
    BY <1>12 DEF GuestHooks, GuestCalls19, GuestCalls
  <2> QED
    BY <2>1 DEF AnswersInv
<1>13. CASE SetsUp \/ CardInSetUp \/ Waits \/ UNCHANGED vars
  BY <1>13 DEF SetsUp, CardInSetUp, Waits, Announces, FindsForeign, vars, AnswersInv, Top
<1> QED
  BY <1>1, <1>2, <1>3, <1>4, <1>5, <1>6, <1>7, <1>8, <1>9, <1>10, <1>11, <1>12, <1>13
     DEF Next, Machine, SetUpEnded, Enters, Waits

\* The invariants of the phases, on top of those of the types.
PhaseInv == BootInv /\ PhasesOK /\ ActorsOK /\ ServedInv /\ AnswersInv

\* They hold before the machine is switched on.
LEMMA PhaseInvInit == Init => PhaseInv
<1> SUFFICES ASSUME Init PROVE PhaseInv
  OBVIOUS
<1>1. PhasesOK
  BY Zenon DEF Init, PhasesOK
<1>2. ActorsOK /\ ServedInv /\ AnswersInv
  BY DEF Init, ActorsOK, ServedInv, AnswersInv
<1> QED
  BY <1>1, <1>2, BootInvInit DEF PhaseInv

\* And after every step.
LEMMA PhaseInvStep == PhaseInv /\ [Next]_vars => PhaseInv'
<1> SUFFICES ASSUME PhaseInv, [Next]_vars PROVE PhaseInv'
  OBVIOUS
<1>1. Context
  BY DEF PhaseInv, BootInv, PathsOK, ChainInv, Context
<1> QED
  BY <1>1, BootInvStep, PhasesStep, ActorsStep, ServedStep, AnswersStep DEF PhaseInv

\* A server that was started in this boot waits for disk calls only after INT 13h was
\* hooked for it, however many resets, servers and stale phases went before; except the
\* looper's second floppy server (inmememu_looper.py:14-70, monitor.py:8-33).
THEOREM ServersAreHooked == Spec => []ServedWhenHooked
<1>1. PhaseInv => ServedWhenHooked
  <2> SUFFICES ASSUME ServedInv, installs \in Nat PROVE ServedWhenHooked
    BY DEF PhaseInv, BootInv, PathsOK, ChainInv
  <2> QED
    BY DEF ServedInv, ServedWhenHooked
<1> QED
  BY <1>1, PhaseInvInit, PhaseInvStep, PTL DEF Spec

\* An old result is given for a new int command only if isr1 has entered start since the
\* last answer, however deep (main.c:206-258).
THEOREM NoOldAnswers == Spec => AnswersAreNew
<1>1. PhaseInv /\ [Next]_vars => [reader = "int" /\ reader' = "next" /\ answer' = "stale" => moved]_vars
  <2> SUFFICES ASSUME PhaseInv, Next, reader = "int", reader' = "next", answer' = "stale" PROVE moved
    OBVIOUS
  <2>1. CASE ReceivesInt
    <3>1. Polls /\ Top.bit # rm
      BY <2>1 DEF ReceivesInt, IntCommand
    <3> QED
      BY <3>1 DEF PhaseInv, AnswersInv, Polls
  <2>2. CASE FindsIntAgain
    BY <2>2 DEF FindsIntAgain, PhaseInv, AnswersInv, PhasesOK
  <2>3. CASE ReachesBios
    BY <2>3 DEF ReachesBios, Returns, Answers
  <2>4. ASSUME ~ReceivesInt, ~FindsIntAgain, ~ReachesBios PROVE reader' \in {reader, "off"}
    <3> USE <2>4 DEF machine, serving, reading
    <3>1. CASE Machine \/ CardInSetUp \/ Waits \/ \E reaches \in BOOLEAN : SaysHello(reaches)
      <4>1. ~FindsCopy
        BY DEF FindsCopy, PhaseInv, ActorsOK
      <4> QED
        BY <3>1, <4>1 DEF Machine, LoadsGuest, EntersRam, SetsUp, SetUpHalts, AsksForAddress, SaysHello,
                          ThroughGuestHook, EntersStart, CardInSetUp, Waits, Announces, FindsForeign
    <3>2. CASE Server
      <4>1. at = "off"
        BY DEF PhaseInv, ActorsOK
      <4> QED
        BY <3>2, <4>1 DEF Server, Constructs, CountsDisk, WakesUp, AsksParams, Serves, Command, Installs,
                          LeaveReaches, LeaveIgnored, LeaveLost
    <3>3. CASE LooperStarts \/ StartsByHand \/ StopsByHand \/ ReaderStarts \/ SendsInt
      BY <3>3 DEF LooperStarts, StartsByHand, StopsByHand, ReaderStarts, SendsInt
    <3>4. CASE GuestHooks \/ GuestCalls19 \/ \E c \in {"mine", "other"} : GuestCalls(c)
      BY <3>4 DEF GuestHooks, GuestCalls19, GuestCalls
    <3>5. CASE \E ctrl \in BOOLEAN : PowerOn(ctrl)
      BY <3>5 DEF PowerOn
    <3> QED
      BY <3>1, <3>2, <3>3, <3>4, <3>5 DEF Next, Waits
  <2> QED
    BY <2>1, <2>2, <2>3, <2>4
<1> QED
  BY <1>1, PhaseInvInit, PhaseInvStep, PTL DEF Spec, AnswersAreNew
===============================================================================

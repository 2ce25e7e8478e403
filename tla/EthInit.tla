-------------------------------- MODULE EthInit --------------------------------
(***************************************************************************)
(* Finding the card and setting it up: eth_detect, eth_initialize and      *)
(* writemem of eth.c.                                                      *)
(*                                                                         *)
(* The ports are probed in order; the first device that answers like a     *)
(* DP8390 is taken.  The packet memory is found by writing a pattern where *)
(* an NE1000 has it and reading it back, then where an NE2000 has it;      *)
(* writemem waits for the card only so long, and says nothing when it      *)
(* gives up.  Every failure halts the machine.  The card may still be      *)
(* running with the registers of an earlier run, and it receives whenever  *)
(* it is started and not in monitor mode, also between two steps.          *)
(***************************************************************************)
EXTENDS Naturals

CONSTANTS
  Ports,         \* addresses probed, 1 to Ports: 0x200 to 0x3E0 in steps of 0x20
  MaxWait,       \* polls of RDC in writemem
  TxPages,       \* ED_TXBUF_SIZE
  BufPages       \* pages of packet memory that are used

ASSUME SetUpAssumption ==
  /\ Ports \in Nat /\ MaxWait \in Nat \ {0}
  /\ TxPages \in Nat /\ BufPages \in Nat /\ TxPages + 1 < BufPages

NE1000 == 32     \* 8192 >> ED_PAGE_SHIFT
NE2000 == 64     \* 16384 >> ED_PAGE_SHIFT

VARIABLES
  (* the machine *)
  dev,           \* what answers at each port; "alike" passes the probe and is no card
  ram,           \* first page of the card's packet memory, 0 if it does not work
  (* the card *)
  sta,           \* started (CR_STA), not stopped (CR_STP)
  mon,           \* RCR is ED_RCR_MON, not ED_RCR_AB
  pstart, pstop, bnry, curr,
  prx, rdc,      \* ISR bits
  stored,        \* the pattern is in the packet memory, at the page tested
  (* the driver *)
  step,          \* the part of eth_detect or eth_initialize that runs next
  io_base,       \* the port being probed, then the one taken
  waits,         \* polls of RDC so far
  buff_start,    \* the page tested, then the first of the buffer
  gaveUp         \* history: writemem has returned before the card was done

hardware == <<dev, ram>>
regs == <<pstart, pstop, bnry, curr>>
local == <<io_base, waits, buff_start, gaveUp>>
setup == <<hardware, sta, mon, regs, prx, rdc, stored, step, local>>

IsCard == dev[io_base] = "card"

\* The layout of the buffer: transmit pages, then the receive ring.
rx_page_start == buff_start + TxPages
rx_page_stop == buff_start + BufPages

-------------------------------------------------------------------------------
\* The registers are what an earlier run left, for the memory the card has, with frames
\* anywhere in the ring.
AnyCard ==
  /\ sta \in BOOLEAN /\ mon \in BOOLEAN /\ prx \in BOOLEAN
  /\ rdc = FALSE /\ stored = FALSE
  /\ pstart = ram + TxPages /\ pstop = ram + BufPages
  /\ bnry \in pstart .. pstop - 1 /\ curr \in pstart .. pstop - 1

SetUpInit ==
  /\ dev \in [1 .. Ports -> {"empty", "other", "alike", "card"}]
  /\ ram \in {0, NE1000, NE2000}
  /\ AnyCard
  /\ step = "detect" /\ io_base = 1 /\ waits = 0 /\ buff_start = NE1000
  /\ gaveUp = FALSE

\* Nothing there, or a device that does not clear CNTR0: its register is restored.
DetectNext ==
  /\ step = "detect" /\ io_base <= Ports
  /\ dev[io_base] \in {"empty", "other"}
  /\ io_base' = io_base + 1
  /\ UNCHANGED <<hardware, sta, mon, regs, prx, rdc, stored, step, waits, buff_start,
                gaveUp>>

DetectFails ==
  /\ step = "detect" /\ io_base > Ports
  /\ step' = "halted"
  /\ UNCHANGED <<hardware, sta, mon, regs, prx, rdc, stored, local>>

\* The probe stops the card it finds; then the hardware reset, which keeps RCR and
\* the ring registers.
DetectTakes ==
  /\ step = "detect" /\ io_base <= Ports
  /\ dev[io_base] \in {"alike", "card"}
  /\ sta' = (sta /\ ~IsCard)
  /\ step' = "check"
  /\ UNCHANGED <<hardware, mon, regs, prx, rdc, stored, local>>

\* Card error 1 to 3: CR reads back stopped and ISR says so.  What is no card may
\* read like anything.
Check ==
  /\ step = "check"
  /\ step' \in IF IsCard THEN {"start"} ELSE {"start", "halted"}
  /\ UNCHANGED <<hardware, sta, mon, regs, prx, rdc, stored, local>>

\* Started, in the receive mode the last run left ...
StartCard ==
  /\ step = "start"
  /\ sta' = IsCard /\ step' = "monitor"
  /\ UNCHANGED <<hardware, mon, regs, prx, rdc, stored, local>>

\* ... and only then told not to receive.
Monitor ==
  /\ step = "monitor"
  /\ mon' = TRUE
  /\ pstart' = NE1000 /\ pstop' = NE2000
  /\ step' = "write"
  /\ UNCHANGED <<hardware, sta, bnry, curr, prx, rdc, stored, local>>

\* writemem(test_pattern).
WriteMem ==
  /\ step = "write"
  /\ rdc' = FALSE /\ stored' = FALSE /\ waits' = 0
  /\ step' = "rdc"
  /\ UNCHANGED <<hardware, sta, mon, regs, prx, io_base, buff_start, gaveUp>>

\* Mutant: the wait has no limit.
WaitsOnForEver == ~rdc

\* (ISR & RDC) != RDC && --maxwait.
WaitsOn == ~rdc /\ waits + 1 < MaxWait

WriteMemWaits ==
  /\ step = "rdc" /\ WaitsOn
  /\ waits' = IF waits < MaxWait THEN waits + 1 ELSE waits
  /\ UNCHANGED <<hardware, sta, mon, regs, prx, rdc, stored, step, io_base, buff_start,
                gaveUp>>

\* readmem, and what the comparison leads to.  It aborts a write under way.
ReadBackFound ==
  /\ step = "rdc" /\ ~WaitsOn /\ stored
  /\ step' = "found"
  /\ UNCHANGED <<hardware, sta, mon, regs, prx, rdc, stored, local>>

\* Mutant: only one place is tried.
TriesNext(p) == p

\* Where the memory is looked for when it is not at p.
NextPlace(p) == IF p = NE1000 THEN NE2000 ELSE p

ReadBackFails ==
  /\ step = "rdc" /\ ~WaitsOn /\ ~stored
  /\ buff_start' = NextPlace(buff_start)
  /\ gaveUp' = (gaveUp \/ ~rdc)
  /\ IF buff_start' = buff_start
       THEN step' = "halted" /\ UNCHANGED <<pstart, pstop>>
       ELSE step' = "write" /\ pstart' = NE2000 /\ pstop' = 96
  /\ UNCHANGED <<hardware, sta, mon, bnry, curr, prx, rdc, stored, io_base, waits>>

\* CR_STP before the final settings.
Stopped == FALSE

\* ISR is cleared, the hardware address read, and the card stopped.
StopCard ==
  /\ step = "found"
  /\ prx' = FALSE /\ sta' = Stopped
  /\ step' = "layout"
  /\ UNCHANGED <<hardware, mon, regs, rdc, stored, local>>

\* Mutant: BNRY at the first page of the ring.
BnryAtStart == rx_page_start

BnryInit == rx_page_stop - 1

Layout ==
  /\ step = "layout"
  /\ bnry' = BnryInit /\ pstart' = rx_page_start /\ pstop' = rx_page_stop
  /\ prx' = FALSE
  /\ step' = "curr"
  /\ UNCHANGED <<hardware, sta, mon, curr, rdc, stored, local>>

SetCurr ==
  /\ step = "curr"
  /\ curr' = rx_page_start
  /\ step' = "accept"
  /\ UNCHANGED <<hardware, sta, mon, pstart, pstop, bnry, prx, rdc, stored, local>>

AcceptFrames ==
  /\ step = "accept"
  /\ mon' = FALSE
  /\ step' = "go"
  /\ UNCHANGED <<hardware, sta, regs, prx, rdc, stored, local>>

Go ==
  /\ step = "go"
  /\ sta' = TRUE
  /\ step' = "done"
  /\ UNCHANGED <<hardware, mon, regs, prx, rdc, stored, local>>

Driver ==
  \/ DetectNext \/ DetectFails \/ DetectTakes \/ Check \/ StartCard \/ Monitor
  \/ WriteMem \/ WriteMemWaits \/ ReadBackFound \/ ReadBackFails
  \/ StopCard \/ Layout \/ SetCurr \/ AcceptFrames \/ Go

-------------------------------------------------------------------------------
(* The card *)

\* The bytes written are in the memory, if there is any at that page.
CardStores ==
  /\ step = "rdc" /\ IsCard /\ ~rdc
  /\ rdc' = TRUE /\ stored' = (ram = buff_start)
  /\ UNCHANGED <<hardware, sta, mon, regs, prx, step, local>>

\* A frame comes in.
CardReceives ==
  /\ sta /\ ~mon /\ step \notin {"done", "halted"}
  /\ prx' = TRUE
  /\ curr' = IF curr + 1 >= pstop THEN pstart ELSE curr + 1
  /\ UNCHANGED <<hardware, sta, mon, pstart, pstop, bnry, rdc, stored, step, local>>

\* The machine starts again at any point, also when the ring has been in use.
Restart ==
  /\ step' = "detect" /\ io_base' = 1 /\ waits' = 0 /\ buff_start' = NE1000
  /\ gaveUp' = FALSE /\ rdc' = FALSE /\ stored' = FALSE
  /\ prx' \in {prx, TRUE}
  /\ IF step = "done" THEN bnry' \in pstart .. pstop - 1 /\ curr' \in pstart .. pstop - 1
                      ELSE UNCHANGED <<bnry, curr>>
  /\ UNCHANGED <<hardware, sta, mon, pstart, pstop>>

SetUpNext == Driver \/ CardStores \/ CardReceives \/ Restart

SetUpSpec == SetUpInit /\ [][SetUpNext]_setup

-------------------------------------------------------------------------------
(* Properties *)

Pages == 0 .. NE2000 + BufPages + 96

SetUpTypeOK ==
  /\ dev \in [1 .. Ports -> {"empty", "other", "alike", "card"}]
  /\ ram \in {0, NE1000, NE2000}
  /\ sta \in BOOLEAN /\ mon \in BOOLEAN /\ prx \in BOOLEAN /\ rdc \in BOOLEAN
  /\ stored \in BOOLEAN
  /\ pstart \in Pages /\ pstop \in Pages /\ bnry \in Pages /\ curr \in Pages
  /\ step \in {"detect", "check", "start", "monitor", "write", "rdc", "found",
               "layout", "curr", "accept", "go", "done", "halted"}
  /\ io_base \in 1 .. Ports + 1 /\ gaveUp \in BOOLEAN /\ waits \in Nat /\ waits < MaxWait
  /\ buff_start \in {NE1000, NE2000}

\* When eth_initialize returns, the ring is empty, its registers are those RxRing
\* starts from and nothing was received into it, whatever ran before and whatever
\* arrived meanwhile; and the buffer lies in memory the card has.
Ready ==
  step = "done" =>
    /\ sta /\ ~mon /\ ~prx
    /\ pstart = rx_page_start /\ pstop = rx_page_stop
    /\ bnry = pstop - 1 /\ curr = pstart
    /\ IsCard /\ buff_start = ram

\* The machine halts only if no device answers like a card, the first that does is
\* none, its memory does not work, or writemem gave up waiting for it: a card that was
\* too slow once is taken for one without memory.
HaltsForAReason ==
  step = "halted" =>
    io_base > Ports \/ ~IsCard \/ ram = 0 \/ gaveUp
===============================================================================

# A verification project for ne2000xt

ne2000xt is an option ROM for an 8088 PC with an NE1000/NE2000 network card. It
drives the DP8390 by polling, obtains an address with DHCP, says hello, and then
serves a monitor protocol over UDP port 5555 (`main.c`), with which the Python
scripts in `scripts/` read and write memory and ports, call BIOS interrupts, or
emulate a disk behind INT 13h. This directory holds TLA+ models of it, the TLC
configurations that check them, and TLAPS proofs.

## The system

| Part | State | Operations | Works with |
|---|---|---|---|
| Receive path (`eth.c:417-586`, `insw.S`) | `next_pkt`, `rx_pkt_off`, `rx_buff_len`, `rx_buff2_len`, `rx_off`; card registers BNRY, CURR, ISR and the ring memory | `start_recv`, `read_prepare`, `process_eth`, `decode_ip_udp`, `paste_restpacket(_flipped)`, `recv_end` | shares ring and registers with the card, called by `start` and `dhcp_poll` |
| Command loop (`main.c:72-387`) | `ping_pong`, `still_resend`, `resend_delay`, static `conn` and answer caches | one iteration: announce, receive, execute, answer | the scripts (UDP), the guest (`start` returns to it and is entered again by INT 13h) |
| `scripts/monitor.py` | `ping_pong`, socket, `idx` | `msg` (send, repeat every 5 ms), `msgout` (three copies, no answer), `wait_for_isr` | the command loop |
| Transmit path (`eth.c:238-326`, `706-761`) | `first_tx`, ISR bits PTX and RDC, one transmit buffer | `start_send_udp`, `fin_send_udp`, ARP reply | card |
| DHCP client (`eth.c:328-415`, `588-661`, `main.c:45-54`) | `offered`, `assigned_ip`, `local_ip` | discover, request, poll, retry | receive and transmit path, timer |
| Boot vectors (`init.S`) | `irq_captured`, vectors 19h, 32h and 13h, copy of the ROM in RAM | `init`, `isr1`, `install13h`, `move_to_ram` | BIOS, `start` |
| Timer (`delay.S`, `delay_c.c`) | `ctr` (16 bit, advanced by INT 1Ch) | `get_ctr`, `delay_spin`, the announcement timer of `start` | all waits |
| Card detection and set-up (`eth.c:21-234`) | `io_base`, buffer layout, the card's registers | `eth_detect`, `eth_initialize`, `writemem`, `readmem` | leaves the ring registers the receive path starts from |
| Checksum (`eth.c:265-300`) | `chksum` | the IPv4 header of `start_send_udp` | the host that gets the packet |
| INT 13h emulation (`int13handler.py`, `inmememu.py`, `imageemu.py`, `chssize.py`) | image, its geometry | `process` and its commands | guest, `monitor.py` |
| Looper (`inmememu_looper.py`) | a monitor object and a process per machine | restart on Hello | boot, `monitor.py` |
| Disk readers (`hdddump.py`, `nbd.py`) | geometry of the machine's disk | int commands | `start`, the hooked INT 13h |
| Other scripts, `print.c`, build files | none of the system's own | | |

What is hard in it:

* the card stores frames while the driver reads them; both wrap around the same
  ring, and the driver's three ways to compute "next page" have to agree;
* a frame may straddle the end of the ring at any byte, and `rx_off` is kept by
  hand in every handler;
* commands are repeated, lost and answered late, and must still run once;
* the target clears its phase bits whenever the guest calls INT 13h or the
  machine restarts, and scripts die and are started again with phase 0;
* a leave command has no answer, its three copies survive into the next `start`;
* `start` is entered again by every disk call, by a reset, and by an int command
  that runs into the very hook that enters it;
* the looper keeps its monitor object over a reset, and scripts run by hand
  install the hook again without knowing that it is there;
* the disk server computes the geometry from the present size of the image, at
  every call, and checks no address.

PROJECT.json lists each hazard at its line, with the properties that cover it.

## Modules

    FrameQueue      what receiving and sending promise: accepted frames, once, in order
    RxRing          the card and the driver over the shared ring
    MCRxRing        its constants for TLC
    RxRingProofs    theorems about RxRing, checked by TLAPS
    Rpc             what the session protocol promises: calls that run once
    Session         monitor.py and the command loop of main.c
    MCSession       its constants for TLC
    SessionProofs   theorems about Session
    Transmit        start_send_udp, fin_send_udp, the ARP reply, and the card's side
    MCTransmit      its constants for TLC
    TransmitProofs  theorems about Transmit; its refinement is to FrameQueue
    Dhcp            how the program obtains its address, with any number of servers
    MCDhcp          its symmetry for TLC, and one first offer where that is of no use
    DhcpProofs      theorems about Dhcp
    Timer           the tick counter, delay_spin and the announcement timer
    MCTimer         its constants for TLC
    TimerProofs     theorems about Timer
    Checksum        the IPv4 header checksum of start_send_udp
    MCChecksum      its constants for TLC
    ChecksumProofs  when it is right
    EthInit         finding the card and setting it up
    Boot            vectors, entries of start, server, looper and reader; extends EthInit
    MCBoot          Boot for TLC
    BootProofs      theorems about EthInit and Boot
    Disk            what an emulated drive promises the guest
    Int13           the drive of int13handler.py and what the guest was told of it
    MCInt13         its constants for TLC
    Int13Proofs     theorems about Int13

### RxRing

State: the card's registers (`bnry`, `curr`, `prx`, `rst`, the DMA address and
count), ring memory as "page -> which page of which frame", the headers, and the
driver's variables under their names in `eth.c`. `pc` is the call of the receive
path that runs next. Each call is one action (`start_recv` is two: it reads
BNRY and CURR, then the header; `paste_restpacket` is two when the payload
wraps), and the card stores one page per action, so it moves between any two of
them. Handlers are chosen nondeterministically: any number of command bytes from
`Commands`, any padding from `Paddings`, either copy routine, or none at all.
`RecvEndAgain` is the second `recv_end` of the nop command, which falls through
into `default`.

A byte read is right when the page it comes from holds the part of the frame the
handler is waiting for; `intact` remembers whether all of them were. The address
arithmetic (`rx_off`, `frag`, `rx_buff2_len`) is that of the code.

The DP8390 is modelled from `dp8390reg.h` and from how the driver uses it: it
never writes into the page BNRY points at, on overrun it drops the frame and
sets RST, and it receives again when a packet has been removed, that is, when
BNRY is written. Frames that overflow the card's FIFO, and error frames, never
reach the ring (RCR asks for broadcast and good frames only).

### Session

A session is a monitor object. `at` says where its script is: inside `msg` for a
nop ("sync", or "presync" when the nop is the one `msgout` needs before a
leave), inside `msg` for a command ("call"), about to leave, or in
`wait_for_isr`. Every command is one of the kinds

* "write": `outb`, `putmem`, `putmem_flipped`, `install13h`, `set_called_params`;
  executed when the phase is new;
* "cached": `inb` and `int`, executed when the phase is new, answered from a
  static variable;
* "read": `ping`, `getmem`, `get_called_params`, always executed;
* "leave": `continue_boot`, `isr_handled`, not answered.

One iteration of the loop is two actions, `LoopTop` (the announcement) and then
`LoopNoPacket`, `LoopForeign` or `LoopCommand`, so that a frame may arrive
between them. `LoopForeign` sets `conn` to nobody: `process_eth` overwrites the
address the announcement is sent to. `GuestInt13` is everything between `start`
returning and `start(1)` having run its first lines; commands sent in between
stay in the ring. `Start` is a new monitor object for the same `idx`.

`Rpc` is what a script may rely on: the only way out of a call is `Return`, and that
needs the command to have been executed. `starts` counts the scripts of a session, so
that one that dies in a call and is replaced (`Start`) is told apart from one whose
call returns.

The network is a FIFO in each direction that may lose any datagram. It does not
duplicate: the duplicates the protocol has to cope with are the repetitions
`msg` sends itself. `Lost` also stands for an announcement that is not sent
because the 16-bit tick counter has wrapped below `resend_delay`.

### Transmit

`pc` follows a send: waiting for PTX, header, body, waiting for RDC. A packet is
the number of bytes its caller announces to `start_send_udp` and the number it
writes, counted from the source of each caller; frames have a number, a length
and whether they are whole. The card stores bytes from the port whenever it
likes, up to the announced count, and transmits whenever it has been told to;
storing under a transmission spoils the frame. `RemoteRead` is the receive path
using the remote DMA between two sends, which leaves RDC set. `CardFails` is a
transmission given up after excessive collisions (TXE).

### Dhcp

One round is `Discover` and `Polls` polls; a poll takes one packet or none. What
is on the way to the program and what lies in its ring are one set, since
neither order nor age can be told apart by `dhcp_poll`. Every packet may get
lost when it is sent and otherwise stay on the way as long as it likes, past
the round and past a restart. A packet is its message type, its server and the
address in it: `dhcp_poll` looks at nothing else that the program's own server
and another client's could differ in. The servers are external: they offer the
address they hold for the program, commit it when the REQUEST names it, refuse
the REQUEST otherwise, and may change an offer that was not accepted.

### Timer

`pc` follows either `delay_spin` (compare, halt, read `ctr`) or the loop of
`start` (look whether an announcement is due, send it, receive). `Int16` and
`Uint16` are the two readings of the same counter: `delay_spin` compares signed
numbers, the loop unsigned ones. A tick is far longer than the instructions
between two halts, so at most one falls into those (`ticked`), at any place.
`Half` is 0x8000 in the code. `NextDue` is what `resend_delay` really becomes:
`main.c:78` adds five seconds, and the counter is stored over the sum in
`main.c:83`.

### Checksum

The ten words of the header, the sum, the fold and what goes into the header. A
receiver adds the words with end-around carry and drops the packet silently
unless the result is 0xffff (`Accepted`).

### EthInit

One action per step of `eth_detect` and `eth_initialize` between which a frame,
the card or a reset can come: the probe of each port, the start of the card
before it is put into monitor mode, the pattern written by `writemem` and read
back, and each group of register writes at the end. A device at a port is nothing,
something else, a card, or something that passes the probe and is no card.
Where the packet memory lies, whether it works, and the registers left by an earlier
run are chosen freely, BNRY and CURR at any pages of the ring. `writemem` gives up
after `MaxWait` polls and says nothing.

### Boot

The machine is in one of `run`'s phases; the vectors hold who they lead to:
"bios", "rom" (`init`), "ram" (`isr1`) or "os", a hook the guest may install
itself. `stack` holds the activations of `start` with the phase bit each began
anew and the vector `irq_entry` read before it (`next`). `SetsUp` and
`CardInSetUp` are the steps of `EthInit`. Then `start` asks for an address ("dhcp"):
`SaysHello` is the step after that, and nothing says that it comes, since that is
`Dhcp`.

The server is `inmememu.py`/`imageemu.py` by hand, or the looper's process;
`at` is its next command, `m` its phase. A command and its answer are one
step, since that commands get through is `Session`; what is kept is the phase bit,
because commands that meet an activation with the wrong bit are only
acknowledged. What nobody acknowledges may be lost. Of the three copies of a leave
one may arrive, and more behind it (`LeaveReaches`; those are `surplus`, which
`FindsCopy` takes for a repetition or, in an activation further down, for new), or none
(`LeaveLost`), or all meet the wrong bit (`LeaveIgnored`); the server, which then waits
for an announcement, cannot tell. `irq_entry` goes on to the captured vector or back to
the caller (`LeavesBy`): from `start(0)` an `isr_handled` goes back to the caller of
INT 19h, and the machine is "unbooted". The announcement of `start(1)` may be lost
(`EntersStart`); it is repeated (`Announces`) as long as `still` is set, that is until
a command, a copy or another host's frame is found (`FindsForeign`), from which on it
is not sent or not sent here. `cutoff` records that the server waits for what cannot
come any more. `LooperStarts` uses the old monitor object, with its phase,
for a machine it knows. The reader (`hdddump.py`, `nbd.py`) sends int commands:
`ReceivesInt` runs INT 13h with the frame still in the ring, and `FindsIntAgain`
is the activation of `start` that finds that frame. A server that is stopped by
hand may be stopped anywhere, a machine may be reset anywhere.

### Int13 and Disk

An image is its size and what was written to it; sector numbers are turned into
CHS addresses, put into registers, taken out again and turned back into sector
numbers by the code's formulas (`LbaChs`, `Cx`, `ParamsToChs`, `Tolba`). The
guest asks for the geometry before it accesses the drive, and may ignore it
(`careless`). A read past the end is cut short; a write past it makes a file
longer, with a hole, and appends to a bytearray wherever it was meant to go.
`Breaks` is the exception of `putmem` and `getmem` for a buffer that leaves its
segment. `Restart` is a reset and a server that reads the image file again.
`Disk` is the drive the guest expects: one place per sector, whole reads, contents
that survive a restart when they are in the file.

## Runs

| Run | Question | Bounds |
|---|---|---|
| `ring` | Ring invariant, right bytes, complete copies, every frame handled once and in order, overrun recovered, a refused frame | 8 pages of 256 bytes, frames of 1, 3 and 6 pages: the largest leaves the ring two pages short, so every start page, every wrap position by page and both overrun cases occur; one size above the limit |
| `ring_flipped` | Is an even length enough for `putmem_flipped`? No: see below | 1024-byte payload that wraps |
| `session_pair` | One execution per command and its own answer until `ping_pong` is cleared, two sessions; what clearing costs | 2 commands each, 3 frames in the ring, 2 answers on the way: enough for an answer to a repetition to be late by two calls; one INT 13h and one reboot |
| `session_returns` | `msg` returns | 2 commands each, one leave and one INT 13h |
| `session_guest` | INT 13h twice, relaunched script, foreign frames | 4 commands, 4 frames: all three leave copies and one more |
| `transmit` | One buffer, one owner; packets once, whole and in order; no wait for ever but after TXE | 3 packets out of all the program sends: first, second, and one after a wait; shortest and longest ping and getmem; the card up to a byte behind; transmissions may fail |
| `dhcp` | Whose address is used | 2 servers, 2 addresses, 2 polls per round, one changed offer, one foreign answer, one restart |
| `dhcp_obtains` | Does the retry succeed although an offer changes | 2 servers that compete, 2 polls per round, one changed offer, so that a REQUEST for the old one is refused; no restart and no other client's answers, with which TLC would not end in minutes |
| `timer` | How long `delay_spin` waits; when the announcement falls silent and that it comes back | a counter of 7 bits, so that it wraps within the run; delays of 1 to 5 ticks started at every value of it |
| `checksum` | Does the receiver accept every header? No: see below | 6 hosts in two subnets, 24 lengths |
| `boot` | Set-up, hooks, entries, looper and reader together: what is ready, hooked and served, that the set-up ends, and that the guest is booted and its calls return when whatever nobody acknowledges may be lost | 1 port and 2 polls of RDC, with which the set-up fails in every way; 2 boots, 2 guest calls each, 2 starts by hand, 2 int commands; 3 activations, so that `start` is entered twice over the first; every card under the looper with a disk, and every server with one card that works, since what follows the set-up does not depend on the card |
| `int13` | Is the emulated drive a drive; who leaves the image, and what that does | a known and an unknown floppy, a known disk and one of more than 1024 cylinders; sectors at the ends of a track and of the images, 1 or 3 at a time; a buffer at the end of its segment; 2 writes |

The bounds cut only how much happens, never what: `MaxFrames`, `RingCap`,
`SockCap`, `MaxOps`, `MaxStarts`, `MaxEntries`, `MaxReboots`, `MaxPackets`,
`MaxChanges`, `MaxForeign`, `MaxBoots`, `MaxCalls`, `MaxByHand`, `MaxInts` and
`MaxWrites` appear in guards of environment actions. `MaxDepth` is the room on
the stack, and `start` entered beyond it is a crash. `Dhcp` leaves out what the
servers do once the program has its address and will not be restarted
(`Watched`). Phases have two values, so two commands beyond the current one
bring every phase confusion about. The runs with `CHECK_DEADLOCK FALSE` are
those in which the system may stop: the guest need not call INT 13h again, and a
script that waits then waits; in `Boot` the machine may also halt; in `Transmit` no
caller has to send again; and in `Dhcp` the program leaves this part of `start`
for good.

The type invariants of `RxRing`, `Session`, `Transmit`, `Dhcp` and `Timer` are
proved and not run again, nor are `WholeFrames`, `GrantedToSomebody` and `BootsOnce`.

Every property has a mutant, an operator marked "Mutant" beside the definition
it replaces, which makes TLC report that property violated.

### What the runs show

* Between BNRY and CURR there are exactly the accepted frames, whole and in
  order, at every step (`RingInv`); handlers read the right bytes on both sides
  of the wrap (`BytesIntact`), and `paste_restpacket` fills the buffer
  (`PasteComplete`). The second `recv_end` of the nop is harmless.
* After an overrun the card receives again (`OverrunRecovers`).
* `RejectedFrameBlocksRing`: a frame whose length `start_recv` refuses is never
  released. The driver sees it again at each poll and nothing behind it is
  handled. The test's other half, `status & ED_RSR_PRX == 0`, is always false.
* Finding `FlippedComplete`: `monitor.py:90` asks for an even length only. When
  a `putmem_flipped` frame straddles the end of the ring, `paste_restpacket_flipped`
  splits it after an odd number of bytes, `inswf` refuses odd counts, nothing is
  copied, and the command is acknowledged.
* With any number of sessions that never leave, and with a single session that
  leaves, is relaunched and serves INT 13h, commands run once, no call returns before its
  command ran, and each returns its own value (`ImplementsRpc`, `ReplyIsMine`); no
  stale datagram ends `wait_for_isr` (`NoSpuriousWakeup`).
* `NoSilentHang` is as strong as the code allows: a surplus leave copy clears
  `still_resend` at its first poll, so the announcement is in practice sent
  once; if it is lost, or `conn` was overwritten by another host's frame, the
  script waits for ever. The property says there is no other way.
* `ResetDamage`: a session that did not leave while the guest called INT 13h
  (cga.py's second one), or whose target rebooted, can have a command answered
  that was never executed, or executed twice, once per reset and no more.
  With two sessions everything else holds until the first such reset
  (`ImplementsRpcUntilReset`).
* The transmit buffer is never written while the card sends it (`BufferOwned`);
  every caller writes as many bytes as it announces, so RDC always arrives
  (`SendCompletes`), and only when the packet is complete (`SendsInOrder`: packets
  leave once, whole, in order), though the receive path leaves RDC set.
* `TxErrorBlocks`: after a transmission that ends in TXE the next
  `start_send_udp` waits for a PTX that never comes; the program stops there.
* The address in use was committed to the program (`Granted`), unless another
  client's ACK was broadcast; then it may be that client's
  (`GrantedToSomebody`). The retry ends with an address (`ObtainsAddress`), also when a
  server changes its offer and refuses the REQUEST for the old one.
* `delay_spin` waits as long as asked unless the deadline leaves the positive
  half of the signed range (`WaitsEnough`); then it returns after one interrupt.
  It returns within a tick of the time asked for (`ReturnsInTime`) and always
  (`DelayReturns`), but for the one deadline 0x7fff, which no later value exceeds.
* While it waits for its first command, `start` announces itself in every round
  of its loop, not every five seconds (`main.c:83` overwrites what `main.c:78`
  adds). It is silent only after the counter has wrapped
  (`SilentOnlyAfterWrap`), and not for ever (`AnnouncesAgain`).
* Finding `HeaderAccepted`: `eth.c:297` adds before it masks. When the first fold
  leaves a carry, 0xffff is sent as checksum, the receiver drops the packet, and
  each repetition of the same answer has the same header.
* When `eth_initialize` returns, the ring is as `RxRing` starts, whatever ran
  before and whatever arrives (`Ready`); it halts only for want of a working card
  or because `writemem` gave up too early (`HaltsForAReason`), and `eth_detect` and
  `eth_initialize` always end (`SetUpEnds`).
* INT 13h leads to the BIOS in the end if and only if it was hooked at most once in
  this boot (`ChainEndsAtBios`). A server started again by hand makes a circle:
  `install13h` saves `isr1` as the vector to go on to.
* A waiting server has hooked INT 13h, unless it is the looper's second floppy
  server for the same machine (`ServedWhenHooked`): its monitor object keeps the
  phase over the reset, and its first command, the install, is taken for a
  repetition. With a disk the commands for 0:0475 come first, and it is the first
  of them that is taken for one.
* Disk calls return unless the chain is a circle, the server was stopped, an int
  command has run into `isr1`, or the server and `start` wait for each other for ever
  (`Int13Returns`): all copies of a leave were lost, or the announcement was lost and
  `start` silenced before it could repeat it. An int command in `isr1` is a nested
  `start`, which finds the same frame in the ring; a reader then may be given old
  registers for a new call, and only then (`AnswersAreNew`).
* The guest is booted (`BootGoesOn`) unless the Hello, which is sent once, is lost, or
  the same two wait for each other; or a process of the looper from before the reset
  sends the `isr_handled` of an earlier disk call to `start(0)`, which returns from
  INT 19h to whoever called it.
* Until somebody accesses a sector past the end of the image, the guest has a drive
  (`ImplementsDisk`), and what it was told stays true (`GeometryKept`). A guest
  that keeps to what it was told leaves only an image of no known size with less
  than one cylinder, of which it is told that it has 1024 (`StaysInside`). After a
  write past the end the geometry is another one and every CHS address means
  another sector.
* Every call is answered unless its buffer leaves its segment (`CallsReturn`);
  then the server ends and the guest waits.

### Fairness

`start` polls in a loop it leaves only through a leave command, so the driver
and the target's loop are weakly fair. Scripts block in `recv`, so they take
what is there (weak fairness). Repetition makes `msg`'s datagrams and their
answers get through in the end: strong fairness of a delivered send and of a
delivered answer, per session. A send that began goes on, and the card stores
and transmits (weak fairness); a transmission that fails is an outcome
the properties name. DHCP:
`start` polls for ever, and DISCOVER, OFFER, REQUEST and ACK, which the retry
repeats without limit, each get through in the end, to or from some server
(strong fairness); servers that offer also answer the REQUEST. Timer: the
interrupt comes, and the processor goes on in `delay_spin` and in the loop. Boot:
the processor goes on (in polling loops and interrupt handlers it has nothing else
to do), a running server goes on with its next command, the looper takes a
Hello that has reached it, and an announcement that is repeated for ever gets through.
Int13: the server processes a call it has. Nothing is assumed of the guest, the user,
the copies of a leave, the announcement of `start(1)`, a script's choice of commands,
or, in `Boot`, of `start` obtaining an address.

## Proofs

`RxRingProofs` proves, for every page count, frame size and number of frames:

* `TypeCorrect`: `Spec => []TypeOK`;
* `RingCorrect`: `Spec => []RingInv`;
* `Refinement`: `Spec => DeliversInOrder`, the receive path implements
  `FrameQueue`;
* `BytesRight` and `PasteRight`: `Spec => []BytesIntact` and
  `Spec => []PasteComplete`, the handlers read the frame's own bytes on both
  sides of the wrap, and `paste_restpacket` fills the buffer;
* `RefusedBlocksRing`: `Spec => RejectedFrameBlocksRing`.

They assume what `RingAssumption`, `CountAssumption`, `SizeAssumption` and
`WindowAssumption` say: the ring is not empty, no frame fills it completely (in
the code it has 26 pages and the largest frame takes 6), the shortest frame holds
the headers and the CRC, and the headers with the longest command lie within the
first page.

The argument: `RingInv` together with the types is inductive. Distances are
measured forwards from the page behind BNRY (`Gap(First, .)`), in which the
frames of `queue` are consecutive intervals (`ChainOK`). The card writes at
distances from CURR on and stops short of BNRY, so it disturbs none of them
(`StoredOK`); a commit appends an interval. `recv_end` moves BNRY by the first
interval, which shifts all distances by its length; the lemmas about `Adv` and
`Gap` do that arithmetic. `DriverOK` carries what the driver took from the ring
(`next`, `cur`, `next_pkt`) from the poll to `recv_end`; without it the release
could not be shown to be the first frame's. In the refinement every step but
`NicCommit` (Accept) and `RecvEnd` (Take) stutters. For the bytes `WindowInv`
relates the DMA address and what `rx_buff_len`, `rx_buff2_len` and `rx_off` say is
left on each side of the wrap to the frame's bytes (`At`); it has a case for each
call at which the handler may stop. For the refused frame `HandledIsLegal` says
that no frame gets past `start_recv` with a length outside the limits.

`SessionProofs` proves, for any number of sessions, commands, frames, datagrams
and relaunched scripts:

* `TypeCorrect`: `Spec => []TypeOK`;
* `ResetsCostLittle`: `Spec => []ResetDamage`, clearing `ping_pong`, by INT 13h or by
  a reboot, costs a session at most one command ignored and one executed twice each
  time;
* `ExactlyOnce`: `Spec => ExecutesOnce`, until `ping_pong` is cleared for the first
  time the commands implement `Rpc`: a call does not return before its command was
  executed, unless its script is replaced, none is executed twice, none after a later
  one was called;
* `RpcUntilReset`: `Spec => ImplementsRpcUntilReset`, which adds that a call
  returns the value of its own execution, provided at most one session uses `inb`
  and `int` (`OneCaller`). The condition is needed: the two answers come from
  static variables that all sessions share;
* `OneScriptExactlyOnce` and `OneScriptOwnReplies`: `Spec => ImplementsRpc` and
  `Spec => ReplyIsMine`, across any number of INT 13h calls and relaunched scripts,
  for one session whose target is not rebooted (`Alone`);
* `AnnouncementsComeThrough`: `Spec => []NoSilentHang`, for any number of sessions of
  which at most one lets the guest run (`OneLeaver`; there is one `conn` to announce
  to) and a target that is not rebooted (a rebooted one announces nothing to a
  script that waited before);
* `WokenByItsOwnGuest`: `Spec => NoSpuriousWakeup`, under `OneLeaver`, with reboots.

The invariant (`SessionInv`) is that of the alternating bit with scripts that
die. The frames of dead scripts stay in the ring, so before its first answer a new
script may find frames of both phases in any order. Of those the target would
execute only the last command of the dead script (`Current`, `Ordered`). The first
answer, for which no frame of a dead script can be taken (`LiveLast`, `Answers`),
proves that one phase is left, and from then on the ring holds frames of the phase
before, then frames of this one (`Alternate`). `ByTheBit` ties execution to the bit,
`Values` ties the static variable and the answers on their way to the command.

`SessionInv(s, b, D)` does not speak of the target's own bit but of the bit `b` that
would be right, and not of the commands executed but of the set `D` that are through,
executed or ignored. Clearing `ping_pong` changes neither, so it keeps `SessionInv`;
it can only make the target's bit differ from `b`. The next frame of the session
makes them agree again: either a new command is taken for a repetition and joins the
ignored ones, or a repetition is taken for a new command and is executed again.
`Damage` adds these up: commands ignored, plus commands executed again, plus one if
the bits differ, are at most the number of times `ping_pong` was cleared. That sum is
inductive and the two bounds of `ResetDamage` alone are not. Where nothing was
cleared, `b` is the target's bit and `D` what it executed (`BitInv`), from which the
refinement of `Rpc` follows step by step. For a session alone `LeaveInv` shows that
INT 13h clears nothing: a leave has phase 1, after the nop in front of it, so the bit
is 0 when the guest gets the machine.

Of the announcements, `LeaverInv` says who may be waiting for one and that no
execution is newer than the script's last command (`Numbered`); `Announced`, that a
target back in its loop either has the announcement still to send, with
`still_resend` set, or has sent it into the script's socket, unless it was lost or
redirected. Its one delicate step is the surplus copy of the leave, which clears
`still_resend`: `LoopTop` has announced before the ring is looked at. `WakeInv` says
when an announcement may be on its way at all (`Due`), that the answer to a nop and
an announcement are in the socket together only in this order, so that `msg` throws
the announcement away (`Apart`), and that `conn` is the script that left while the
guest runs (`Home`).

`TransmitProofs` proves, for every set of ping and getmem lengths that fits the
buffer, any lag of the card and any number of packets, `TypeCorrect`,
`BufferNeverShared` (`Spec => []BufferOwned`), `FramesWhole` (`Spec => []WholeFrames`),
`SendsRefine` (sending implements `FrameQueue`, of whole frames) and `ErrorBlocks`
(after a transmission that failed nothing is sent, `Spec => TxErrorBlocks`), all
whether or not transmissions fail. The inductive invariant says where the bytes of the
packet are at each step (`BytesOK`: on the port, in the buffer, still to come,
with RDC only when none is), that PTX is clear from the moment the buffer is
claimed until the packet is sent (`BufferClaimed`), and that the queue holds the
frame on the air and the one in preparation (`QueueOK`). `AnnouncedIsWritten`
counts every packet of the program; `RbcrExact` is the split of the count into
two registers.

`DhcpProofs` proves, for any servers, addresses and number of polls,
`TypeCorrect`, `AddressPromised` (`Spec => []GrantedToSomebody`) and
`AddressGranted` (`Spec => []Granted`). The invariant is that
every ACK still under way was preceded by the commitment it reports
(`AcksBacked`); commitments are never withdrawn.

`TimerProofs` proves, for a counter of any width, `TimerTypes`, `DelayWaitsEnough`
(`Spec => []WaitsEnough`), `DelayReturnsInTime` (`Spec => []ReturnsInTime`) and
`AnnouncementsStopAtTheWrap` (`Spec => SilentOnlyAfterWrap`). The invariant of the
first two (`DelayInv`) says that `timeout` is the wrapped sum and `ctr` is where the
counted ticks have taken it. For the third, `LateInv` carries that along until the
last tick in time is missed, and `SignedDeadline` shows that a signed comparison ends
the wait at the deadline or a tick later wherever the two have wrapped to, unless the
deadline is the greatest signed number. `SilentInv` says that `ctr` is as far past
`resend_delay` as ticks were counted, until it wraps.

`ChecksumProofs` proves `ChecksumRight`, for all addresses and lengths that fit their
fields (`ChecksumAssumption`): the receiver accepts the header whenever the first
fold leaves no carry. The finding is thus the only case. The invariant carries
the sum through the fold.

`BootProofs` proves `SetUpReady` (`SetUpSpec => []Ready`) and
`SetUpHaltsForAReason` (`SetUpSpec => []HaltsForAReason`), for any number of
ports, any hardware, any registers left over, any frames and restarts. The
invariant (`SetUpInv`) says what each part has established once it is over; it
holds because the card is stopped or in monitor mode from before the memory test
until it is handed over. `HaltInv` adds that the pattern written is read back unless
`writemem` gave up. `BootSetsUp` (`Spec => SetUpSpec`) shows that the boot as a whole
implements the set-up, every other step of it being a stutter, so both hold at every
boot (`BootIsSetUp`).

It also proves, for any number of boots, calls, servers and int commands,
`ChainIsRight` (`Spec => []ChainEndsAtBios`) and `StartOnce` (`Spec =>
[]BootsOnce`: start(0) is not entered again without a reset). `ChainInv` lists the
forms of the chain: not hooked, hooked once, a circle, each before, after or
without the guest's own hook. `EntryInv` is about INT 19h and its copy in INT 32h.

Of the servers and readers it proves `BootTypes` (`Spec => []BootTypeOK`: `start`
goes on only to somebody, and its activations fit the stack), `ServersAreHooked`
(`Spec => []ServedWhenHooked`) and `NoOldAnswers` (`Spec => AnswersAreNew`).
`BootInv` says that every vector saved, in `irq_captured` or by an activation, leads on
to a handler that is there (`PathsOK`, `StackOK`), whatever the actors are doing
(`ModesOK`). `ServedInv` says that a server of this boot that has
not hooked INT 13h meets an activation with its own phase bit, so the install is
executed when it comes; it is the second floppy server's old bit that breaks this.
`AnswersInv` says the same of the reader's bit, but for an int command found again
by a `start` that was entered over it.

`Int13Proofs` proves, for images, geometries and addresses of any size, `Int13Types`
(`Spec => []TypeOK`), `AddressRoundTrip` (a sector number of at most 1024 cylinders
is the same again after `lba_chs`, the registers, `paramstochs` and `tolba`),
`OutsideForAReason` (`Spec => []StaysInside`), `ToldIsTrue`
(`Spec => []GeometryKept`) and `ServesADrive` (`Spec => ImplementsDisk`). `DriveInv`
adds that as long as nobody has left the image it has the size it was started
with, and that the call under way stays inside it; the round trip is what makes
that hold for CHS calls. For the refinement `ImageInv` says which copy of the image
is served, and that the registers of a call under way lead back to the sector the
guest meant; with it an answered call is a step of `Disk`, a restart loses what a
restart of `Disk` loses, and every other step is a stutter.

So a theorem states each safety invariant and each safety property of actions that
the passing runs check, for all values of the constants, or all that the named
conditions admit. Model-checked only are:

* liveness: `DeliversAll`, `OverrunRecovers`, `MsgReturns`, `SendCompletes`,
  `ObtainsAddress`, `DelayReturns`, `AnnouncesAgain`, `SetUpEnds`, `BootGoesOn`,
  `Int13Returns` and `CallsReturn`. They rest on fairness, which is about what is
  enabled, and of that the prover knows nothing;
* the two findings, `FlippedComplete` and `HeaderAccepted`, of which TLC shows a
  counterexample.

## Left as it is

These were met while modelling and contradict no sentence of the repository;
the properties name them as exceptions: the looper's second floppy server, the
circle of two installs, the int command that runs into `isr1`, the
announcement in every round, the leave that is lost with all its copies and the
announcement that another frame silences, the `isr_handled` that makes `start(0)`
return from INT 19h, the refused frame that blocks the ring, the program
that stops after TXE, an image that grows and changes its geometry, and 1024 cylinders
told of an image that has none. `dasd_cmd` answers AH = 0 for any drive, which is
"no such drive"; no property is about it.

## Not modelled, and the plan

Done, in this order: the receive ring, the session protocol, transmission,
DHCP, timer and checksum, the set-up of the card, the boot, INT 13h and the looper.

What could follow: `Boot` with commands and answers under way as in `Session`. As one
module that is too large for TLC, but the two have their invariants now, and a
proof needs no small instance.

Not modelled, because it holds no state of the system:

* `print.c`, `biosint.h` and `inlines.h`: formatting and wrappers of single
  instructions; that a message may halt the machine is in `EthInit` and `Boot`;
* the register definitions, apart from what the modules of the card use of them;
* the addresses in the unrolled loops of `insw.S` (which byte counts they
  transfer is in `RxRing`), `checksum.py`, build and debugger files;
* image conversion and wording in the display scripts, `player.py` and `noise.py`;
  `traceint13.py` only prints. Of `cga.py` the second session is in `Session`.

Partly modelled: option 53 of a DHCP packet is its type, without the search for
it; the display of the spinner in `delay_spin` is left out; of the registers that
`int13handler.py` returns only those something depends on; no image that is not a
whole number of sectors, and neither sector number 0 nor heads beyond the
geometry, which nobody checks either; the retry of `hdddump.py` is left out.

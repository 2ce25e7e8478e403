--------------------------------- MODULE Boot ---------------------------------
(***************************************************************************)
(* How the program gets into the machine and how it is entered: the hook   *)
(* of INT 19h at power on, the set-up of EthInit, start(0), the hook of    *)
(* INT 13h, start(1) for every disk call, and start(1) inside of itself    *)
(* when a script's int command runs into that hook.  Against it run a      *)
(* script that serves disk calls, by hand or under the looper, and one     *)
(* that reads a disk of the machine (hdddump, nbd).                        *)
(*                                                                         *)
(* A command and its answer are one step here: that they get through is    *)
(* Session.  What is kept of it is the phase bit, which start compares and *)
(* which every activation of start begins anew.  What nobody acknowledges  *)
(* may be lost: the Hello, each announcement, and all copies of a leave.   *)
(* All these scripts use client number 0, so only one of them is run at a  *)
(* time.                                                                   *)
(***************************************************************************)
EXTENDS EthInit, Sequences

CONSTANTS
  MaxBoots,      \* bound: the machine is switched on or reset
  MaxCalls,      \* bound: disk calls of the guest in one boot
  MaxByHand,     \* bound: the server is started by hand
  MaxInts,       \* bound: int commands of the reader
  MaxDepth       \* activations of start that the stack has room for

ASSUME BootAssumption ==
  /\ MaxBoots \in Nat /\ MaxCalls \in Nat /\ MaxByHand \in Nat /\ MaxInts \in Nat
  /\ MaxDepth \in Nat \ {0, 1}

VARIABLES
  (* the machine *)
  run,           \* "off", "int19", "setup", "dhcp", "start", "guest", "int13", "halted",
                 \* "crashed", or "unbooted": INT 19h has returned to the BIOS
  vec19, vec32,  \* "bios" or "rom" (init)
  vec13,         \* "bios", "ram" (isr1) or "os" (a hook of the guest)
  captured,      \* irq_captured: where start(0) and isr1 go on to
  os_next,       \* where the guest's hook goes on to
  going,         \* the vector that the interrupt under way has reached
  call,          \* the guest's disk call under way: "mine", to the served drive, or "other"
  stack,         \* the activations of start
  frame,         \* an int command that is being executed, still in the receive ring
  still,         \* still_resend of the last activation
  surplus,       \* the command of which more copies are in the ring: "leave", "handled", "none"
  (* the scripts *)
  server,        \* how the server is run, and the kind of drive it serves
  at, m,         \* what the server does next, and its phase bit
  told,          \* an announcement is in the server's socket
  hello,         \* the Hello packet: "none", "sent" or "lost"
  known,         \* the looper has a monitor object for this machine
  reader, rm,    \* the reader: "off", "next" or "int", and its phase bit
  answer,        \* to its int command: "bios", or "stale", the last result again
  (* history *)
  installs,      \* times INT 13h was hooked in this boot
  started,       \* the server was started in this boot
  reused,        \* the looper has started it with an old monitor object
  moved,         \* start was entered again since the reader's last answer
  cutoff,        \* the server waits, but its leave, or all announcements, were lost
  boots, calls, byhand, ints

vectors == <<vec19, vec32, vec13, captured, os_next>>
serving == <<server, at, m, told, hello, known, started, reused, cutoff>>
reading == <<reader, rm, answer, moved, ints>>
counts == <<installs, boots, calls, byhand>>
polling == <<frame, still, surplus>>
machine == <<run, vectors, going, call, stack, polling>>
vars == <<machine, serving, reading, counts, setup>>

Top == stack[Len(stack)]
Below == SubSeq(stack, 1, Len(stack) - 1)

\* start begins with ping_pong = 0.  irq_entry has read by then where it goes on to.
Activation(n) == [irq |-> n, bit |-> FALSE, next |-> captured[n]]

\* Mutant: the phase advances with a repetition, too.
ToggledAlways(bit, b) == ~bit

\* ping_pong after a command with phase b; it is executed if the two are equal.
Toggled(bit, b) == IF bit = b THEN ~bit ELSE bit

\* The stack after a command with phase b.
After(b) == [stack EXCEPT ![Len(stack)].bit = Toggled(@, b)]

-------------------------------------------------------------------------------
(* Power on, and INT 19h *)

Init ==
  /\ SetUpInit
  /\ run = "off" /\ vec19 = "bios" /\ vec32 = "bios" /\ vec13 = "bios"
  /\ captured = [k \in {0, 1} |-> "none"] /\ os_next = "none" /\ going = "bios"
  /\ call = "none" /\ stack = << >>
  /\ frame = FALSE /\ still = FALSE /\ surplus = "none"
  /\ server \in [by : {"looper", "hand"}, drive : {"floppy", "disk"}]
  /\ at = "off" /\ m = FALSE /\ told = FALSE /\ hello = "none" /\ known = FALSE
  /\ started = FALSE /\ reused = FALSE /\ cutoff = FALSE
  /\ reader = "off" /\ rm = FALSE /\ answer = "none" /\ moved = FALSE /\ ints = 0
  /\ installs = 0 /\ boots = 0 /\ calls = 0 /\ byhand = 0

\* Mutant: INT 32h is written after INT 19h, from it.
SavesLate == "rom"

\* install_irq: the BIOS's INT 19h goes to INT 32h.
Saves == "bios"

\* The BIOS sets its vectors up and calls the option ROM, which hooks INT 19h unless
\* Ctrl is held.  The server goes on; the reader is started anew.
PowerOn(ctrl) ==
  /\ boots < MaxBoots /\ boots' = boots + 1
  /\ run' = "int19" /\ vec13' = "bios" /\ os_next' = "none"
  /\ vec19' = IF ctrl THEN "bios" ELSE "rom"
  /\ vec32' = IF ctrl THEN vec32 ELSE Saves
  /\ captured' = [k \in {0, 1} |-> "none"] /\ going' = vec19'
  /\ call' = "none" /\ stack' = << >>
  /\ frame' = FALSE /\ still' = FALSE /\ surplus' = "none"
  /\ reader' = "off" /\ rm' = FALSE /\ answer' = "none" /\ moved' = FALSE
  /\ started' = FALSE /\ reused' = FALSE /\ cutoff' = FALSE
  /\ installs' = 0 /\ calls' = 0
  /\ Restart
  /\ UNCHANGED <<server, at, m, told, hello, known, ints, byhand>>

\* The BIOS loads the guest.
LoadsGuest ==
  /\ run = "int19" /\ going = "bios" /\ run' = "guest"
  /\ UNCHANGED <<vectors, going, call, stack, polling, serving, reading, counts, setup>>

\* move_to_ram: INT 19h is what it was.
Restores == vec32

\* init and move_to_ram, with what start(0) will go on to.
EntersRam ==
  /\ run = "int19" /\ going = "rom" /\ run' = "setup"
  /\ vec19' = Restores /\ captured' = [captured EXCEPT ![0] = vec32]
  /\ UNCHANGED <<vec32, vec13, os_next, going, call, stack, polling, serving, reading, counts,
                 setup>>

\* eth_detect and eth_initialize.
SetsUp ==
  /\ run = "setup"
  /\ Driver
  /\ UNCHANGED <<machine, serving, reading, counts>>

CardInSetUp ==
  /\ run = "setup"
  /\ CardStores \/ CardReceives
  /\ UNCHANGED <<machine, serving, reading, counts>>

SetUpHalts ==
  /\ run = "setup" /\ step = "halted" /\ run' = "halted"
  /\ UNCHANGED <<vectors, going, call, stack, polling, serving, reading, counts, setup>>

\* From here on start asks for an address, and again as long as it has none: Dhcp.
AsksForAddress ==
  /\ run = "setup" /\ step = "done" /\ run' = "dhcp"
  /\ UNCHANGED <<vectors, going, call, stack, polling, serving, reading, counts, setup>>

\* An address was obtained: the Hello is broadcast, once, and the loop begins.
SaysHello(reaches) ==
  /\ run = "dhcp" /\ run' = "start"
  /\ stack' = << Activation(0) >>
  /\ hello' = IF server.by = "looper" /\ (reaches \/ hello = "sent") THEN "sent" ELSE "lost"
  /\ UNCHANGED <<vectors, going, call, polling, server, at, m, told, known, started, reused,
                 cutoff, reading, counts, setup>>

-------------------------------------------------------------------------------
(* INT 13h: called by the guest when start is not active, else by start *)

GuestCalls(c) ==
  /\ run = "guest" /\ calls < MaxCalls /\ calls' = calls + 1
  /\ run' = "int13" /\ going' = vec13 /\ call' = c
  /\ UNCHANGED <<vectors, stack, polling, serving, reading, installs, boots, byhand, setup>>

\* A boot that failed, or a guest that starts another one.
GuestCalls19 ==
  /\ run = "guest" /\ calls < MaxCalls /\ calls' = calls + 1
  /\ run' = "int19" /\ going' = vec19
  /\ UNCHANGED <<vectors, call, stack, polling, serving, reading, installs, boots, byhand,
                 setup>>

\* The guest hooks INT 13h, too.
GuestHooks ==
  /\ run = "guest" /\ os_next = "none"
  /\ vec13' = "os" /\ os_next' = vec13
  /\ UNCHANGED <<run, vec19, vec32, captured, going, call, stack, polling, serving, reading,
                 counts, setup>>

ThroughGuestHook ==
  /\ run = "int13" /\ going = "os" /\ going' = os_next
  /\ UNCHANGED <<run, vectors, call, stack, polling, serving, reading, counts, setup>>

\* The server waits for the announcement that start sends to whom it heard last.
Awaited == run = "start" /\ Len(stack) = 1 /\ at = "wait" /\ ~told

\* isr1 enters start(1), which announces itself at once to whom it heard last: the server,
\* unless it is inside the reader's int command.
EntersStart(reaches) ==
  /\ run = "int13" /\ going = "ram"
  /\ IF Len(stack) < MaxDepth
       THEN run' = "start" /\ stack' = Append(stack, Activation(1)) /\ still' = TRUE
       ELSE run' = "crashed" /\ UNCHANGED <<stack, still>>
  /\ told' = (told \/ (reaches /\ stack = << >> /\ at = "wait"))
  /\ moved' = TRUE
  /\ UNCHANGED <<vectors, going, call, frame, surplus, server, at, m, hello, known, started,
                 reused, cutoff, reader, rm, answer, ints, counts, setup>>

\* And again in every round until it finds a command; one of the announcements arrives.
Announces ==
  /\ Awaited /\ still /\ told' = TRUE
  /\ UNCHANGED <<machine, server, at, m, hello, known, started, reused, cutoff, reading,
                 counts, setup>>

\* Another host's frame: from now on start announces itself to its sender.
FindsForeign ==
  /\ run = "start" /\ ~frame /\ still /\ still' = FALSE
  /\ cutoff' = (cutoff \/ Awaited)
  /\ UNCHANGED <<run, vectors, going, call, stack, frame, surplus, server, at, m, told, hello,
                 known, started, reused, reading, counts, setup>>

\* The reader, if it still runs, gets the answer to its int command.
Answers(a) ==
  IF reader = "int" THEN reader' = "next" /\ rm' = ~rm /\ answer' = a /\ moved' = FALSE
                    ELSE UNCHANGED <<reader, rm, answer, moved>>

\* The call is over, by a return from the BIOS or from isr1: the guest goes on, or the
\* int command's recv_end and answer.  still_resend has been cleared by that command.
Returns(from) ==
  /\ stack' = from /\ still' = FALSE
  /\ IF Len(from) = 0
       THEN /\ run' = "guest" /\ call' = "none"
            /\ UNCHANGED <<frame, reader, rm, answer, moved>>
       ELSE /\ run' = "start" /\ frame' = FALSE
            /\ Answers("bios") /\ UNCHANGED call

ReachesBios ==
  /\ run = "int13" /\ going = "bios"
  /\ Returns(stack)
  /\ UNCHANGED <<vectors, going, surplus, serving, ints, counts, setup>>

-------------------------------------------------------------------------------
(* The server *)

\* start is polling, and neither an int command nor an old leave is in the way.
Polls == run = "start" /\ ~frame /\ surplus = "none"

\* One command and its answer, of which nothing depends on its being executed.
Command(from, to) ==
  /\ Polls /\ at = from /\ at' = to
  /\ stack' = After(m) /\ m' = ~m /\ told' = FALSE /\ still' = FALSE
  /\ UNCHANGED <<run, vectors, going, call, frame, surplus, server, hello, known, started,
                 reused, cutoff, reading, counts, setup>>

\* Mutant: the disks are counted only once for a machine.
AfterNewOnce == IF server.drive = "disk" /\ ~known THEN "count" ELSE "install"

\* What a server begins with.
AfterNew == IF server.drive = "disk" THEN "count" ELSE "install"

\* monitor.__init__.
Constructs == Command("new", AfterNew)

\* The number of disks at 0:0475 is read and written.
CountsDisk == Command("count", "counted") \/ Command("counted", "install")

\* Mutant: what is captured is the new vector.
CapturesNew == "ram"

\* install13h: the vector isr1 goes on to.
Captures == vec13

Installs ==
  /\ Polls /\ at = "install" /\ at' = "leave"
  /\ stack' = After(m) /\ m' = ~m /\ told' = FALSE /\ still' = FALSE
  /\ IF Top.bit = m
       THEN /\ captured' = [captured EXCEPT ![1] = Captures] /\ vec13' = "ram"
            /\ installs' = installs + 1
       ELSE UNCHANGED <<captured, vec13, installs>>
  /\ UNCHANGED <<run, vec19, vec32, os_next, going, call, frame, surplus, server, hello,
                 known, started, reused, cutoff, reading, boots, calls, byhand, setup>>

\* continue_boot and isr_handled send an even command first if the next is odd; what
\* start then compares with TRUE.
LeaveBit == IF m THEN Top.bit ELSE Toggled(Top.bit, FALSE)

\* The copies are out, and nothing tells whether start has left.
LeaveSent == m' = TRUE /\ at' = "wait" /\ told' = FALSE

\* start returns 1 and irq_entry goes on to what was captured, with the activation gone; or
\* it returns 0 and irq_entry returns to the caller, of start(0) to that of INT 19h.
LeavesBy(c) ==
  IF c = "leave"
    THEN /\ run' = IF Top.irq = 0 THEN "int19" ELSE "int13"
         /\ going' = Top.next /\ stack' = Below /\ still' = FALSE
         /\ UNCHANGED <<call, frame, reader, rm, answer, moved>>
  ELSE IF Top.irq = 0
    THEN /\ run' = "unbooted" /\ stack' = Below /\ still' = FALSE
         /\ UNCHANGED <<going, call, frame, reader, rm, answer, moved>>
    ELSE Returns(Below) /\ UNCHANGED going

\* One copy arrives, and maybe another one behind it.
LeaveReaches(c) ==
  /\ Polls /\ at = c /\ LeaveBit
  /\ LeaveSent /\ LeavesBy(c) /\ surplus' \in {"none", c}
  /\ UNCHANGED <<vectors, server, hello, known, started, reused, cutoff, ints, counts, setup>>

\* start takes the copies for repetitions.
LeaveIgnored ==
  /\ Polls /\ at \in {"leave", "handled"} /\ ~LeaveBit
  /\ LeaveSent /\ still' = FALSE
  /\ UNCHANGED <<run, vectors, going, call, stack, frame, surplus, server, hello, known, started,
                 reused, cutoff, reading, counts, setup>>

\* All copies are lost; only the even command before them has been executed.
LeaveLost ==
  /\ Polls /\ at \in {"leave", "handled"}
  /\ LeaveSent /\ cutoff' = TRUE
  /\ IF m THEN UNCHANGED <<stack, still>> ELSE stack' = After(FALSE) /\ still' = FALSE
  /\ UNCHANGED <<run, vectors, going, call, frame, surplus, server, hello, known, started,
                 reused, reading, counts, setup>>

\* The old leave is found: by the next start, which takes it for a repetition and falls
\* silent, or by an activation below the one it was sent to, which may take it for new.
FindsCopy ==
  /\ run = "start" /\ ~frame /\ surplus # "none"
  /\ IF Top.bit
       THEN LeavesBy(surplus) /\ surplus' \in {"none", surplus} /\ UNCHANGED cutoff
       ELSE /\ surplus' = "none" /\ still' = FALSE
            /\ cutoff' = (cutoff \/ (still /\ Awaited))
            /\ UNCHANGED <<run, going, call, stack, frame, reader, rm, answer, moved>>
  /\ UNCHANGED <<vectors, server, at, m, told, hello, known, started, reused, ints, counts,
                 setup>>

\* wait_for_isr.
WakesUp == told /\ Command("wait", "params")

\* get_called_params and process: only calls for the server's own drive are served.
AsksParams ==
  Command("params", IF Top.irq = 1 /\ Len(stack) = 1 /\ call = "mine" THEN "serve" ELSE "leave")

\* The memory commands and set_called_params.
Serves == Command("serve", "handled")

Server ==
  \/ Constructs \/ CountsDisk \/ Installs
  \/ \E c \in {"leave", "handled"} : LeaveReaches(c)
  \/ LeaveIgnored \/ LeaveLost
  \/ WakesUp \/ AsksParams \/ Serves

\* The looper ends the process that serves the machine, if any, and starts another.  It
\* has one monitor object per address: that of the old process is used again, with the
\* phase its constructor left in the looper.
LooperStarts ==
  /\ hello = "sent" /\ at # "new" /\ hello' = "none"
  /\ at' = (IF known THEN AfterNew ELSE "new") /\ m' = known
  /\ told' = FALSE /\ known' = TRUE /\ started' = TRUE /\ reused' = known /\ cutoff' = FALSE
  /\ UNCHANGED <<machine, server, reading, counts, setup>>

\* imageemu, inmememu or the reader is stopped, in whatever it does.
StopsByHand ==
  /\ server.by = "hand" /\ (at # "off" \/ reader # "off")
  /\ at' = "off" /\ m' = FALSE /\ told' = FALSE /\ started' = FALSE /\ cutoff' = FALSE
  /\ reader' = "off"
  /\ UNCHANGED <<machine, server, hello, known, reused, rm, answer, moved, ints,
                 counts, setup>>

\* imageemu or inmememu is started by hand.
StartsByHand ==
  /\ server.by = "hand" /\ at = "off" /\ reader = "off" /\ byhand < MaxByHand /\ byhand' = byhand + 1
  /\ at' = "new" /\ m' = FALSE /\ told' = FALSE /\ started' = TRUE
  /\ UNCHANGED <<machine, server, hello, known, reused, cutoff, reading, installs, boots,
                 calls, setup>>

-------------------------------------------------------------------------------
(* The reader *)

ReaderStarts ==
  /\ server.by = "hand" /\ at = "off" /\ reader = "off"
  /\ Polls /\ ints < MaxInts /\ reader' = "next"
  /\ stack' = After(FALSE) /\ rm' = TRUE /\ moved' = FALSE /\ still' = FALSE
  /\ UNCHANGED <<run, vectors, going, call, frame, surplus, serving, answer, ints, counts,
                 setup>>

\* An int command with phase rm in the receive ring: INT 13h is executed with the frame
\* still there, or the last result is sent again.
IntCommand ==
  /\ still' = FALSE
  /\ IF Top.bit = rm
       THEN /\ stack' = After(rm) /\ run' = "int13" /\ going' = vec13 /\ frame' = TRUE
            /\ UNCHANGED <<reader, rm, answer, moved>>
       ELSE /\ frame' = FALSE /\ Answers("stale")
            /\ UNCHANGED <<stack, run, going>>

\* A call for a drive of the machine.
SendsInt ==
  /\ reader = "next" /\ ints < MaxInts /\ ints' = ints + 1 /\ reader' = "int"
  /\ UNCHANGED <<machine, serving, rm, answer, moved, counts, setup>>

ReceivesInt ==
  /\ Polls /\ reader = "int"
  /\ IntCommand
  /\ UNCHANGED <<vectors, call, surplus, serving, ints, counts, setup>>

\* start(1), entered by an int command, finds that very command in the ring.
FindsIntAgain ==
  /\ run = "start" /\ frame
  /\ IntCommand
  /\ UNCHANGED <<vectors, call, surplus, serving, ints, counts, setup>>

Machine ==
  \/ LoadsGuest \/ EntersRam \/ SetsUp \/ SetUpHalts \/ AsksForAddress
  \/ ThroughGuestHook \/ \E reaches \in BOOLEAN : EntersStart(reaches)
  \/ ReachesBios \/ FindsCopy \/ ReceivesInt \/ FindsIntAgain

Next ==
  \/ Machine \/ CardInSetUp \/ \E reaches \in BOOLEAN : SaysHello(reaches)
  \/ Announces \/ FindsForeign
  \/ Server \/ LooperStarts \/ StartsByHand \/ StopsByHand
  \/ ReaderStarts \/ SendsInt
  \/ GuestCalls19 \/ GuestHooks
  \/ \E ctrl \in BOOLEAN : PowerOn(ctrl)
  \/ \E c \in {"mine", "other"} : GuestCalls(c)

Spec == Init /\ [][Next]_vars

\* The processor goes on, and so do the server and the looper; an announcement that is
\* repeated for ever gets through.  Whether start obtains an address is left open.
Fairness ==
  /\ WF_vars(Machine) /\ WF_vars(Server) /\ WF_vars(LooperStarts) /\ WF_vars(Announces)

FairSpec == Spec /\ Fairness

-------------------------------------------------------------------------------
(* Properties *)

BootTypeOK ==
  /\ SetUpTypeOK
  /\ run \in {"off", "int19", "setup", "dhcp", "start", "guest", "int13", "unbooted", "halted",
              "crashed"}
  /\ vec19 \in {"bios", "rom"} /\ vec32 \in {"bios", "rom"} /\ vec13 \in {"bios", "ram", "os"}
  /\ captured \in [{0, 1} -> {"none", "bios", "ram", "os"}]
  /\ os_next \in {"none", "bios", "ram"} /\ going \in {"bios", "rom", "ram", "os"}
  /\ call \in {"none", "mine", "other"}
  /\ Len(stack) <= MaxDepth
  /\ \A k \in 1 .. Len(stack) : stack[k].irq \in {0, 1} /\ stack[k].bit \in BOOLEAN
       /\ stack[k].next \in {"bios", "ram", "os"}
  /\ at \in {"off", "new", "count", "counted", "install", "leave", "wait", "params", "serve",
             "handled"}
  /\ hello \in {"none", "sent", "lost"} /\ reader \in {"off", "next", "int"}
  /\ answer \in {"none", "bios", "stale"} /\ surplus \in {"none", "leave", "handled"}
  /\ installs \in Nat

\* Where INT 13h gets in one step from v.
Link(v) == IF v = "ram" THEN captured[1] ELSE IF v = "os" THEN os_next ELSE v

\* The chain of INT 13h ends at the BIOS unless it was hooked twice in one boot; then it
\* comes round to isr1 for ever, whether or not the guest has hooked it in between.
ChainEndsAtBios == Link(Link(Link(vec13))) = "bios" <=> installs <= 1

\* start(0) is entered once in a boot: INT 19h is the BIOS's again when the guest runs.
BootsOnce == run = "guest" => vec19 = "bios"

\* eth_detect and eth_initialize end, with a card that never completes a remote write, too:
\* then the machine halts with a message instead of hanging.
SetUpEnds == run = "setup" ~> run # "setup"

\* From start(0) the guest is booted, under the looper, unless the machine is reset again.
\* If the Hello was lost nobody ever talks to it; if all copies of the leave were, the
\* server waits, and nobody sends another one; and if a process from before the reset has
\* handled its disk call, start(0) takes that for its own, and INT 19h returns.
BootGoesOn ==
  \A n \in 1 .. MaxBoots :
    run = "start" /\ Top.irq = 0 /\ Len(stack) = 1 /\ boots = n
      ~> \/ run = "guest" \/ boots > n
         \/ hello = "lost" \/ []cutoff \/ (run = "unbooted" /\ ~started)

\* The server of this boot waits for disk calls only after INT 13h was hooked for it,
\* whatever a server from before the reset has done meanwhile; except that the looper's
\* second floppy server finds its install command taken for a repetition.
ServedWhenHooked ==
  run = "guest" /\ at = "wait" /\ started =>
    installs > 0 \/ (reused /\ server.drive = "floppy")

\* Every disk call of the guest returns, as long as the server runs, unless the chain is a
\* circle, an int command has run into isr1, or the server and start wait for each other
\* for ever, since all copies of a leave were lost, or the first announcement was and
\* another frame kept start from repeating it.
Int13Returns ==
  call # "none" ~>
    call = "none" \/ at = "off" \/ installs > 1 \/ Len(stack) > 1 \/ []cutoff

\* The reader is given an old result for a new call only if start was entered again since
\* its last command.
AnswersAreNew ==
  [][reader = "int" /\ reader' = "next" /\ answer' = "stale" => moved]_vars
===============================================================================

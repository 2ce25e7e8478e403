-------------------------------- MODULE Session -------------------------------
(***************************************************************************)
(* The command protocol between main.c (start) and scripts/monitor.py.     *)
(*                                                                         *)
(* A session is a monitor object: it has a ping_idx, a socket and one      *)
(* phase bit.  msg() sends a command and repeats it every 5 ms until an    *)
(* answer with its phase arrives; the target keeps one bit per ping_idx    *)
(* (ping_pong) and executes a command only when its phase matches that bit.*)
(* continue_boot and isr_handled make start() return: the guest runs and   *)
(* commands pile up in the receive ring until the guest calls INT 13h,     *)
(* start() is entered again with ping_pong cleared, and the target         *)
(* announces itself with 0x40 until a command arrives.                     *)
(*                                                                         *)
(* The network delivers in order, may lose, and does not duplicate: every  *)
(* duplicate is a repetition by msg().  A command is one of four kinds:    *)
(* "nop" (0xff), "write" (outb, putmem, putmem_flipped, install13h,        *)
(* set_called_params: executed when the phase matches), "cached" (inb,     *)
(* call: executed when it matches, answered from a static variable),       *)
(* "read" (ping, getmem, get_called_params: always executed), and "leave"  *)
(* (continue_boot, isr_handled: no answer).                                *)
(***************************************************************************)
EXTENDS Integers, Sequences, FiniteSets

CONSTANTS
  Sessions,      \* monitor objects, by ping_idx
  Kinds,         \* session -> kinds of command its script uses
  Leavers,       \* sessions whose script lets the guest run
  Foreign,       \* whether other hosts' frames reach the target
  RingCap,       \* bound: frames the receive ring holds
  SockCap,       \* bound: datagrams on the way to a session
  MaxOps,        \* bound: commands a session calls
  MaxStarts,     \* bound: monitor objects made for a ping_idx, one after another
  MaxEntries,    \* bound: INT 13h calls of the guest
  MaxReboots     \* bound: reboots of the target

Nobody == "nobody"
Effects == {"write", "cached"}
NoVal == <<Nobody, 0>>

ASSUME SessionAssumption ==
  /\ Nobody \notin Sessions /\ Leavers \subseteq Sessions
  /\ Kinds \in [Sessions -> SUBSET {"write", "cached", "read"}]
  /\ Foreign \in BOOLEAN
  /\ RingCap \in Nat \ {0} /\ SockCap \in Nat \ {0}
  /\ MaxOps \in Nat /\ MaxStarts \in Nat
  /\ MaxEntries \in Nat /\ MaxReboots \in Nat

VARIABLES
  (* monitor.py *)
  at,            \* session -> where its script is
  phase,         \* session -> ping_pong
  kind, op,      \* session -> kind and number of its last command
  rep,           \* session -> datagrams on the way to its socket, oldest first
  starts,        \* session -> monitor objects made so far
  (* main.c *)
  mode,          \* "loop": inside start(); "guest": the guest runs
  sent,          \* this iteration of the loop is past the still_resend test
  bit,           \* session -> its bit of ping_pong
  still,         \* still_resend
  conn,          \* whom conn addresses
  cache,         \* the static variable a cached answer is taken from
  ring,          \* frames in the receive ring, oldest first
  (* history *)
  done,          \* session -> numbers of the commands executed, in order
  val,           \* session -> what its last call returned
  skipped,       \* session -> commands answered though never executed
  missed,        \* an announcement since the last entry reached no session
  entries, reboots

client == <<at, phase, kind, op, starts>>
server == <<mode, sent, bit, still, conn, cache>>
history == <<done, val, skipped, missed, entries, reboots>>
vars == <<client, rep, server, ring, history>>

-------------------------------------------------------------------------------
Init ==
  /\ at = [s \in Sessions |-> "off"]
  /\ phase = [s \in Sessions |-> 0]
  /\ kind = [s \in Sessions |-> "none"]
  /\ op = [s \in Sessions |-> 0]
  /\ rep = [s \in Sessions |-> << >>]
  /\ starts = [s \in Sessions |-> 0]
  /\ mode = "loop" /\ sent = FALSE
  /\ bit = [s \in Sessions |-> 0]
  /\ still = FALSE /\ conn = Nobody /\ cache = NoVal
  /\ ring = << >>
  /\ done = [s \in Sessions |-> << >>]
  /\ val = [s \in Sessions |-> NoVal]
  /\ skipped = [s \in Sessions |-> {}]
  /\ missed = FALSE /\ entries = 0 /\ reboots = 0

Isr == 2         \* the first byte of an announcement: not a phase

\* Where a script can be: outside monitor.py ("idle", "off"), inside msg() for a
\* nop that opens the session or follows an announcement ("sync"), for the nop
\* that precedes a leave ("presync") or for a command ("call"), about to send a
\* leave or its second or third copy, or inside wait_for_isr.
InMsg(s) == at[s] \in {"sync", "presync", "call"}

\* A datagram to the target: ping_idx in its first byte, then the command.
Datagram(s, k, n) ==
  [from |-> s, live |-> TRUE, phase |-> phase[s], kind |-> k, op |-> n]

Request(s) ==
  IF at[s] = "call" THEN Datagram(s, kind[s], op[s]) ELSE Datagram(s, "nop", 0)

ForeignFrame ==
  [from |-> Nobody, live |-> FALSE, phase |-> 0, kind |-> "foreign", op |-> 0]

-------------------------------------------------------------------------------
(* Scripts: monitor.py *)

\* A new monitor object: a new socket, phase 0, a nop to begin with.  A previous
\* one for the same ping_idx has died wherever it was; its commands may still be
\* on their way, their answers go to a socket nobody reads.
Start(s) ==
  /\ starts[s] < MaxStarts
  /\ starts' = [starts EXCEPT ![s] = @ + 1]
  /\ at' = [at EXCEPT ![s] = "sync"]
  /\ phase' = [phase EXCEPT ![s] = 0]
  /\ rep' = [rep EXCEPT ![s] = << >>]
  /\ conn' = IF conn = s THEN Nobody ELSE conn
  /\ ring' = [i \in DOMAIN ring |->
                IF ring[i].from = s THEN [ring[i] EXCEPT !.live = FALSE]
                                    ELSE ring[i]]
  /\ UNCHANGED <<kind, op, mode, sent, bit, still, cache, history>>

Call(s) ==
  /\ at[s] = "idle" /\ op[s] < MaxOps
  /\ \E k \in Kinds[s] : kind' = [kind EXCEPT ![s] = k]
  /\ op' = [op EXCEPT ![s] = @ + 1]
  /\ at' = [at EXCEPT ![s] = "call"]
  /\ UNCHANGED <<phase, starts, rep, server, ring, history>>

\* One sendall of msg(), the first or a repetition after 5 ms.
SendDelivered(s) ==
  /\ InMsg(s)
  /\ Len(ring) < RingCap
  /\ ring' = Append(ring, Request(s))
  /\ UNCHANGED <<client, rep, server, history>>

\* What a msg() that returned m leads to.
Returned(s, m) ==
  /\ at' = [at EXCEPT ![s] = IF @ = "presync" THEN "leaving" ELSE "idle"]
  /\ IF at[s] = "call"
       THEN /\ val' = [val EXCEPT ![s] = m.val]
            /\ skipped' = [skipped EXCEPT ![s] =
                 IF kind[s] \in Effects /\ op[s] \notin {done[s][i] : i \in DOMAIN done[s]}
                   THEN @ \cup {op[s]} ELSE @]
       ELSE UNCHANGED <<val, skipped>>

\* Mutant: msg() keeps its phase.
FlippedNot(p) == p

Flipped(p) == 1 - p

\* An answer with the phase of the call: msg() reads what else is there, flips
\* its phase and returns.
MsgAnswered(s) ==
  /\ InMsg(s) /\ rep[s] # << >>
  /\ Head(rep[s]).phase = phase[s]
  /\ \E k \in 1 .. Len(rep[s]) :
       rep' = [rep EXCEPT ![s] = SubSeq(@, k + 1, Len(@))]
  /\ phase' = [phase EXCEPT ![s] = Flipped(@)]
  /\ Returned(s, Head(rep[s]))
  /\ UNCHANGED <<kind, op, starts, server, ring, done, missed, entries, reboots>>

\* Any other datagram is dropped.
MsgIgnores(s) ==
  /\ InMsg(s) /\ rep[s] # << >>
  /\ Head(rep[s]).phase # phase[s]
  /\ rep' = [rep EXCEPT ![s] = Tail(@)]
  /\ UNCHANGED <<client, server, ring, history>>

\* msgout: a nop first if the phase is 0.
BeginLeave(s) ==
  /\ at[s] = "idle" /\ s \in Leavers /\ op[s] < MaxOps
  /\ at' = [at EXCEPT ![s] = IF phase[s] = 0 THEN "presync" ELSE "leaving"]
  /\ UNCHANGED <<phase, kind, op, starts, rep, server, ring, history>>

NextCopy == [w \in {"leaving", "copy2", "copy3"} |->
               CASE w = "leaving" -> "copy2"
                 [] w = "copy2"   -> "copy3"
                 [] w = "copy3"   -> "wait"]

\* Three copies, each of which may be lost; then wait_for_isr.
SendLeave(s) ==
  /\ at[s] \in DOMAIN NextCopy
  /\ at' = [at EXCEPT ![s] = NextCopy[@]]
  /\ IF at[s] = "leaving"
       THEN kind' = [kind EXCEPT ![s] = "leave"] /\ op' = [op EXCEPT ![s] = @ + 1]
       ELSE UNCHANGED <<kind, op>>
  /\ \/ UNCHANGED ring
     \/ Len(ring) < RingCap /\ ring' = Append(ring, Datagram(s, "leave", op'[s]))
  /\ UNCHANGED <<phase, starts, rep, server, history>>

\* Mutant: wait_for_isr returns on any datagram.
WakesUpAnyway(m) == TRUE

WakesUp(m) == m.phase = Isr

\* wait_for_isr blocks without a timeout; an announcement leads to a nop.
WaitReceives(s) ==
  /\ at[s] = "wait" /\ rep[s] # << >>
  /\ at' = [at EXCEPT ![s] = IF WakesUp(Head(rep[s])) THEN "sync" ELSE "wait"]
  /\ rep' = [rep EXCEPT ![s] = Tail(@)]
  /\ UNCHANGED <<phase, kind, op, starts, server, ring, history>>

Script(s) ==
  \/ Call(s) \/ SendDelivered(s) \/ MsgAnswered(s) \/ MsgIgnores(s)
  \/ BeginLeave(s) \/ SendLeave(s) \/ WaitReceives(s)

-------------------------------------------------------------------------------
(* The target: main.c *)

\* A datagram to session s arrives, or is lost.
Delivered(s, m) == Len(rep[s]) < SockCap /\ rep' = [rep EXCEPT ![s] = Append(@, m)]
Lost == rep' = rep

\* Mutant: the announcement is left to a poll that finds no packet.
AnnouncesWhenIdle == still /\ ring = << >>

Announces == still

\* The top of the loop: while no command has arrived, announce.  Lost stands for
\* the network, for a conn that addresses no session, and for the time after the
\* 16-bit tick counter has wrapped below resend_delay.
LoopTop ==
  /\ mode = "loop" /\ ~sent
  /\ sent' = TRUE
  /\ IF Announces
       THEN \/ /\ conn # Nobody
               /\ Delivered(conn, [phase |-> Isr, val |-> NoVal])
               /\ UNCHANGED missed
            \/ Lost /\ missed' = TRUE
       ELSE Lost /\ UNCHANGED missed
  /\ UNCHANGED <<client, mode, bit, still, conn, cache, ring,
                 done, val, skipped, entries, reboots>>

LoopNoPacket ==
  /\ mode = "loop" /\ sent /\ ring = << >>
  /\ sent' = FALSE
  /\ UNCHANGED <<client, rep, mode, bit, still, conn, cache, ring, history>>

\* Ethernet frames that are not for this port leave their sender in conn.
LoopForeign ==
  /\ mode = "loop" /\ sent
  /\ ring # << >> /\ Head(ring).kind = "foreign"
  /\ ring' = Tail(ring)
  /\ conn' = Nobody
  /\ sent' = FALSE
  /\ UNCHANGED <<client, rep, mode, bit, still, cache, history>>

\* Mutant: the phase is not looked at.
LostReplyNever(r) == FALSE

\* The target has seen this phase already: the command is a repetition.
LostReply(r) == bit[r.from] # r.phase

\* Mutant: isr_handled returns from start() on a repetition too.
ExecutesLeaveAgain(r) ==
  r.kind = "leave" \/ (r.kind \in Effects /\ ~LostReply(r))

\* The commands that change the target run on their first arrival only.
Executes(r) == r.kind \in Effects \cup {"leave"} /\ ~LostReply(r)

\* Mutant: the bit is flipped for a repetition too.
ToggleAlways(r) == [bit EXCEPT ![r.from] = 1 - @]

Toggle(r) == IF LostReply(r) THEN bit ELSE [bit EXCEPT ![r.from] = 1 - @]

Answer(r) ==
  [phase |-> r.phase,
   val |-> CASE r.kind = "read"   -> <<r.from, r.op>>
             [] r.kind = "cached" -> cache'
             [] OTHER             -> NoVal]

\* Mutant: a repetition is not answered.
AnsweredOnce(r) == r.kind # "leave" /\ ~LostReply(r)

\* Every command but continue_boot and isr_handled is answered, repetitions too.
Answered(r) == r.kind # "leave"

LoopCommand(delivered) ==
  /\ mode = "loop" /\ sent
  /\ ring # << >> /\ Head(ring).kind # "foreign"
  /\ LET r == Head(ring)
     IN  /\ conn' = IF r.live THEN r.from ELSE Nobody
         /\ bit' = Toggle(r)
         /\ done' = IF Executes(r) THEN [done EXCEPT ![r.from] = Append(@, r.op)]
                                   ELSE done
         /\ cache' = IF Executes(r) /\ r.kind = "cached" THEN <<r.from, r.op>>
                                                         ELSE cache
         /\ mode' = IF Executes(r) /\ r.kind = "leave" THEN "guest" ELSE "loop"
         /\ IF Answered(r) /\ r.live /\ delivered
              THEN Delivered(r.from, Answer(r))
              ELSE Lost
  /\ still' = FALSE
  /\ sent' = FALSE
  /\ ring' = Tail(ring)
  /\ UNCHANGED <<client, val, skipped, missed, entries, reboots>>

\* The guest calls INT 13h: start(1).
GuestInt13 ==
  /\ mode = "guest" /\ entries < MaxEntries
  /\ entries' = entries + 1
  /\ mode' = "loop" /\ sent' = FALSE
  /\ bit' = [s \in Sessions |-> 0]
  /\ still' = TRUE
  /\ missed' = FALSE
  /\ UNCHANGED <<client, rep, conn, cache, ring, done, val, skipped, reboots>>

\* The target starts over from the option ROM: card and memory are initialised
\* again; the scripts are not told.
Reboot ==
  /\ reboots < MaxReboots
  /\ reboots' = reboots + 1
  /\ mode' = "loop" /\ sent' = FALSE
  /\ bit' = [s \in Sessions |-> 0]
  /\ still' = FALSE /\ conn' = Nobody /\ cache' = NoVal
  /\ ring' = << >>
  /\ UNCHANGED <<client, rep, done, val, skipped, missed, entries>>

NetForeign ==
  /\ Foreign /\ Len(ring) < RingCap
  /\ ring' = Append(ring, ForeignFrame)
  /\ UNCHANGED <<client, rep, server, history>>

Target == LoopTop \/ LoopNoPacket \/ LoopForeign \/ \E d \in BOOLEAN : LoopCommand(d)

Next ==
  \/ \E s \in Sessions : Start(s) \/ Script(s)
  \/ Target \/ GuestInt13 \/ Reboot \/ NetForeign

Spec == Init /\ [][Next]_vars

\* The target polls and scripts read their sockets; a datagram sent again and
\* again gets through.  Nothing is assumed of the guest, of the user who starts
\* scripts, or of the scripts' choice of commands.
FairSpec ==
  /\ Spec
  /\ WF_vars(Target)
  /\ \A s \in Sessions :
       /\ WF_vars(MsgAnswered(s) \/ MsgIgnores(s))
       /\ SF_vars(SendDelivered(s))
       /\ SF_vars(LoopCommand(TRUE) /\ Head(ring).from = s /\ rep'[s] # rep[s])

-------------------------------------------------------------------------------
(* Properties *)

DoneSet(s) == {done[s][i] : i \in DOMAIN done[s]}

Datagrams == [phase : {0, 1, Isr}, val : (Sessions \cup {Nobody}) \X Nat]
Frames == [from : Sessions \cup {Nobody}, live : BOOLEAN, phase : {0, 1},
           kind : Effects \cup {"read", "leave", "nop", "foreign"}, op : Nat]

TypeOK ==
  /\ at \in [Sessions -> {"off", "sync", "presync", "call", "idle", "leaving",
                     "copy2", "copy3", "wait"}]
  /\ phase \in [Sessions -> {0, 1}] /\ bit \in [Sessions -> {0, 1}]
  /\ kind \in [Sessions -> Effects \cup {"none", "read", "leave"}]
  /\ op \in [Sessions -> Nat] /\ starts \in [Sessions -> 0 .. MaxStarts]
  /\ rep \in [Sessions -> Seq(Datagrams)]
  /\ \A s \in Sessions : Len(rep[s]) <= SockCap
  /\ mode \in {"loop", "guest"} /\ sent \in BOOLEAN /\ still \in BOOLEAN
  /\ conn \in Sessions \cup {Nobody}
  /\ cache \in (Sessions \cup {Nobody}) \X Nat
  /\ ring \in Seq(Frames) /\ Len(ring) <= RingCap
  /\ done \in [Sessions -> Seq(Nat)] /\ skipped \in [Sessions -> SUBSET Nat]
  /\ val \in [Sessions -> (Sessions \cup {Nobody}) \X Nat]
  /\ missed \in BOOLEAN
  /\ entries \in 0 .. MaxEntries /\ reboots \in 0 .. MaxReboots

\* Whatever is lost, repeated or answered late, and wherever a script dies: a
\* call does not return before its command was executed, unless its script is replaced;
\* no command is executed twice, and none after a later one was called.
Calls == INSTANCE Rpc WITH Reads <- {"read"},
                           busy <- [s \in Sessions |-> at[s] = "call"]
ImplementsRpc == Calls!Spec

OwnReply ==
  \A s \in Sessions :
    at[s] = "call" /\ at'[s] = "idle" /\ kind[s] \in {"cached", "read"}
      => val'[s] = <<s, op[s]>>

\* The value a call returns is the one its own execution produced, never the
\* cached answer of an earlier inb or int, nor another session's.
ReplyIsMine == [][OwnReply]_vars

\* Any number of sessions that share the target: the same, execution and value, until
\* ping_pong is cleared for the first time.
NoReset == entries + reboots = 0
ImplementsRpcUntilReset ==
  Calls!Init /\ [][NoReset' => [Calls!Next]_(Calls!vars) /\ OwnReply]_vars

\* Unless the guest runs, msg() gets its answer.
MsgReturns == \A s \in Sessions : InMsg(s) ~> (~InMsg(s) \/ mode = "guest")

\* An announcement that wakes wait_for_isr was caused by the INT 13h that
\* followed this script's own leave, not left over from an earlier one.
NoSpuriousWakeup ==
  [][\A s \in Sessions :
       at[s] = "wait" /\ at'[s] = "sync" /\ starts'[s] = starts[s]
         => mode = "loop" /\ op[s] \in DoneSet(s)]_vars

\* A script waits for an announcement that will not come only if the network
\* lost one or another host's frame redirected it, though a surplus copy of the
\* script's own leave silences the target at its first poll.
NoSilentHang ==
  \A s \in Sessions :
    at[s] = "wait" /\ mode = "loop" /\ op[s] \in DoneSet(s)
      => \/ still /\ (conn = s \/ ~sent)
         \/ missed
         \/ \E i \in DOMAIN rep[s] : rep[s][i].phase = Isr

\* Every time ping_pong is cleared (start() entered again, target rebooted) it
\* costs a session at most one command answered without being executed and one
\* executed twice.
ResetDamage ==
  \A s \in Sessions :
    /\ Cardinality(skipped[s]) <= entries + reboots
    /\ Len(done[s]) - Cardinality(DoneSet(s)) <= entries + reboots
===============================================================================

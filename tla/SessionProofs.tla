----------------------------- MODULE SessionProofs -----------------------------
(***************************************************************************)
(* Proofs about Session, for any number of sessions, commands, frames and  *)
(* datagrams, wherever scripts die and whatever is lost:                   *)
(*  - the types (TypeCorrect);                                             *)
(*  - clearing ping_pong costs a session at most one command ignored or    *)
(*    executed twice (ResetsCostLittle), hence, until it is first cleared, *)
(*    main.c executes each command of monitor.py once between its call and *)
(*    its return (ExactlyOnce), which returns the value of that execution  *)
(*    (RpcUntilReset); for a session alone always (OneScriptExactlyOnce,   *)
(*    OneScriptOwnReplies);                                                *)
(*  - announcements reach the script that waits for them, and no other     *)
(*    (AnnouncementsComeThrough, WokenByItsOwnGuest).                      *)
(*                                                                         *)
(* SessionInv relates, for one session, the script's phase, the target's   *)
(* bit, the session's frames in the receive ring and the answers on their  *)
(* way.  Dead scripts' frames are among them: before its first answer a    *)
(* new script may find frames of both phases, in any order (Ordered,       *)
(* Current); the first answer proves that only one phase is left           *)
(* (LiveLast, Answers), and from then on at most one change of phase is in *)
(* the ring (Alternate).                                                   *)
(*                                                                         *)
(* SessionInv speaks of the bit that would be right and of the commands    *)
(* that are through, not of the target's own: Damage says by how much      *)
(* these differ.  A reset makes the bit wrong and nothing else; the next   *)
(* frame makes it right, at the price of a command ignored or one executed *)
(* again.                                                                  *)
(***************************************************************************)
EXTENDS Session, FiniteSetTheorems, TLAPS

-------------------------------------------------------------------------------
(* The invariant *)

\* The frames of session s in the receive ring.
Mine(s) == {i \in DOMAIN ring : ring[i].from = s}

\* Commands that change the target, and the one a script may be sending right now.
Changes(r) == r.kind \in Effects \cup {"leave"}
Gone == {"copy2", "copy3", "wait"}
Changing(s) ==
  \/ at[s] = "call" /\ kind[s] \in Effects
  \/ at[s] \in Gone /\ kind[s] = "leave"

\* In what follows b is the bit that would be right, and D are the commands for which
\* the bits have been through: the target's bit and the commands executed, unless
\* ping_pong was cleared at a bad moment.

\* Every command that the bit would let through is the script's last one, not through yet.
Current(s, b, D) ==
  \A i \in Mine(s) : Changes(ring[i]) /\ ring[i].phase = b =>
    ring[i].op = op[s] /\ ring[i].kind = kind[s] /\ op[s] \notin D

\* Every other one is through.
Past(s, b, D) ==
  \A i \in Mine(s) : Changes(ring[i]) /\ ring[i].phase # b => ring[i].op \in D

\* Before a command that the bit would let through there is none but itself that it
\* would let through.
Uniform(s, b) ==
  \A i, k \in Mine(s) :
    i < k /\ ring[i].phase = b /\ ring[k].phase = b /\ Changes(ring[k]) => Changes(ring[i])

\* A frame that flips the bit makes no later command executable that is not so
\* already.
Ordered(s, b) ==
  \A i, j, k \in Mine(s) :
    i < j /\ j <= k /\ Changes(ring[k]) /\ ring[i].phase = b => ring[j].phase = b

\* Once the script has had its first answer there are only frames of the phase
\* before, then frames of this phase; the former are gone when this one is through.
Alternate(s, b) == at[s] # "sync" =>
  /\ \A i, j \in Mine(s) : i < j /\ ring[i].phase = b => ring[j].phase = b
  /\ b # phase[s] => \A i \in Mine(s) : ring[i].phase = phase[s]

\* Behind a frame of this socket in this phase there are only such.
LiveLast(s) ==
  \A i, j \in Mine(s) :
    i < j /\ ring[i].live /\ ring[i].phase = phase[s] => ring[j].phase = phase[s]

\* Between two calls the phase of the next one is expected, and no frame has it.
Between(s, b) == at[s] \in {"idle", "leaving"} =>
  b = phase[s] /\ \A i \in Mine(s) : ring[i].phase # phase[s]

\* The frames of this phase are the command msg() repeats, or the copies of the leave.
Repeats(s) == at[s] \in {"call"} \cup Gone =>
  \A i \in Mine(s) : ring[i].phase = phase[s] => ring[i].kind = kind[s] /\ ring[i].op = op[s]

\* An answer with this phase comes after the frame that was answered, and nothing
\* but such answers and announcements can follow it.  A leave has none.
Answers(s, b) ==
  \A i \in DOMAIN rep[s] : rep[s][i].phase = phase[s] =>
    /\ b # phase[s] /\ at[s] \notin Gone
    /\ \A j \in Mine(s) : ring[j].phase = phase[s]
    /\ \A j \in DOMAIN rep[s] : i < j => rep[s][j].phase \in {phase[s], Isr}

\* A command is through when, and only when, the bit has left its phase.
ByTheBit(s, b, D) ==
  /\ Changing(s) => (b = phase[s] <=> op[s] \notin D)
  /\ at[s] \in Gone => kind[s] = "leave"
  /\ \A n \in D : n <= op[s]

SessionInv(s, b, D) ==
  /\ Current(s, b, D) /\ Past(s, b, D) /\ Uniform(s, b) /\ Ordered(s, b)
  /\ Alternate(s, b) /\ LiveLast(s) /\ Between(s, b) /\ Repeats(s)
  /\ Answers(s, b) /\ ByTheBit(s, b, D)

\* One session whose target is not rebooted: its bit is 0 already when ping_pong is cleared.
Alone == MaxReboots = 0 /\ \A s, t \in Sessions : s = t
Clears == IF Alone THEN 0 ELSE entries + reboots

\* The commands that the target ignored although they were new are F.  Clearing ping_pong
\* makes a bit wrong; the next frame makes it right again, and is either ignored
\* though it is new or executed though it is not.
Damage(s, b, F) ==
  /\ SessionInv(s, b, DoneSet(s) \cup F)
  /\ skipped[s] \subseteq F /\ IsFiniteSet(F)
  /\ IsFiniteSet(DoneSet(s)) /\ Cardinality(DoneSet(s)) <= Len(done[s])
  /\ b = 0 => bit[s] = 0
  /\ Cardinality(F) + (Len(done[s]) - Cardinality(DoneSet(s)))
       + (IF b = bit[s] THEN 0 ELSE 1) <= Clears

DamageInv == \A s \in Sessions : \E b \in {0, 1}, F \in SUBSET Nat : Damage(s, b, F)

\* Leaves have phase 1, so that the bit of their session is 0 when they are executed.
LeaveInv ==
  /\ \A i \in DOMAIN ring : ring[i].kind = "leave" => ring[i].phase = 1
  /\ \A s \in Sessions :
       /\ at[s] = "presync" => phase[s] = 0
       /\ at[s] \in {"leaving", "copy2", "copy3"} => phase[s] = 1
  /\ mode = "guest" /\ Alone => \A s \in Sessions : bit[s] = 0

\* Without harm the bits and the commands executed are right.
Synced(s) == SessionInv(s, bit[s], DoneSet(s))
BitInv == Clears = 0 => \A s \in Sessions : Synced(s)

\* inb and int share one static variable: at most one session uses them.
OneCaller == \A s, t \in Sessions : "cached" \in Kinds[s] /\ "cached" \in Kinds[t] => s = t

\* The values on their way are those of the command, and so is what the static
\* variable holds once it is executed.
Values(s) ==
  /\ at[s] = "call" /\ kind[s] = "cached" /\ bit[s] # phase[s] => cache = <<s, op[s]>>
  /\ at[s] = "call" /\ kind[s] \in {"cached", "read"} =>
       \A i \in DOMAIN rep[s] : rep[s][i].phase = phase[s] => rep[s][i].val = <<s, op[s]>>
  /\ kind[s] = "cached" => "cached" \in Kinds[s]
  /\ \A i \in Mine(s) : ring[i].kind = "cached" => "cached" \in Kinds[s]

ValueInv == Clears = 0 => \A s \in Sessions : Values(s)

-------------------------------------------------------------------------------
(* Types *)

\* The types of the variables of monitor.py, and of the others.
ClientTypes ==
  /\ at \in [Sessions -> {"off", "sync", "presync", "call", "idle", "leaving",
                          "copy2", "copy3", "wait"}]
  /\ phase \in [Sessions -> {0, 1}]
  /\ kind \in [Sessions -> Effects \cup {"none", "read", "leave"}]
  /\ op \in [Sessions -> Nat] /\ starts \in [Sessions -> 0 .. MaxStarts]
  /\ \A s \in Sessions : at[s] = "call" => kind[s] \in Effects \cup {"read"}
ServerTypes ==
  /\ mode \in {"loop", "guest"} /\ sent \in BOOLEAN /\ still \in BOOLEAN
  /\ bit \in [Sessions -> {0, 1}]
  /\ conn \in Sessions \cup {Nobody}
  /\ cache \in (Sessions \cup {Nobody}) \X Nat
HistoryTypes ==
  /\ done \in [Sessions -> Seq(Nat)] /\ skipped \in [Sessions -> SUBSET Nat]
  /\ val \in [Sessions -> (Sessions \cup {Nobody}) \X Nat]
  /\ missed \in BOOLEAN
  /\ entries \in 0 .. MaxEntries /\ reboots \in 0 .. MaxReboots
SocketTypes ==
  /\ rep \in [Sessions -> Seq(Datagrams)]
  /\ \A s \in Sessions : Len(rep[s]) <= SockCap
\* A frame that is not foreign comes from a session.
Sane(r) == r.kind = "foreign" \/ r.from \in Sessions
RingTypes ==
  /\ ring \in Seq(Frames) /\ Len(ring) <= RingCap
  /\ \A i \in DOMAIN ring : Sane(ring[i])

Types == ClientTypes /\ ServerTypes /\ HistoryTypes /\ SocketTypes /\ RingTypes

\* The types split by who owns the variables imply TypeOK.
LEMMA TypesAreTypeOK == Types => TypeOK
BY DEF Types, TypeOK, ClientTypes, ServerTypes, HistoryTypes, SocketTypes, RingTypes

\* The next frame fits into the ring.
LEMMA RingAppend ==
  ASSUME RingTypes, Len(ring) < RingCap, NEW r \in Frames, Sane(r), ring' = Append(ring, r)
  PROVE  RingTypes'
<1>1. ring' \in Seq(Frames) /\ Len(ring') = Len(ring) + 1 /\ Len(ring) \in Nat
  BY DEF RingTypes
<1>2. Len(ring') <= RingCap
  BY <1>1, SessionAssumption
<1>3. ASSUME NEW i \in DOMAIN ring' PROVE Sane(ring'[i])
  BY <1>1 DEF RingTypes
<1>. QED
  BY <1>1, <1>2, <1>3 DEF RingTypes, Sane

\* The oldest frame leaves the ring.
LEMMA RingTail ==
  ASSUME RingTypes, ring # << >>, ring' = Tail(ring)
  PROVE  RingTypes'
<1>1. ring' \in Seq(Frames) /\ Len(ring') = Len(ring) - 1 /\ Len(ring) \in Nat
  BY DEF RingTypes
<1>2. Len(ring') <= RingCap
  BY <1>1, SessionAssumption DEF RingTypes
<1>3. ASSUME NEW i \in DOMAIN ring' PROVE Sane(ring'[i])
  BY <1>1 DEF RingTypes
<1>. QED
  BY <1>1, <1>2, <1>3 DEF RingTypes, Sane

\* What the target takes from the ring is a frame.
LEMMA RingHead ==
  ASSUME RingTypes, ring # << >>
  PROVE  Head(ring) \in Frames
BY DEF RingTypes

\* msg() reads the answer and what came after it.
LEMMA SocketSuffix ==
  ASSUME SocketTypes, NEW s \in Sessions, NEW k \in 1 .. Len(rep[s]),
         rep' = [rep EXCEPT ![s] = SubSeq(@, k + 1, Len(@))]
  PROVE  SocketTypes'
<1>1. rep[s] \in Seq(Datagrams) /\ Len(rep[s]) <= SockCap
  BY DEF SocketTypes
<1>2. SubSeq(rep[s], k + 1, Len(rep[s])) \in Seq(Datagrams)
  BY <1>1
<1>3. Len(SubSeq(rep[s], k + 1, Len(rep[s]))) <= SockCap
  BY <1>1, SessionAssumption
<1>. QED
  BY <1>2, <1>3 DEF SocketTypes

\* A script reads one datagram.
LEMMA SocketTail ==
  ASSUME SocketTypes, NEW s \in Sessions, rep[s] # << >>,
         rep' = [rep EXCEPT ![s] = Tail(@)]
  PROVE  SocketTypes'
<1>1. rep[s] \in Seq(Datagrams) /\ Len(rep[s]) <= SockCap
  BY DEF SocketTypes
<1>2. Tail(rep[s]) \in Seq(Datagrams) /\ Len(Tail(rep[s])) <= SockCap
  BY <1>1, SessionAssumption
<1>. QED
  BY <1>2 DEF SocketTypes

\* What a script reads is a datagram.
LEMMA SocketHead ==
  ASSUME SocketTypes, NEW s \in Sessions, rep[s] # << >>
  PROVE  Head(rep[s]) \in Datagrams
BY DEF SocketTypes

\* A datagram reaches a session.
LEMMA SocketAppend ==
  ASSUME SocketTypes, NEW s \in Sessions, NEW m \in Datagrams, Delivered(s, m)
  PROVE  SocketTypes'
<1>1. rep[s] \in Seq(Datagrams) /\ Len(rep[s]) < SockCap
  BY DEF SocketTypes, Delivered
<1>2. Append(rep[s], m) \in Seq(Datagrams) /\ Len(Append(rep[s], m)) <= SockCap
  BY <1>1, SessionAssumption
<1>. QED
  BY <1>2 DEF SocketTypes, Delivered

\* The values nobody produced, and other hosts' frames, have their types.
LEMMA NobodyTypes == /\ NoVal \in (Sessions \cup {Nobody}) \X Nat
                     /\ ForeignFrame \in Frames /\ Sane(ForeignFrame)
BY DEF NoVal, ForeignFrame, Frames, Sane

\* The bounded counters.
LEMMA CounterTypes ==
  /\ \A n \in 0 .. MaxEntries : n < MaxEntries => n + 1 \in 0 .. MaxEntries
  /\ \A n \in 0 .. MaxReboots : n < MaxReboots => n + 1 \in 0 .. MaxReboots
BY SessionAssumption

\* What a script sends.
LEMMA DatagramType ==
  ASSUME ClientTypes, NEW s \in Sessions, NEW n \in Nat,
         NEW k \in Effects \cup {"read", "leave", "nop"}
  PROVE  Datagram(s, k, n) \in Frames /\ Sane(Datagram(s, k, n))
BY DEF Datagram, ClientTypes, Frames, Sane

\* What msg() sends.
LEMMA RequestType ==
  ASSUME ClientTypes, NEW s \in Sessions
  PROVE  Request(s) \in Frames /\ Sane(Request(s))
<1>1. CASE at[s] = "call"
  <2>1. kind[s] \in Effects \cup {"read", "leave", "nop"} /\ op[s] \in Nat
    BY <1>1 DEF ClientTypes
  <2>. QED
    BY <1>1, <2>1, DatagramType DEF Request
<1>2. CASE at[s] # "call"
  BY <1>2, DatagramType DEF Request
<1>. QED
  BY <1>1, <1>2

\* The types hold at first.
LEMMA TypesInit == Init => Types
<1> SUFFICES ASSUME Init PROVE Types
  OBVIOUS
<1>1. ClientTypes
  BY SessionAssumption DEF Init, ClientTypes
<1>2. ServerTypes
  BY NobodyTypes DEF Init, ServerTypes
<1>3. HistoryTypes
  <2>1. << >> \in Seq(Nat) /\ {} \in SUBSET Nat
    OBVIOUS
  <2>2. done \in [Sessions -> Seq(Nat)] /\ skipped \in [Sessions -> SUBSET Nat]
    BY <2>1, Zenon DEF Init
  <2>3. val \in [Sessions -> (Sessions \cup {Nobody}) \X Nat]
    BY NobodyTypes, Zenon DEF Init
  <2>4. /\ missed \in BOOLEAN
        /\ entries \in 0 .. MaxEntries /\ reboots \in 0 .. MaxReboots
    <3>1. MaxEntries \in Nat /\ MaxReboots \in Nat
      BY SessionAssumption
    <3>2. missed = FALSE /\ entries = 0 /\ reboots = 0
      BY DEF Init
    <3>3. missed \in BOOLEAN
      BY <3>2
    <3>4. entries \in 0 .. MaxEntries /\ reboots \in 0 .. MaxReboots
      BY <3>1, <3>2
    <3>. QED
      BY <3>3, <3>4
  <2>. QED
    BY <2>2, <2>3, <2>4 DEF HistoryTypes
<1>4. SocketTypes /\ RingTypes
  BY SessionAssumption DEF Init, SocketTypes, RingTypes
<1>. QED
  BY <1>1, <1>2, <1>3, <1>4 DEF Types

\* The order of the three copies.
LEMMA CopyOrder ==
  /\ DOMAIN NextCopy = {"leaving", "copy2", "copy3"}
  /\ NextCopy["leaving"] = "copy2" /\ NextCopy["copy2"] = "copy3"
  /\ NextCopy["copy3"] = "wait"
BY DEF NextCopy

\* No step of a script breaks the types.
LEMMA ClientKeepsTypes ==
  ASSUME Types, NEW s \in Sessions, Start(s) \/ Script(s)
  PROVE  Types'
<1> USE DEF Types
<1>1. CASE Start(s)
  <2>1. ClientTypes'
    BY <1>1, SessionAssumption DEF Start, ClientTypes
  <2>2. ServerTypes'
    BY <1>1 DEF Start, ServerTypes
  <2>3. HistoryTypes'
    BY <1>1 DEF Start, HistoryTypes, history
  <2>4. SocketTypes'
    <3>1. rep' = [rep EXCEPT ![s] = << >>]
      BY <1>1 DEF Start
    <3>. QED
      BY <3>1, SessionAssumption DEF SocketTypes
  <2>5. RingTypes'
    <3>1. ring' = [i \in DOMAIN ring |->
                     IF ring[i].from = s THEN [ring[i] EXCEPT !.live = FALSE] ELSE ring[i]]
      BY <1>1 DEF Start
    <3>2. \A i \in DOMAIN ring : ring[i] \in Frames
      BY DEF RingTypes
    <3>3. \A r \in Frames : [r EXCEPT !.live = FALSE] \in Frames
      BY DEF Frames
    <3>4. ring' \in [1 .. Len(ring) -> Frames]
      BY <3>1, <3>2, <3>3 DEF RingTypes
    <3>5. Len(ring) \in Nat
      BY DEF RingTypes
    <3>6. ring' \in Seq(Frames) /\ Len(ring') = Len(ring)
      BY <3>4, <3>5
    <3>7. ASSUME NEW i \in DOMAIN ring PROVE Sane(ring'[i])
      <4>1. ring'[i].kind = ring[i].kind /\ ring'[i].from = ring[i].from
        BY <3>1, <3>2 DEF Frames
      <4>. QED
        BY <4>1 DEF RingTypes, Sane
    <3>. QED
      BY <3>4, <3>6, <3>7 DEF RingTypes, Sane
  <2>. QED
    BY <2>1, <2>2, <2>3, <2>4, <2>5
<1>2. CASE Call(s)
  <2>1. ClientTypes'
    <3>1. PICK k \in Kinds[s] : kind' = [kind EXCEPT ![s] = k]
      BY <1>2 DEF Call
    <3>2. k \in Effects \cup {"read"}
      BY SessionAssumption DEF Effects
    <3>3. /\ at' = [at EXCEPT ![s] = "call"] /\ op' = [op EXCEPT ![s] = @ + 1]
          /\ UNCHANGED <<phase, starts>>
      BY <1>2 DEF Call
    <3>. QED
      BY <3>1, <3>2, <3>3 DEF ClientTypes
  <2>2. ServerTypes' /\ HistoryTypes' /\ SocketTypes' /\ RingTypes'
    BY <1>2 DEF Call, ServerTypes, HistoryTypes, SocketTypes, RingTypes, server, history
  <2>. QED
    BY <2>1, <2>2
<1>3. CASE SendDelivered(s)
  <2>1. Request(s) \in Frames /\ Sane(Request(s))
    BY RequestType
  <2>2. RingTypes'
    BY <1>3, <2>1, RingAppend DEF SendDelivered
  <2>3. ClientTypes' /\ ServerTypes' /\ HistoryTypes' /\ SocketTypes'
    BY <1>3 DEF SendDelivered, ClientTypes, ServerTypes, HistoryTypes, SocketTypes,
                client, server, history
  <2>. QED
    BY <2>2, <2>3
<1>4. CASE MsgAnswered(s)
  <2>1. ClientTypes'
    <3>1. phase' \in [Sessions -> {0, 1}]
      <4>1. phase' = [phase EXCEPT ![s] = 1 - phase[s]] /\ phase[s] \in {0, 1}
        BY <1>4 DEF MsgAnswered, Flipped, ClientTypes
      <4>. QED
        BY <4>1 DEF ClientTypes
    <3>2. /\ at' = [at EXCEPT ![s] = IF @ = "presync" THEN "leaving" ELSE "idle"]
          /\ UNCHANGED <<kind, op, starts>>
      BY <1>4 DEF MsgAnswered, Returned
    <3>. QED
      BY <3>1, <3>2 DEF ClientTypes
  <2>2. ServerTypes' /\ RingTypes'
    BY <1>4 DEF MsgAnswered, ServerTypes, RingTypes, server
  <2>3. SocketTypes'
    BY <1>4, SocketSuffix DEF MsgAnswered
  <2>4. HistoryTypes'
    <3>1. Head(rep[s]).val \in (Sessions \cup {Nobody}) \X Nat
      BY <1>4, SocketHead DEF MsgAnswered, Datagrams
    <3>2. val' \in [Sessions -> (Sessions \cup {Nobody}) \X Nat]
      BY <1>4, <3>1 DEF MsgAnswered, Returned, HistoryTypes
    <3>3. skipped' \in [Sessions -> SUBSET Nat]
      <4>1. op[s] \in Nat
        BY DEF ClientTypes
      <4>2. skipped[s] \cup {op[s]} \in SUBSET Nat
        BY <4>1 DEF HistoryTypes
      <4>3. \/ skipped' = skipped
            \/ skipped' = [skipped EXCEPT ![s] = @]
            \/ skipped' = [skipped EXCEPT ![s] = @ \cup {op[s]}]
        BY <1>4 DEF MsgAnswered, Returned
      <4>. QED
        BY <4>2, <4>3 DEF HistoryTypes
    <3>. QED
      BY <1>4, <3>2, <3>3 DEF MsgAnswered, HistoryTypes
  <2>. QED
    BY <2>1, <2>2, <2>3, <2>4
<1>5. CASE MsgIgnores(s)
  <2>1. SocketTypes'
    BY <1>5, SocketTail DEF MsgIgnores
  <2>2. ClientTypes' /\ ServerTypes' /\ HistoryTypes' /\ RingTypes'
    BY <1>5 DEF MsgIgnores, ClientTypes, ServerTypes, HistoryTypes, RingTypes,
                client, server, history
  <2>. QED
    BY <2>1, <2>2
<1>6. CASE BeginLeave(s)
  <2>1. ClientTypes'
    BY <1>6 DEF BeginLeave, ClientTypes
  <2>2. ServerTypes' /\ HistoryTypes' /\ SocketTypes' /\ RingTypes'
    BY <1>6 DEF BeginLeave, ServerTypes, HistoryTypes, SocketTypes, RingTypes, server, history
  <2>. QED
    BY <2>1, <2>2
<1>7. CASE SendLeave(s)
  <2>1. ClientTypes'
    <3>1. at[s] \in {"leaving", "copy2", "copy3"} /\ at' = [at EXCEPT ![s] = NextCopy[@]]
          /\ NextCopy[at[s]] \in {"copy2", "copy3", "wait"}
      BY <1>7, CopyOrder DEF SendLeave
    <3>2. /\ kind' = kind \/ kind' = [kind EXCEPT ![s] = "leave"]
          /\ op' = op \/ op' = [op EXCEPT ![s] = @ + 1]
          /\ UNCHANGED <<phase, starts>>
      BY <1>7 DEF SendLeave
    <3>. QED
      BY <3>1, <3>2 DEF ClientTypes
  <2>2. ServerTypes' /\ HistoryTypes' /\ SocketTypes'
    BY <1>7 DEF SendLeave, ServerTypes, HistoryTypes, SocketTypes, server, history
  <2>3. RingTypes'
    <3>1. op'[s] \in Nat
      BY <2>1 DEF ClientTypes
    <3>2. Datagram(s, "leave", op'[s]) \in Frames /\ Sane(Datagram(s, "leave", op'[s]))
      BY <3>1, DatagramType
    <3>3. CASE UNCHANGED ring
      BY <3>3 DEF RingTypes
    <3>4. CASE Len(ring) < RingCap /\ ring' = Append(ring, Datagram(s, "leave", op'[s]))
      BY <3>2, <3>4, RingAppend
    <3>. QED
      BY <1>7, <3>3, <3>4 DEF SendLeave
  <2>. QED
    BY <2>1, <2>2, <2>3
<1>8. CASE WaitReceives(s)
  <2>1. ClientTypes'
    BY <1>8 DEF WaitReceives, ClientTypes
  <2>2. SocketTypes'
    BY <1>8, SocketTail DEF WaitReceives
  <2>3. ServerTypes' /\ HistoryTypes' /\ RingTypes'
    BY <1>8 DEF WaitReceives, ServerTypes, HistoryTypes, RingTypes, server, history
  <2>. QED
    BY <2>1, <2>2, <2>3
<1>. QED
  BY <1>1, <1>2, <1>3, <1>4, <1>5, <1>6, <1>7, <1>8 DEF Script

\* No step of the target, the guest or the network breaks the types.
LEMMA TargetKeepsTypes ==
  ASSUME Types, Target \/ GuestInt13 \/ Reboot \/ NetForeign
  PROVE  Types'
<1> USE DEF Types
<1>1. CASE LoopTop
  <2>1. ClientTypes' /\ ServerTypes' /\ RingTypes'
    BY <1>1 DEF LoopTop, ClientTypes, ServerTypes, RingTypes, client
  <2>2. HistoryTypes'
    BY <1>1 DEF LoopTop, HistoryTypes
  <2>3. SocketTypes'
    <3>1. CASE conn # Nobody /\ Delivered(conn, [phase |-> Isr, val |-> NoVal])
      <4>1. conn \in Sessions
        BY <3>1 DEF ServerTypes
      <4>2. [phase |-> Isr, val |-> NoVal] \in Datagrams
        BY NobodyTypes DEF Datagrams
      <4>. QED
        BY <3>1, <4>1, <4>2, SocketAppend
    <3>2. CASE Lost
      BY <3>2 DEF Lost, SocketTypes
    <3>. QED
      BY <1>1, <3>1, <3>2 DEF LoopTop
  <2>. QED
    BY <2>1, <2>2, <2>3
<1>2. CASE LoopNoPacket
  BY <1>2 DEF LoopNoPacket, ClientTypes, ServerTypes, HistoryTypes, SocketTypes, RingTypes,
              client, history
<1>3. CASE LoopForeign
  <2>1. RingTypes'
    BY <1>3, RingTail DEF LoopForeign
  <2>. QED
    BY <1>3, <2>1 DEF LoopForeign, ClientTypes, ServerTypes, HistoryTypes, SocketTypes,
                      client, history
<1>4. ASSUME NEW d \in BOOLEAN, LoopCommand(d) PROVE Types'
  <2> DEFINE r == Head(ring)
  <2>1. r \in Frames /\ r.kind # "foreign" /\ r.from \in Sessions
    BY <1>4, RingHead DEF LoopCommand, RingTypes, Sane
  <2>. HIDE DEF r
  <2>2. ServerTypes'
    <3>1. bit' \in [Sessions -> {0, 1}]
      <4>1. bit' = bit \/ bit' = [bit EXCEPT ![r.from] = 1 - @]
        BY <1>4 DEF LoopCommand, Toggle, r
      <4>2. \A b \in {0, 1} : 1 - b \in {0, 1}
        OBVIOUS
      <4>. QED
        BY <2>1, <4>1, <4>2 DEF ServerTypes
    <3>2. cache' \in (Sessions \cup {Nobody}) \X Nat
      <4>1. cache' = cache \/ cache' = <<r.from, r.op>>
        BY <1>4 DEF LoopCommand, r
      <4>. QED
        BY <2>1, <4>1 DEF ServerTypes, Frames
    <3>3. conn' \in Sessions \cup {Nobody} /\ mode' \in {"loop", "guest"}
      BY <1>4, <2>1 DEF LoopCommand, r
    <3>. QED
      BY <1>4, <3>1, <3>2, <3>3 DEF LoopCommand, ServerTypes
  <2>3. HistoryTypes'
    <3>1. done' \in [Sessions -> Seq(Nat)]
      <4>1. done' = done \/ done' = [done EXCEPT ![r.from] = Append(@, r.op)]
        BY <1>4 DEF LoopCommand, r
      <4>2. Append(done[r.from], r.op) \in Seq(Nat)
        BY <2>1 DEF HistoryTypes, Frames
      <4>. QED
        BY <4>1, <4>2 DEF HistoryTypes
    <3>. QED
      BY <1>4, <3>1 DEF LoopCommand, HistoryTypes
  <2>4. SocketTypes'
    <3>1. CASE Lost
      BY <3>1 DEF Lost, SocketTypes
    <3>2. CASE Delivered(r.from, Answer(r))
      <4>1. Answer(r) \in Datagrams
        <5>1. cache' \in (Sessions \cup {Nobody}) \X Nat
          BY <2>2 DEF ServerTypes
        <5>2. <<r.from, r.op>> \in (Sessions \cup {Nobody}) \X Nat /\ r.phase \in {0, 1, Isr}
          BY <2>1 DEF Frames
        <5>. QED
          BY <5>1, <5>2, NobodyTypes DEF Answer, Datagrams
      <4>. QED
        BY <2>1, <3>2, <4>1, SocketAppend
    <3>. QED
      BY <1>4, <3>1, <3>2 DEF LoopCommand, r
  <2>5. RingTypes'
    BY <1>4, RingTail DEF LoopCommand
  <2>6. ClientTypes'
    BY <1>4 DEF LoopCommand, client, ClientTypes
  <2>. QED
    BY <2>2, <2>3, <2>4, <2>5, <2>6
<1>5. CASE GuestInt13
  <2>1. ServerTypes'
    BY <1>5 DEF GuestInt13, ServerTypes
  <2>2. HistoryTypes'
    BY <1>5, CounterTypes DEF GuestInt13, HistoryTypes
  <2>. QED
    BY <1>5, <2>1, <2>2 DEF GuestInt13, ClientTypes, SocketTypes, RingTypes, client
<1>6. CASE Reboot
  <2>1. ServerTypes'
    BY <1>6, NobodyTypes DEF Reboot, ServerTypes
  <2>2. HistoryTypes'
    BY <1>6, CounterTypes DEF Reboot, HistoryTypes
  <2>3. RingTypes'
    BY <1>6, SessionAssumption DEF Reboot, RingTypes
  <2>. QED
    BY <1>6, <2>1, <2>2, <2>3 DEF Reboot, ClientTypes, SocketTypes, client
<1>7. CASE NetForeign
  <2>1. RingTypes'
    BY <1>7, RingAppend, NobodyTypes DEF NetForeign
  <2>. QED
    BY <1>7, <2>1 DEF NetForeign, ClientTypes, ServerTypes, HistoryTypes, SocketTypes,
                      client, server, history
<1>. QED
  BY <1>1, <1>2, <1>3, <1>4, <1>5, <1>6, <1>7 DEF Target

\* No step breaks the types.
LEMMA TypesKept == Types /\ [Next]_vars => Types'
<1> SUFFICES ASSUME Types, [Next]_vars PROVE Types'
  OBVIOUS
<1>1. CASE UNCHANGED vars
  BY <1>1 DEF vars, client, server, history, Types,
              ClientTypes, ServerTypes, HistoryTypes, SocketTypes, RingTypes
<1>2. CASE Next
  BY <1>2, ClientKeepsTypes, TargetKeepsTypes DEF Next
<1>. QED
  BY <1>1, <1>2

\* The types, and that what waits in the ring comes from a session or is foreign.
LEMMA TypesCorrect == Spec => []Types
BY TypesInit, TypesKept, PTL DEF Spec

\* The variables keep their types: no socket and no receive ring overflows, the phase
\* of every monitor object and its bit of ping_pong stay 0 or 1 through every flip of
\* msg() and of the loop, and the reboots and INT 13h calls stay within their bounds.
THEOREM TypeCorrect == Spec => []TypeOK
BY TypesCorrect, TypesAreTypeOK, PTL

\* The indices of a sequence are positive.
LEMMA MineInRing ==
  ASSUME Types, NEW s \in Sessions
  PROVE  \A i \in Mine(s) : i \in Nat /\ i >= 1 /\ i <= Len(ring) /\ ring[i] \in Frames
                            /\ ring[i].phase \in {0, 1}
<1>1. ring \in Seq(Frames)
  BY DEF Types, RingTypes
<1>2. \A i \in Mine(s) : i \in Nat /\ i >= 1 /\ i <= Len(ring) /\ ring[i] \in Frames
  BY <1>1 DEF Mine
<1>3. \A r \in Frames : r.phase \in {0, 1}
  BY DEF Frames
<1>. QED
  BY <1>2, <1>3

\* Commands are numbered.
LEMMA DoneIsNat ==
  ASSUME Types, NEW s \in Sessions
  PROVE  \A n \in DoneSet(s) : n \in Nat
<1>1. done[s] \in Seq(Nat)
  BY DEF Types, HistoryTypes
<1>. QED
  BY <1>1 DEF DoneSet

\* What is left of a session's frames when a frame is appended or taken.
OneMore(s, n, r) ==
  \A i \in Mine(s)' :
    /\ i \in Nat
    /\ \/ i \in Mine(s) /\ i < n /\ ring'[i] = ring[i]
       \/ i = n /\ ring'[i] = r

\* A frame appended to the ring is at most one more of session s.
LEMMA MineAppended ==
  ASSUME Types, NEW s \in Sessions, NEW r \in Frames, ring' = Append(ring, r)
  PROVE  \E n \in Nat : OneMore(s, n, r) /\ (r.from # s => n \notin Mine(s)')
<1> DEFINE n == Len(ring) + 1
<1>1. ring \in Seq(Frames)
  BY DEF Types, RingTypes
<1>2. n \in Nat
  BY <1>1
<1>3. ASSUME NEW i \in Mine(s)'
      PROVE  /\ i \in Nat
             /\ \/ i \in Mine(s) /\ i < n /\ ring'[i] = ring[i]
                \/ i = n /\ ring'[i] = r
  BY <1>1 DEF Mine
<1>4. r.from # s => n \notin Mine(s)'
  BY <1>1 DEF Mine
<1>. HIDE DEF n
<1>. QED
  BY <1>2, <1>3, <1>4 DEF OneMore

\* The frames of s move up when the first frame is taken.
LEMMA MineTaken ==
  ASSUME Types, NEW s \in Sessions, ring # << >>, ring' = Tail(ring)
  PROVE  /\ \A i \in Mine(s)' : i \in Nat /\ i >= 1 /\ i + 1 \in Mine(s) /\ ring'[i] = ring[i + 1]
         /\ Head(ring).from = s => 1 \in Mine(s)
         /\ Head(ring) = ring[1]
<1>1. ring \in Seq(Frames)
  BY DEF Types, RingTypes
<1>. QED
  BY <1>1 DEF Mine

-------------------------------------------------------------------------------
(* Sessions a step is not about *)

\* Nothing of session t changes but that its frames move up in the ring, and that it
\* may get announcements.
Stays(t, d) ==
  /\ \A i \in Mine(t)' : i \in Nat /\ i + d \in Mine(t) /\ ring'[i] = ring[i + d]
  /\ \A i \in DOMAIN rep'[t] :
       rep'[t][i].phase = Isr \/ (i \in DOMAIN rep[t] /\ rep'[t][i] = rep[t][i])
  /\ at'[t] = at[t] /\ phase'[t] = phase[t] /\ kind'[t] = kind[t] /\ op'[t] = op[t]

\* Then what is known of it stays true.
LEMMA OthersKeep ==
  ASSUME Types, NEW t \in Sessions, NEW b, NEW D, SessionInv(t, b, D),
         NEW d \in Nat, Stays(t, d)
  PROVE  SessionInv(t, b, D)'
<1> USE DEF SessionInv, Stays
<1>1. Current(t, b, D)' /\ Past(t, b, D)'
  BY DEF Current, Past, Changes
<1>2. Ordered(t, b)' /\ Uniform(t, b)'
  BY DEF Ordered, Uniform, Changes
<1>3. Alternate(t, b)'
  BY DEF Alternate
<1>4. LiveLast(t)'
  BY DEF LiveLast
<1>5. Between(t, b)' /\ Repeats(t)'
  BY DEF Between, Repeats
<1>6. Answers(t, b)'
  <2>1. phase[t] # Isr
    BY DEF Types, ClientTypes, Isr
  <2>. QED
    BY <2>1 DEF Answers
<1>7. ByTheBit(t, b, D)'
  BY DEF ByTheBit, Changing
<1>. QED
  BY <1>1, <1>2, <1>3, <1>4, <1>5, <1>6, <1>7

-------------------------------------------------------------------------------
(* Steps of a script *)

\* msg() got its answer: only frames of the old phase are left, and the bits agree.
LEMMA AnsweredKeeps ==
  ASSUME Types, NEW s \in Sessions, NEW b \in {0, 1}, NEW D \in SUBSET Nat,
         SessionInv(s, b, D), MsgAnswered(s)
  PROVE  SessionInv(s, b, D)'
<1>1. rep[s] \in Seq(Datagrams) /\ rep[s] # << >> /\ Head(rep[s]) = rep[s][1]
  BY DEF Types, SocketTypes, MsgAnswered
<1>2. 1 \in DOMAIN rep[s] /\ rep[s][1].phase = phase[s]
  BY <1>1 DEF MsgAnswered
<1>3. /\ b # phase[s]
      /\ \A i \in Mine(s) : ring[i].phase = phase[s]
      /\ \A i \in DOMAIN rep[s] : rep[s][i].phase \in {phase[s], Isr}
  <2>1. \A i \in DOMAIN rep[s] : i = 1 \/ 1 < i
    BY <1>1
  <2>. QED
    BY <1>2, <2>1 DEF SessionInv, Answers
<1>4. phase'[s] = b /\ phase'[s] # phase[s] /\ phase'[s] # Isr
  <2>1. phase' = [phase EXCEPT ![s] = 1 - phase[s]]
    BY DEF MsgAnswered, Flipped
  <2>2. phase \in [Sessions -> {0, 1}]
    BY DEF Types, ClientTypes
  <2>3. phase'[s] = 1 - phase[s] /\ phase[s] \in {0, 1}
    BY <2>1, <2>2
  <2>. QED
    BY <1>3, <2>3 DEF Isr
<1>5. at'[s] \in {"idle", "leaving"}
  BY DEF MsgAnswered, Returned, Types, ClientTypes
<1>6. UNCHANGED <<kind, op, ring>> /\ Mine(s)' = Mine(s)
  BY DEF MsgAnswered, Mine
<1>7. \A i \in DOMAIN rep'[s] : rep'[s][i].phase \in {phase[s], Isr}
  <2>1. PICK k \in 1 .. Len(rep[s]) : rep' = [rep EXCEPT ![s] = SubSeq(@, k + 1, Len(@))]
    BY DEF MsgAnswered
  <2>2. rep'[s] = SubSeq(rep[s], k + 1, Len(rep[s]))
    BY <2>1 DEF Types, SocketTypes
  <2>3. \A i \in DOMAIN rep'[s] : k + i \in DOMAIN rep[s] /\ rep'[s][i] = rep[s][k + i]
    BY <1>1, <2>2
  <2>. QED
    BY <1>3, <2>3
<1> USE DEF SessionInv
<1>8. Current(s, b, D)' /\ Past(s, b, D)'
  BY <1>6 DEF Current, Past, Changes
<1>9. Ordered(s, b)' /\ Uniform(s, b)'
  BY <1>6 DEF Ordered, Uniform, Changes
<1>10. Alternate(s, b)' /\ LiveLast(s)' /\ Between(s, b)' /\ Repeats(s)'
  BY <1>3, <1>4, <1>5, <1>6 DEF Alternate, LiveLast, Between, Repeats, Gone
<1>11. Answers(s, b)'
  BY <1>4, <1>7 DEF Answers
<1>12. ByTheBit(s, b, D)'
  BY <1>5, <1>6 DEF ByTheBit, Changing, Gone
<1>. QED
  BY <1>8, <1>9, <1>10, <1>11, <1>12

\* Dropping the oldest answer, or waking up from it.
LEMMA DropKeeps ==
  ASSUME Types, NEW s \in Sessions, NEW b \in {0, 1}, NEW D \in SUBSET Nat,
         SessionInv(s, b, D), rep[s] # << >>,
         rep' = [rep EXCEPT ![s] = Tail(@)],
         at'[s] \in {at[s], "sync"}, UNCHANGED <<phase, kind, op, ring>>
  PROVE  SessionInv(s, b, D)'
<1>1. rep[s] \in Seq(Datagrams) /\ rep'[s] = Tail(rep[s])
  BY DEF Types, SocketTypes
<1>2. \A i \in DOMAIN rep'[s] : i \in Nat /\ i + 1 \in DOMAIN rep[s] /\ rep'[s][i] = rep[s][i + 1]
  <2>. DEFINE q == rep[s]
  <2>1. q \in Seq(Datagrams) /\ q # << >>
    BY <1>1
  <2>. HIDE DEF q
  <2>2. \A i \in DOMAIN Tail(q) : i \in Nat /\ i + 1 \in DOMAIN q /\ Tail(q)[i] = q[i + 1]
    BY <2>1
  <2>. QED
    BY <1>1, <2>2 DEF q
<1>3. Mine(s)' = Mine(s)
  BY DEF Mine
<1> USE DEF SessionInv
<1>4. Answers(s, b)'
  BY <1>2, <1>3 DEF Answers, Gone
<1>5. Current(s, b, D)' /\ Past(s, b, D)'
  BY <1>3 DEF Current, Past, Changes
<1>6. Ordered(s, b)' /\ Uniform(s, b)' /\ Alternate(s, b)' /\ LiveLast(s)'
  BY <1>3 DEF Ordered, Uniform, Alternate, LiveLast, Changes
<1>7. Between(s, b)' /\ Repeats(s)'
  BY <1>3 DEF Between, Repeats, Gone
<1>8. ByTheBit(s, b, D)'
  BY DEF ByTheBit, Changing, Gone
<1>. QED
  BY <1>4, <1>5, <1>6, <1>7, <1>8

\* wait_for_isr gets an announcement, or a late answer.
LEMMA WaitKeeps ==
  ASSUME Types, NEW s \in Sessions, NEW b \in {0, 1}, NEW D \in SUBSET Nat,
         SessionInv(s, b, D), WaitReceives(s)
  PROVE  SessionInv(s, b, D)'
<1>1. at'[s] \in {at[s], "sync"}
  BY DEF WaitReceives, Types, ClientTypes
<1>. QED
  BY <1>1, DropKeeps DEF WaitReceives

\* A new command gets a phase no frame and no answer has.
LEMMA CallKeeps ==
  ASSUME Types, NEW s \in Sessions, NEW b \in {0, 1}, NEW D \in SUBSET Nat,
         SessionInv(s, b, D), Call(s)
  PROVE  SessionInv(s, b, D)'
<1>1. /\ at[s] = "idle" /\ at'[s] = "call" /\ op'[s] = op[s] + 1
      /\ UNCHANGED <<phase, rep, ring>> /\ op[s] \in Nat
  BY DEF Call, Types, ClientTypes
<1>2. Mine(s)' = Mine(s)
  BY <1>1 DEF Mine
<1>3. b = phase[s] /\ \A i \in Mine(s) : ring[i].phase # phase[s]
  BY <1>1 DEF SessionInv, Between
<1>4. op'[s] \notin D /\ \A n \in D : n <= op'[s]
  <2>1. \A n \in D : n \in Nat /\ n <= op[s]
    BY DEF SessionInv, ByTheBit
  <2>. QED
    BY <1>1, <2>1
<1> USE DEF SessionInv
<1>5. Current(s, b, D)' /\ Past(s, b, D)'
  BY <1>1, <1>2, <1>3 DEF Current, Past, Changes
<1>6. Ordered(s, b)' /\ Uniform(s, b)' /\ Alternate(s, b)' /\ LiveLast(s)'
  BY <1>1, <1>2, <1>3 DEF Ordered, Uniform, Alternate, LiveLast, Changes
<1>7. Between(s, b)' /\ Repeats(s)' /\ Answers(s, b)'
  BY <1>1, <1>2, <1>3 DEF Between, Repeats, Answers, Gone
<1>8. ByTheBit(s, b, D)'
  BY <1>1, <1>3, <1>4 DEF ByTheBit, Gone
<1>. QED
  BY <1>5, <1>6, <1>7, <1>8

\* About to leave: nothing is sent yet.
LEMMA BeginLeaveKeeps ==
  ASSUME Types, NEW s \in Sessions, NEW b \in {0, 1}, NEW D \in SUBSET Nat,
         SessionInv(s, b, D), BeginLeave(s)
  PROVE  SessionInv(s, b, D)'
<1>1. /\ at[s] = "idle" /\ at'[s] \in {"presync", "leaving"}
      /\ UNCHANGED <<phase, kind, op, rep, ring>>
  BY DEF BeginLeave, Types, ClientTypes
<1>2. Mine(s)' = Mine(s)
  BY <1>1 DEF Mine
<1> USE DEF SessionInv
<1>3. Current(s, b, D)' /\ Past(s, b, D)'
  BY <1>1, <1>2 DEF Current, Past, Changes
<1>4. Ordered(s, b)' /\ Uniform(s, b)' /\ Alternate(s, b)' /\ LiveLast(s)'
  BY <1>1, <1>2 DEF Ordered, Uniform, Alternate, LiveLast, Changes
<1>5. Between(s, b)' /\ Repeats(s)' /\ Answers(s, b)' /\ ByTheBit(s, b, D)'
  BY <1>1, <1>2 DEF Between, Repeats, Answers, ByTheBit, Changing, Gone
<1>. QED
  BY <1>3, <1>4, <1>5

\* A new script: the dead one's frames stay in the ring, not live.
LEMMA StartKeeps ==
  ASSUME Types, NEW s \in Sessions, NEW b \in {0, 1}, NEW D \in SUBSET Nat,
         SessionInv(s, b, D), Start(s)
  PROVE  SessionInv(s, b, D)'
<1>1. /\ at'[s] = "sync" /\ rep'[s] = << >>
      /\ UNCHANGED <<kind, op>>
  BY DEF Start, Types, ClientTypes, SocketTypes
<1>2. /\ Mine(s)' = Mine(s)
      /\ \A i \in Mine(s) : /\ ring'[i].phase = ring[i].phase /\ ring'[i].kind = ring[i].kind
                            /\ ring'[i].op = ring[i].op /\ ~ring'[i].live
  <2>1. ring \in Seq(Frames)
    BY DEF Types, RingTypes
  <2>2. ring' = [i \in DOMAIN ring |->
                   IF ring[i].from = s THEN [ring[i] EXCEPT !.live = FALSE] ELSE ring[i]]
    BY DEF Start
  <2>3. \A i \in DOMAIN ring : ring[i] \in Frames
    BY <2>1
  <2>. QED
    BY <2>2, <2>3 DEF Mine, Frames
<1> USE DEF SessionInv
<1>3. Current(s, b, D)' /\ Past(s, b, D)'
  BY <1>1, <1>2 DEF Current, Past, Changes
<1>4. Ordered(s, b)' /\ Uniform(s, b)'
  BY <1>1, <1>2 DEF Ordered, Uniform, Changes
<1>5. Alternate(s, b)' /\ LiveLast(s)' /\ Between(s, b)' /\ Repeats(s)'
  BY <1>1, <1>2 DEF Alternate, LiveLast, Between, Repeats, Gone
<1>6. Answers(s, b)'
  BY <1>1 DEF Answers
<1>7. ByTheBit(s, b, D)'
  BY <1>1 DEF ByTheBit, Changing, Gone
<1>. QED
  BY <1>3, <1>4, <1>5, <1>6, <1>7

\* A frame of this phase is added: the command msg() repeats, or another copy of
\* the leave.
LEMMA SendKeeps ==
  ASSUME Types, NEW s \in Sessions, NEW b \in {0, 1}, NEW D \in SUBSET Nat,
         SessionInv(s, b, D), NEW r, NEW n \in Nat,
         OneMore(s, n, r), r.phase = phase[s],
         at[s] \in {"sync", "presync", "call", "copy2", "copy3"},
         at[s] \in {"sync", "presync"} => ~Changes(r),
         at[s] \in {"call", "copy2", "copy3"} =>
           /\ r.kind = kind[s] /\ r.op = op[s]
           /\ Changes(r) => Changing(s),
         at'[s] \in {at[s], "copy3", "wait"}, at'[s] # at[s] => at[s] \in {"copy2", "copy3"},
         UNCHANGED <<phase, kind, op, rep>>
  PROVE  SessionInv(s, b, D)'
<1> DEFINE New(i) == i = n /\ ring'[i] = r
           Old(i) == i \in Mine(s) /\ i < n /\ ring'[i] = ring[i]
<1>1. \A i \in Mine(s)' : i \in Nat /\ (Old(i) \/ New(i))
  BY DEF OneMore
<1> USE DEF SessionInv
<1>2. Changes(r) => /\ at[s] \in {"call", "copy2", "copy3"} /\ at[s] # "sync"
                    /\ r.kind = kind[s] /\ r.op = op[s] /\ Changing(s)
  OBVIOUS
<1>3. Current(s, b, D)'
  <2> SUFFICES ASSUME NEW i \in Mine(s)', Changes(ring'[i]), ring'[i].phase = b
               PROVE  ring'[i].op = op[s] /\ ring'[i].kind = kind[s] /\ op[s] \notin D
    BY DEF Current, Changes
  <2>1. CASE Old(i)
    BY <2>1 DEF Current
  <2>2. CASE New(i)
    BY <1>2, <2>2 DEF ByTheBit
  <2>. QED
    BY <1>1, <2>1, <2>2
<1>4. Past(s, b, D)'
  <2> SUFFICES ASSUME NEW i \in Mine(s)', Changes(ring'[i]), ring'[i].phase # b
               PROVE  ring'[i].op \in D
    BY DEF Past, Changes
  <2>1. CASE Old(i)
    BY <2>1 DEF Past
  <2>2. CASE New(i)
    BY <1>2, <2>2 DEF ByTheBit
  <2>. QED
    BY <1>1, <2>1, <2>2
<1>5. Uniform(s, b)'
  <2> SUFFICES ASSUME NEW i \in Mine(s)', NEW k \in Mine(s)', i < k, Changes(ring'[k]),
                      ring'[i].phase = b, ring'[k].phase = b
               PROVE  Changes(ring'[i])
    BY DEF Uniform, Changes
  <2>1. Old(i)
    BY <1>1
  <2>2. CASE Old(k)
    BY <2>1, <2>2 DEF Uniform
  <2>3. CASE New(k)
    <3>1. ring[i].kind = kind[s] /\ r.kind = kind[s]
      BY <1>2, <2>1, <2>3 DEF Repeats, Gone
    <3>. QED
      BY <2>1, <2>3, <3>1 DEF Changes
  <2>. QED
    BY <1>1, <2>2, <2>3
<1>6. Ordered(s, b)'
  <2> SUFFICES ASSUME NEW i \in Mine(s)', NEW j \in Mine(s)', NEW k \in Mine(s)',
                      i < j, j <= k, Changes(ring'[k]), ring'[i].phase = b
               PROVE  ring'[j].phase = b
    BY DEF Ordered, Changes
  <2>1. Old(i)
    BY <1>1
  <2>2. CASE Old(k)
    <3>1. Old(j)
      BY <1>1, <2>2
    <3>. QED
      BY <2>1, <2>2, <3>1 DEF Ordered
  <2>3. CASE New(k)
    <3>1. at[s] # "sync"
      BY <1>2, <2>3
    <3>2. phase[s] = b
      BY <2>1, <3>1 DEF Alternate
    <3>3. CASE Old(j)
      BY <2>1, <3>1, <3>3 DEF Alternate
    <3>4. CASE New(j)
      BY <3>2, <3>4
    <3>. QED
      BY <1>1, <3>3, <3>4
  <2>. QED
    BY <1>1, <2>2, <2>3
<1>7. Alternate(s, b)'
  <2> SUFFICES ASSUME at[s] # "sync"
               PROVE  /\ \A i, j \in Mine(s)' : i < j /\ ring'[i].phase = b
                                                  => ring'[j].phase = b
                      /\ b # phase[s] => \A i \in Mine(s)' : ring'[i].phase = phase[s]
    BY DEF Alternate
  <2>1. ASSUME NEW i \in Mine(s)', NEW j \in Mine(s)', i < j, ring'[i].phase = b
        PROVE  ring'[j].phase = b
    <3>1. Old(i)
      BY <1>1, <2>1
    <3>2. CASE Old(j)
      BY <2>1, <3>1, <3>2 DEF Alternate
    <3>3. CASE New(j)
      BY <2>1, <3>1, <3>3 DEF Alternate
    <3>. QED
      BY <1>1, <3>2, <3>3
  <2>2. ASSUME NEW i \in Mine(s)', b # phase[s]
        PROVE  ring'[i].phase = phase[s]
    BY <1>1, <2>2 DEF Alternate
  <2>. QED
    BY <2>1, <2>2
<1>8. LiveLast(s)'
  <2> SUFFICES ASSUME NEW i \in Mine(s)', NEW j \in Mine(s)',
                      i < j, ring'[i].live, ring'[i].phase = phase[s]
               PROVE  ring'[j].phase = phase[s]
    BY DEF LiveLast
  <2>1. Old(i)
    BY <1>1
  <2>2. CASE Old(j)
    BY <2>1, <2>2 DEF LiveLast
  <2>3. CASE New(j)
    BY <2>3
  <2>. QED
    BY <1>1, <2>2, <2>3
<1>9. Between(s, b)'
  BY DEF Between
<1>10. Repeats(s)'
  <2>1. at'[s] \in {"call"} \cup Gone => at[s] \in {"call", "copy2", "copy3"}
    BY DEF Gone
  <2>. QED
    BY <1>1, <2>1 DEF Repeats, Gone
<1>11. Answers(s, b)'
  <2>1. ASSUME NEW i \in DOMAIN rep[s], rep[s][i].phase = phase[s], NEW j \in Mine(s)'
        PROVE  ring'[j].phase = phase[s]
    BY <1>1, <2>1 DEF Answers
  <2>2. at[s] \notin Gone => at'[s] \notin Gone
    BY DEF Gone
  <2>. QED
    BY <2>1, <2>2 DEF Answers
<1>12. ByTheBit(s, b, D)'
  BY DEF ByTheBit, Changing, Gone
<1>. QED
  BY <1>3, <1>4, <1>5, <1>6, <1>7, <1>8, <1>9, <1>10, <1>11, <1>12

\* msg() sends its command, or repeats it.
LEMMA SendDeliveredKeeps ==
  ASSUME Types, NEW s \in Sessions, NEW b \in {0, 1}, NEW D \in SUBSET Nat,
         SessionInv(s, b, D), SendDelivered(s)
  PROVE  SessionInv(s, b, D)'
<1>1. UNCHANGED <<at, phase, kind, op, rep>> /\ ring' = Append(ring, Request(s))
  BY DEF SendDelivered, client
<1>2. at[s] \in {"sync", "presync", "call"}
  BY DEF SendDelivered, InMsg
<1>3. /\ Request(s) \in Frames /\ Request(s).from = s /\ Request(s).phase = phase[s]
      /\ at[s] = "call" => Request(s).kind = kind[s] /\ Request(s).op = op[s]
      /\ at[s] # "call" => Request(s).kind = "nop"
  BY RequestType DEF Request, Datagram, Types
<1>4. at[s] \in {"sync", "presync"} => ~Changes(Request(s))
  BY <1>3 DEF Changes, Effects
<1>5. at[s] = "call" /\ Changes(Request(s)) => Changing(s)
  <2>1. at[s] = "call" => kind[s] \in Effects \cup {"read"}
    BY DEF Types, ClientTypes
  <2>. QED
    BY <1>3, <2>1 DEF Changes, Changing, Effects
<1>6. PICK n \in Nat : OneMore(s, n, Request(s))
  BY <1>1, <1>3, MineAppended
<1>. QED
  BY <1>1, <1>2, <1>3, <1>4, <1>5, <1>6, SendKeeps

\* The first copy of a leave: a new command, sent or lost.
LEMMA FirstCopyKeeps ==
  ASSUME Types, NEW s \in Sessions, NEW b \in {0, 1}, NEW D \in SUBSET Nat,
         SessionInv(s, b, D), SendLeave(s), at[s] = "leaving"
  PROVE  SessionInv(s, b, D)'
<1> DEFINE r == Datagram(s, "leave", op'[s])
<1>1. /\ at'[s] = "copy2" /\ kind'[s] = "leave" /\ op'[s] = op[s] + 1 /\ op[s] \in Nat
      /\ UNCHANGED <<phase, rep>>
      /\ UNCHANGED ring \/ ring' = Append(ring, r)
  BY CopyOrder DEF SendLeave, Types, ClientTypes
<1>2. r.from = s /\ r.phase = phase[s] /\ r.kind = "leave" /\ r.op = op'[s] /\ r \in Frames
  <2>1. op'[s] \in Nat
    BY <1>1
  <2>. QED
    BY <2>1, DatagramType DEF Datagram, Types
<1>. HIDE DEF r
<1>3. PICK n \in Nat : OneMore(s, n, r)
  <2>1. CASE UNCHANGED ring
    <3>1. Mine(s)' = Mine(s) /\ Len(ring) + 1 \in Nat
      BY <2>1 DEF Mine, Types, RingTypes
    <3>2. \A i \in Mine(s) : i \in Nat /\ i < Len(ring) + 1
      BY MineInRing DEF Types, RingTypes
    <3>3. OneMore(s, Len(ring) + 1, r)
      BY <2>1, <3>1, <3>2 DEF OneMore
    <3>. QED
      BY <3>1, <3>3
  <2>2. CASE ring' = Append(ring, r)
    BY <1>2, <2>2, MineAppended
  <2>. QED
    BY <1>1, <2>1, <2>2
<1>4. b = phase[s] /\ \A i \in Mine(s) : ring[i].phase # phase[s]
  BY DEF SessionInv, Between
<1>5. op'[s] \notin D /\ \A m \in D : m <= op'[s]
  <2>1. \A m \in D : m \in Nat /\ m <= op[s]
    BY DEF SessionInv, ByTheBit
  <2>. QED
    BY <1>1, <2>1
<1> USE DEF SessionInv
<1>6. Current(s, b, D)' /\ Past(s, b, D)'
  BY <1>1, <1>2, <1>3, <1>4, <1>5 DEF Current, Past, Changes, OneMore
<1>7. Ordered(s, b)' /\ Uniform(s, b)'
  BY <1>1, <1>2, <1>3, <1>4 DEF Ordered, Uniform, Changes, OneMore
<1>8. Alternate(s, b)' /\ LiveLast(s)'
  BY <1>1, <1>2, <1>3, <1>4 DEF Alternate, LiveLast, OneMore
<1>9. Between(s, b)' /\ Repeats(s)' /\ Answers(s, b)'
  BY <1>1, <1>2, <1>3, <1>4 DEF Between, Repeats, Answers, Gone, OneMore
<1>10. ByTheBit(s, b, D)'
  BY <1>1, <1>4, <1>5 DEF ByTheBit, Changing, Gone
<1>. QED
  BY <1>6, <1>7, <1>8, <1>9, <1>10

\* The second or third copy of a leave.
LEMMA NextCopyKeeps ==
  ASSUME Types, NEW s \in Sessions, NEW b \in {0, 1}, NEW D \in SUBSET Nat,
         SessionInv(s, b, D), SendLeave(s), at[s] # "leaving"
  PROVE  SessionInv(s, b, D)'
<1> DEFINE r == Datagram(s, "leave", op'[s])
<1>1. /\ at[s] \in {"copy2", "copy3"} /\ at'[s] \in {"copy3", "wait"}
      /\ UNCHANGED <<phase, kind, op, rep>> /\ op[s] \in Nat
      /\ UNCHANGED ring \/ ring' = Append(ring, r)
  BY CopyOrder DEF SendLeave, Types, ClientTypes
<1>2. r.from = s /\ r.phase = phase[s] /\ r.kind = "leave" /\ r.op = op[s] /\ r \in Frames
  BY <1>1, DatagramType DEF Datagram, Types
<1>. HIDE DEF r
<1>3. kind[s] = "leave"
  BY <1>1 DEF SessionInv, ByTheBit, Gone
<1>4. CASE ring' = Append(ring, r)
  <2>1. PICK n \in Nat : OneMore(s, n, r)
    BY <1>2, <1>4, MineAppended
  <2>2. Changing(s)
    BY <1>1, <1>3 DEF Changing, Gone
  <2>. QED
    BY <1>1, <1>2, <1>3, <2>1, <2>2, SendKeeps
<1>5. CASE UNCHANGED ring
  <2>1. Mine(s)' = Mine(s)
    BY <1>5 DEF Mine
  <2> USE DEF SessionInv
  <2>2. Current(s, b, D)' /\ Past(s, b, D)'
    BY <1>1, <1>5, <2>1 DEF Current, Past, Changes
  <2>3. Ordered(s, b)' /\ Uniform(s, b)' /\ Alternate(s, b)' /\ LiveLast(s)'
    BY <1>1, <1>5, <2>1 DEF Ordered, Uniform, Alternate, LiveLast, Changes
  <2>4. Between(s, b)' /\ Repeats(s)' /\ Answers(s, b)'
    BY <1>1, <1>3, <1>5, <2>1 DEF Between, Repeats, Answers, Gone
  <2>5. ByTheBit(s, b, D)'
    BY <1>1, <1>3 DEF ByTheBit, Changing, Gone
  <2>. QED
    BY <2>2, <2>3, <2>4, <2>5
<1>. QED
  BY <1>1, <1>4, <1>5

-------------------------------------------------------------------------------
(* Steps of the target *)

\* The socket of s may get an answer to r.
MayAnswer(s, r) ==
  \/ rep'[s] = rep[s]
  \/ r.live /\ r.kind # "leave" /\ rep'[s] = Append(rep[s], Answer(r))

\* What an iteration of the loop that finds the command r does to its session.
LEMMA CommandEffect ==
  ASSUME Types, NEW d \in BOOLEAN, LoopCommand(d), NEW r, r = Head(ring)
  PROVE  /\ r \in Frames /\ r.from \in Sessions /\ r.kind # "foreign"
         /\ ring # << >> /\ ring' = Tail(ring)
         /\ UNCHANGED <<client, entries, reboots, skipped>> /\ ~still'
         /\ MayAnswer(r.from, r)
         /\ bit'[r.from] = IF LostReply(r) THEN bit[r.from] ELSE 1 - bit[r.from]
         /\ done'[r.from] = IF Executes(r) THEN Append(done[r.from], r.op) ELSE done[r.from]
         /\ cache' = IF Executes(r) /\ r.kind = "cached" THEN <<r.from, r.op>> ELSE cache
         /\ \A t \in Sessions : t # r.from =>
              rep'[t] = rep[t] /\ bit'[t] = bit[t] /\ done'[t] = done[t]
<1>1. r \in Frames /\ r.from \in Sessions /\ r.kind # "foreign" /\ ring # << >>
  <2>1. ring \in Seq(Frames) /\ ring # << >> /\ r.kind # "foreign"
    BY DEF LoopCommand, Types, RingTypes
  <2>2. 1 \in DOMAIN ring /\ r = ring[1]
    BY <2>1
  <2>. QED
    BY <2>1, <2>2 DEF Types, RingTypes, Sane
<1>2. /\ bit' = IF LostReply(r) THEN bit ELSE [bit EXCEPT ![r.from] = 1 - @]
      /\ done' = IF Executes(r) THEN [done EXCEPT ![r.from] = Append(@, r.op)] ELSE done
      /\ \/ rep' = rep
         \/ /\ r.live /\ r.kind # "leave"
            /\ rep' = [rep EXCEPT ![r.from] = Append(@, Answer(r))]
  BY DEF LoopCommand, Toggle, Lost, Delivered, Answered
<1>3. /\ ring' = Tail(ring) /\ UNCHANGED <<client, entries, reboots, skipped>> /\ ~still'
      /\ cache' = IF Executes(r) /\ r.kind = "cached" THEN <<r.from, r.op>> ELSE cache
  BY DEF LoopCommand
<1>4. /\ bit \in [Sessions -> {0, 1}] /\ done \in [Sessions -> Seq(Nat)]
      /\ rep \in [Sessions -> Seq(Datagrams)]
  BY DEF Types, ServerTypes, HistoryTypes, SocketTypes
<1>5. MayAnswer(r.from, r)
  BY <1>1, <1>2, <1>4 DEF MayAnswer
<1>. QED
  BY <1>1, <1>2, <1>3, <1>4, <1>5

\* The first frame of the ring is taken.
Taken(s, r) ==
  /\ 1 \in Mine(s) /\ ring[1] = r
  /\ \A i \in Mine(s)' : i \in Nat /\ i >= 1 /\ i + 1 \in Mine(s) /\ ring'[i] = ring[i + 1]

\* The answers there were, and one with the phase of the command.
LEMMA AnswerAdded ==
  ASSUME Types, NEW s \in Sessions, NEW r, MayAnswer(s, r)
  PROVE  \/ rep'[s] = rep[s]
         \/ /\ r.live /\ r.kind # "leave"
            /\ \E n \in Nat : \A i \in DOMAIN rep'[s] :
                 /\ i \in Nat
                 /\ \/ i \in DOMAIN rep[s] /\ i < n /\ rep'[s][i] = rep[s][i]
                    \/ i = n /\ rep'[s][i] = Answer(r)
<1> DEFINE q == rep[s]
           n == Len(q) + 1
<1>1. q \in Seq(Datagrams)
  BY DEF Types, SocketTypes
<1>2. n \in Nat
  BY <1>1
<1>. HIDE DEF q
<1>3. \A m : \A i \in DOMAIN Append(q, m) :
        /\ i \in Nat
        /\ \/ i \in DOMAIN q /\ i < n /\ Append(q, m)[i] = q[i]
           \/ i = n /\ Append(q, m)[i] = m
  BY <1>1
<1>. HIDE DEF n
<1>4. CASE r.live /\ r.kind # "leave" /\ rep'[s] = Append(q, Answer(r))
  <2>1. r.live /\ r.kind # "leave" /\ rep'[s] = Append(q, Answer(r))
    BY <1>4
  <2>2. \A i \in DOMAIN rep'[s] :
          /\ i \in Nat
          /\ \/ i \in DOMAIN q /\ i < n /\ rep'[s][i] = q[i]
             \/ i = n /\ rep'[s][i] = Answer(r)
    <3>. DEFINE m == Answer(r)
    <3>. HIDE DEF m
    <3>1. rep'[s] = Append(q, m)
      BY <2>1 DEF m
    <3>2. \A i \in DOMAIN rep'[s] :
            /\ i \in Nat
            /\ \/ i \in DOMAIN q /\ i < n /\ rep'[s][i] = q[i]
               \/ i = n /\ rep'[s][i] = m
      BY <1>3, <3>1, Zenon
    <3>. QED
      BY <3>2 DEF m
  <2>. QED
    BY <1>2, <2>1, <2>2, Zenon DEF q
<1>. QED
  BY <1>4 DEF MayAnswer, q

\* One more command is executed.
LEMMA DoneAppended ==
  ASSUME NEW q \in Seq(Nat), NEW n \in Nat
  PROVE  {Append(q, n)[i] : i \in DOMAIN Append(q, n)} = {q[i] : i \in DOMAIN q} \cup {n}
<1> DEFINE p == Append(q, n)
<1>1. /\ \A i \in DOMAIN q : i \in DOMAIN p /\ p[i] = q[i]
      /\ \A i \in DOMAIN p : (i \in DOMAIN q /\ p[i] = q[i]) \/ p[i] = n
      /\ \E i \in DOMAIN p : p[i] = n
  <2>1. Len(q) + 1 \in DOMAIN p /\ p[Len(q) + 1] = n
    OBVIOUS
  <2>. QED
    BY <2>1
<1>. HIDE DEF p
<1>2. {p[i] : i \in DOMAIN p} = {q[i] : i \in DOMAIN q} \cup {n}
  BY <1>1
<1>. QED
  BY <1>2 DEF p

LEMMA DoneGrows ==
  ASSUME Types, NEW s \in Sessions, NEW n \in Nat, done'[s] = Append(done[s], n)
  PROVE  DoneSet(s)' = DoneSet(s) \cup {n}
<1>1. done[s] \in Seq(Nat)
  BY DEF Types, HistoryTypes
<1>2. {Append(done[s], n)[i] : i \in DOMAIN Append(done[s], n)}
        = {done[s][i] : i \in DOMAIN done[s]} \cup {n}
  BY <1>1, DoneAppended, Zenon
<1>3. DoneSet(s)' = {done'[s][i] : i \in DOMAIN done'[s]}
  BY DEF DoneSet
<1>4. done'[s] = Append(done[s], n)
  OBVIOUS
<1>5. DoneSet(s) = {done[s][i] : i \in DOMAIN done[s]}
  BY DEF DoneSet
<1>. QED
  BY <1>2, <1>3, <1>4, <1>5, Zenon

\* A frame that flips the bit: its command is through.
LEMMA FirstArrivalKeeps ==
  ASSUME Types, NEW s \in Sessions, NEW b \in {0, 1}, NEW D \in SUBSET Nat,
         SessionInv(s, b, D), NEW r \in Frames,
         Taken(s, r), MayAnswer(s, r), r.phase = b,
         NEW c \in {0, 1}, c # b,
         NEW E, E = IF Changes(r) THEN D \cup {r.op} ELSE D,
         UNCHANGED <<at, phase, kind, op>>
  PROVE  SessionInv(s, c, E)'
<1>1. phase[s] \in {0, 1} /\ op[s] \in Nat
  BY DEF Types, ClientTypes
<1>2. 1 \in Mine(s) /\ ring[1] = r /\ ring[1].phase = b
  BY DEF Taken
<1>3. \A i \in Mine(s)' : i \in Nat /\ 1 < i + 1 /\ i + 1 \in Mine(s) /\ ring'[i] = ring[i + 1]
  BY DEF Taken
<1>4. \A i, k \in Mine(s)' : i <= k /\ Changes(ring'[k]) => ring'[i].phase = b
  BY <1>2, <1>3 DEF SessionInv, Ordered
<1>5. at[s] # "sync" => \A i \in Mine(s)' : ring'[i].phase = b
  BY <1>2, <1>3 DEF SessionInv, Alternate
<1>6. at[s] # "sync" => b = phase[s]
  BY <1>2 DEF SessionInv, Alternate
<1>7. Changes(r) => r.op = op[s] /\ r.kind = kind[s]
  BY <1>2 DEF SessionInv, Current
<1>8. \A i \in Mine(s)' : i <= i
  BY <1>3
<1>9. Current(s, c, E)'
  BY <1>4, <1>8 DEF Current, Changes
<1>10. Past(s, c, E)'
  <2> SUFFICES ASSUME NEW i \in Mine(s)', Changes(ring'[i]) PROVE ring'[i].op \in E
    BY DEF Past, Changes
  <2>1. i + 1 \in Mine(s) /\ 1 < i + 1 /\ ring'[i] = ring[i + 1] /\ ring[i + 1].phase = b
    BY <1>3, <1>4, <1>8
  <2>2. Changes(r)
    BY <1>2, <2>1 DEF SessionInv, Uniform
  <2>3. ring[i + 1].op = op[s]
    BY <2>1 DEF SessionInv, Current
  <2>. QED
    BY <1>7, <2>1, <2>2, <2>3
<1>11. Uniform(s, c)'
  BY <1>4, <1>8 DEF Uniform, Changes
<1>12. Ordered(s, c)'
  <2>1. \A i \in Mine(s)' : i \in Nat
    BY <1>3
  <2>2. \A i, j, k \in Mine(s)' : i < j /\ j <= k => i <= k
    BY <2>1
  <2>. QED
    BY <1>4, <2>2 DEF Ordered, Changes
<1>13. Alternate(s, c)'
  BY <1>5, <1>6 DEF Alternate
<1>14. LiveLast(s)'
  BY <1>3 DEF SessionInv, LiveLast
<1>15. at[s] \notin {"idle", "leaving"}
  BY <1>2 DEF SessionInv, Between
<1>16. Between(s, c)' /\ Repeats(s)'
  BY <1>3, <1>15 DEF SessionInv, Between, Repeats
<1>17. Answers(s, c)'
  <2>1. \A i \in DOMAIN rep[s] : rep[s][i].phase # phase[s]
    BY <1>2 DEF SessionInv, Answers
  <2>2. CASE rep'[s] = rep[s]
    BY <2>1, <2>2 DEF Answers
  <2>3. ASSUME r.live, r.kind # "leave", NEW n \in Nat,
               \A i \in DOMAIN rep'[s] :
                 /\ i \in Nat
                 /\ \/ i \in DOMAIN rep[s] /\ i < n /\ rep'[s][i] = rep[s][i]
                    \/ i = n /\ rep'[s][i] = Answer(r)
        PROVE  Answers(s, c)'
    <3>1. Answer(r).phase = b
      BY DEF Answer
    <3>2. b = phase[s] => \A j \in Mine(s)' : ring'[j].phase = phase[s]
      BY <1>2, <1>3, <2>3 DEF SessionInv, LiveLast
    <3>3. b = phase[s] => at[s] \notin Gone
      BY <1>2, <2>3 DEF SessionInv, Repeats, ByTheBit
    <3>. QED
      BY <2>1, <2>3, <3>1, <3>2, <3>3 DEF Answers
  <2>. QED
    BY <2>2, <2>3, AnswerAdded
<1>18. ByTheBit(s, c, E)'
  <2>1. Changing(s) => c # phase[s] /\ op[s] \in E
    <3> SUFFICES ASSUME Changing(s) PROVE c # phase[s] /\ op[s] \in E
      OBVIOUS
    <3>1. at[s] \in {"call"} \cup Gone /\ at[s] # "sync" /\ kind[s] \in Effects \cup {"leave"}
      BY DEF Changing, Gone
    <3>2. b = phase[s]
      BY <1>6, <3>1
    <3>3. r.kind = kind[s] /\ r.op = op[s]
      BY <1>2, <3>1, <3>2 DEF SessionInv, Repeats
    <3>. QED
      BY <3>1, <3>2, <3>3 DEF Changes
  <2>2. \A n \in E : n <= op[s]
    BY <1>1, <1>7 DEF SessionInv, ByTheBit
  <2>. QED
    BY <2>1, <2>2 DEF SessionInv, ByTheBit, Changing
<1>. QED
  BY <1>9, <1>10, <1>11, <1>12, <1>13, <1>14, <1>16, <1>17, <1>18 DEF SessionInv

\* A frame that leaves the bit alone may be answered again.
LEMMA RepetitionKeeps ==
  ASSUME Types, NEW s \in Sessions, NEW b \in {0, 1}, NEW D \in SUBSET Nat,
         SessionInv(s, b, D), NEW r \in Frames,
         Taken(s, r), MayAnswer(s, r), r.phase # b, UNCHANGED <<at, phase, kind, op>>
  PROVE  SessionInv(s, b, D)'
<1>1. phase[s] \in {0, 1} /\ r.phase \in {0, 1}
  BY DEF Types, ClientTypes, Frames
<1>2. 1 \in Mine(s) /\ ring[1] = r
  BY DEF Taken
<1>3. \A i \in Mine(s)' : i \in Nat /\ 1 < i + 1 /\ i + 1 \in Mine(s) /\ ring'[i] = ring[i + 1]
  BY DEF Taken
<1> USE DEF SessionInv
<1>4. Current(s, b, D)' /\ Past(s, b, D)'
  BY <1>3 DEF Current, Past, Changes
<1>5. Ordered(s, b)' /\ Uniform(s, b)' /\ Alternate(s, b)' /\ LiveLast(s)'
  BY <1>3 DEF Ordered, Uniform, Alternate, LiveLast, Changes
<1>6. Between(s, b)' /\ Repeats(s)' /\ ByTheBit(s, b, D)'
  BY <1>3 DEF Between, Repeats, ByTheBit, Changing
<1>7. Answers(s, b)'
  <2>1. CASE rep'[s] = rep[s]
    BY <1>3, <2>1 DEF Answers
  <2>2. ASSUME r.live, r.kind # "leave", NEW n \in Nat,
               \A i \in DOMAIN rep'[s] :
                 /\ i \in Nat
                 /\ \/ i \in DOMAIN rep[s] /\ i < n /\ rep'[s][i] = rep[s][i]
                    \/ i = n /\ rep'[s][i] = Answer(r)
        PROVE  Answers(s, b)'
    <3>1. Answer(r).phase = r.phase
      BY DEF Answer
    <3>2. r.phase = phase[s] => \A j \in Mine(s)' : ring'[j].phase = phase[s]
      BY <1>2, <1>3, <2>2 DEF LiveLast
    <3>3. \A i \in DOMAIN rep[s] : rep[s][i].phase = phase[s] => r.phase = phase[s]
      BY <1>2 DEF Answers
    <3>4. r.phase = phase[s] => at[s] \notin Gone
      BY <1>2, <2>2 DEF Repeats, ByTheBit
    <3>. QED
      BY <1>1, <1>3, <2>2, <3>1, <3>2, <3>3, <3>4 DEF Answers
  <2>. QED
    BY <2>1, <2>2, AnswerAdded
<1>. QED
  BY <1>4, <1>5, <1>6, <1>7

-------------------------------------------------------------------------------
(* The bit protocol *)

\* The target knows nothing new of session t, nor has t done anything.
Untouched(t, d) ==
  Stays(t, d) /\ bit'[t] = bit[t] /\ done'[t] = done[t] /\ skipped'[t] = skipped[t]

\* The ring stays as it is.
LEMMA SameRing ==
  ASSUME Types, NEW t \in Sessions, UNCHANGED ring
  PROVE  \A i \in Mine(t)' : i \in Nat /\ i + 0 \in Mine(t) /\ ring'[i] = ring[i + 0]
<1>1. Mine(t)' = Mine(t) /\ ring' = ring
  BY DEF Mine
<1>2. \A i \in Mine(t) : i \in Nat /\ i + 0 = i
  BY MineInRing
<1>. QED
  BY <1>1, <1>2

\* Another session's frame is appended.
LEMMA OneMoreOfOther ==
  ASSUME Types, NEW t \in Sessions, NEW r \in Frames, r.from # t, ring' = Append(ring, r)
  PROVE  \A i \in Mine(t)' : i \in Nat /\ i + 0 \in Mine(t) /\ ring'[i] = ring[i + 0]
<1>1. PICK n \in Nat : OneMore(t, n, r) /\ n \notin Mine(t)'
  BY MineAppended
<1>2. \A i \in Mine(t)' : i \in Nat /\ i \in Mine(t) /\ ring'[i] = ring[i]
  BY <1>1 DEF OneMore
<1>3. \A i \in Nat : i + 0 = i
  OBVIOUS
<1>. QED
  BY <1>2, <1>3

\* A script's step concerns its session only.
LEMMA ScriptLocal ==
  ASSUME Types, NEW s \in Sessions, Start(s) \/ Script(s), NEW t \in Sessions, t # s
  PROVE  Untouched(t, 0)
<1>1. /\ at'[t] = at[t] /\ phase'[t] = phase[t] /\ kind'[t] = kind[t] /\ op'[t] = op[t]
      /\ bit'[t] = bit[t] /\ done'[t] = done[t] /\ skipped'[t] = skipped[t] /\ rep'[t] = rep[t]
  <2>1. CASE Start(s)
    BY <2>1 DEF Start, history, Types, ClientTypes, SocketTypes
  <2>2. CASE Call(s) \/ SendDelivered(s) \/ BeginLeave(s) \/ MsgIgnores(s) \/ WaitReceives(s)
    BY <2>2 DEF Call, SendDelivered, BeginLeave, MsgIgnores, WaitReceives,
                client, server, history, Types, ClientTypes, SocketTypes
  <2>3. CASE MsgAnswered(s)
    BY <2>3 DEF MsgAnswered, Returned, server, Types, ClientTypes, SocketTypes, HistoryTypes
  <2>4. CASE SendLeave(s)
    BY <2>4 DEF SendLeave, server, history, Types, ClientTypes
  <2>. QED
    BY <2>1, <2>2, <2>3, <2>4 DEF Script
<1>2. \A i \in Mine(t)' : i \in Nat /\ i + 0 \in Mine(t) /\ ring'[i] = ring[i + 0]
  <2>1. CASE UNCHANGED ring
    BY <2>1, SameRing
  <2>2. CASE Start(s)
    <3>1. ring' = [i \in DOMAIN ring |->
                     IF ring[i].from = s THEN [ring[i] EXCEPT !.live = FALSE] ELSE ring[i]]
      BY <2>2 DEF Start
    <3>2. \A i \in DOMAIN ring : ring[i] \in Frames
      BY DEF Types, RingTypes
    <3>3. \A i \in Mine(t)' : i \in Mine(t) /\ ring'[i] = ring[i]
      BY <3>1, <3>2 DEF Mine, Frames
    <3>4. \A i \in Mine(t) : i \in Nat /\ i + 0 = i
      BY MineInRing
    <3>. QED
      BY <3>3, <3>4
  <2>3. CASE SendDelivered(s)
    <3>1. ring' = Append(ring, Request(s)) /\ Request(s).from = s /\ Request(s) \in Frames
      BY <2>3, RequestType DEF SendDelivered, Request, Datagram, Types
    <3>. QED
      BY <3>1, OneMoreOfOther
  <2>4. CASE SendLeave(s)
    <3> DEFINE r == Datagram(s, "leave", op'[s])
    <3>1. r.from = s /\ (UNCHANGED ring \/ ring' = Append(ring, r))
      BY <2>4 DEF SendLeave, Datagram
    <3>2. r \in Frames
      <4>1. op'[s] \in Nat
        BY <2>4 DEF SendLeave, Types, ClientTypes
      <4>. QED
        BY <4>1, DatagramType DEF Types
    <3>. HIDE DEF r
    <3>. QED
      BY <2>1, <3>1, <3>2, OneMoreOfOther
  <2>5. CASE Call(s) \/ BeginLeave(s) \/ MsgIgnores(s) \/ WaitReceives(s) \/ MsgAnswered(s)
    BY <2>1, <2>5 DEF Call, BeginLeave, MsgIgnores, WaitReceives, MsgAnswered
  <2>. QED
    BY <2>2, <2>3, <2>4, <2>5 DEF Script
<1>. QED
  BY <1>1, <1>2 DEF Untouched, Stays

\* A script's step keeps the invariant of its session.
LEMMA ScriptKeeps ==
  ASSUME Types, NEW s \in Sessions, NEW b \in {0, 1}, NEW D \in SUBSET Nat,
         SessionInv(s, b, D), Start(s) \/ Script(s)
  PROVE  SessionInv(s, b, D)'
<1>1. CASE MsgIgnores(s)
  BY <1>1, DropKeeps DEF MsgIgnores, client
<1>. QED
  BY <1>1, StartKeeps, CallKeeps, SendDeliveredKeeps, AnsweredKeeps, BeginLeaveKeeps,
     FirstCopyKeeps, NextCopyKeeps, WaitKeeps DEF Script

\* Scripts change nothing of the target's but its ring.
LEMMA ScriptEffect ==
  ASSUME NEW s \in Sessions, Start(s) \/ Script(s)
  PROVE  UNCHANGED <<mode, sent, bit, still, cache, done, missed, entries, reboots>>
<1>1. CASE Start(s)
  BY <1>1 DEF Start, history
<1>2. CASE Call(s) \/ SendDelivered(s) \/ MsgIgnores(s)
  BY <1>2 DEF Call, SendDelivered, MsgIgnores, server, history
<1>3. CASE MsgAnswered(s)
  BY <1>3 DEF MsgAnswered, server
<1>4. CASE BeginLeave(s) \/ SendLeave(s) \/ WaitReceives(s)
  BY <1>4 DEF BeginLeave, SendLeave, WaitReceives, server, history
<1>. QED
  BY <1>1, <1>2, <1>3, <1>4 DEF Script

\* The other steps of the target, but for those that clear the bits.
Idles == LoopTop \/ LoopNoPacket \/ LoopForeign \/ NetForeign \/ UNCHANGED vars

\* The target's other steps, and other hosts' frames, concern no session, but that one may
\* get an announcement.
LEMMA IdleLocal ==
  ASSUME Types, Idles, NEW t \in Sessions
  PROVE  \E d \in Nat : Untouched(t, d)
<1>1. UNCHANGED <<at, phase, kind, op, bit, done, skipped>>
  BY DEF Idles, LoopTop, LoopNoPacket, LoopForeign, NetForeign, vars, client, server, history
<1>2. \E d \in Nat : \A i \in Mine(t)' : i \in Nat /\ i + d \in Mine(t) /\ ring'[i] = ring[i + d]
  <2>1. CASE UNCHANGED ring
    BY <2>1, SameRing
  <2>2. CASE LoopForeign
    <3>1. ring # << >> /\ ring' = Tail(ring)
      BY <2>2 DEF LoopForeign
    <3>. QED
      BY <3>1, MineTaken
  <2>3. CASE NetForeign
    <3>1. ring' = Append(ring, ForeignFrame) /\ ForeignFrame \in Frames
          /\ ForeignFrame.from # t
      BY <2>3, NobodyTypes, SessionAssumption DEF NetForeign, ForeignFrame
    <3>. QED
      BY <3>1, OneMoreOfOther
  <2>. QED
    BY <2>1, <2>2, <2>3 DEF Idles, LoopTop, LoopNoPacket, vars
<1>3. \A i \in DOMAIN rep'[t] :
        rep'[t][i].phase = Isr \/ (i \in DOMAIN rep[t] /\ rep'[t][i] = rep[t][i])
  <2>1. CASE rep' = rep
    BY <2>1
  <2>2. ASSUME NEW m, m.phase = Isr, rep' = [rep EXCEPT ![conn] = Append(@, m)]
        PROVE  \A i \in DOMAIN rep'[t] :
                 rep'[t][i].phase = Isr \/ (i \in DOMAIN rep[t] /\ rep'[t][i] = rep[t][i])
    <3>1. rep[t] \in Seq(Datagrams) /\ (rep'[t] = rep[t] \/ rep'[t] = Append(rep[t], m))
      BY <2>2 DEF Types, SocketTypes
    <3>. DEFINE q == rep[t]
    <3>. HIDE DEF q
    <3>2. \A i \in DOMAIN Append(q, m) :
            Append(q, m)[i] = m \/ (i \in DOMAIN q /\ Append(q, m)[i] = q[i])
      BY <3>1 DEF q
    <3>. QED
      BY <2>2, <3>1, <3>2 DEF q
  <2>3. rep' = rep \/ rep' = [rep EXCEPT ![conn] = Append(@, [phase |-> Isr, val |-> NoVal])]
    BY DEF Idles, LoopTop, LoopNoPacket, LoopForeign, NetForeign, vars, Lost, Delivered
  <2>. QED
    BY <2>1, <2>2, <2>3
<1>. QED
  BY <1>1, <1>2, <1>3 DEF Untouched, Stays

\* And the rest of what they leave alone.
LEMMA IdleEffect ==
  ASSUME Idles
  PROVE  UNCHANGED <<client, mode, bit, still, cache, done, val, skipped, entries, reboots>>
BY DEF Idles, LoopTop, LoopNoPacket, LoopForeign, NetForeign, vars, server, history

\* Clearing ping_pong concerns nothing but the bits of a session.
LEMMA ResetLocal ==
  ASSUME Types, GuestInt13 \/ Reboot, NEW t \in Sessions
  PROVE  Stays(t, 0) /\ bit'[t] = 0 /\ done'[t] = done[t] /\ skipped'[t] = skipped[t]
<1>1. UNCHANGED <<at, phase, kind, op, done, skipped, rep>> /\ bit'[t] = 0
  BY DEF GuestInt13, Reboot, client
<1>2. \A i \in Mine(t)' : i \in Nat /\ i + 0 \in Mine(t) /\ ring'[i] = ring[i + 0]
  <2>1. CASE GuestInt13
    BY <2>1, SameRing DEF GuestInt13
  <2>2. CASE Reboot
    BY <2>2 DEF Reboot, Mine
  <2>. QED
    BY <2>1, <2>2
<1>. QED
  BY <1>1, <1>2 DEF Stays

\* The kinds of steps.
LEMMA StepKinds ==
  [Next]_vars => \/ \E s \in Sessions : Start(s) \/ Script(s)
                 \/ Idles
                 \/ \E d \in BOOLEAN : LoopCommand(d)
                 \/ GuestInt13 \/ Reboot
BY DEF Next, Target, Idles

\* How often ping_pong was cleared.
LEMMA ClearsKept ==
  ASSUME \/ \E s \in Sessions : Start(s) \/ Script(s)
         \/ Idles
         \/ \E d \in BOOLEAN : LoopCommand(d)
  PROVE  Clears' = Clears
<1>1. UNCHANGED <<entries, reboots>>
  BY ScriptEffect, IdleEffect DEF LoopCommand
<1>. QED
  BY <1>1 DEF Clears

\* What a reset adds: nothing for a session alone, which is not rebooted.
LEMMA ClearsMore ==
  ASSUME Types, GuestInt13 \/ Reboot
  PROVE  IF Alone THEN GuestInt13 /\ Clears' = 0 /\ Clears = 0
                  ELSE Clears' = Clears + 1 /\ Clears \in Nat
<1>1. entries \in Nat /\ reboots \in Nat /\ (MaxReboots = 0 => reboots = 0)
  BY DEF Types, HistoryTypes
<1>2. entries' + reboots' = entries + reboots + 1
  BY <1>1 DEF GuestInt13, Reboot
<1>3. Alone => ~Reboot
  BY <1>1 DEF Alone, Reboot
<1>. QED
  BY <1>1, <1>2, <1>3 DEF Clears

-------------------------------------------------------------------------------
(* Frames and leaves *)

\* A frame in the ring was there, or another host or a script has just sent it.
LEMMA FramesComeFrom ==
  ASSUME Types, [Next]_vars, NEW i \in DOMAIN ring'
  PROVE  \/ \E j \in DOMAIN ring :
              /\ ring'[i].from = ring[j].from /\ ring'[i].kind = ring[j].kind
              /\ ring'[i].phase = ring[j].phase /\ ring'[i].op = ring[j].op
         \/ ring'[i] = ForeignFrame
         \/ \E s \in Sessions : SendDelivered(s) /\ ring'[i] = Request(s)
         \/ \E s \in Sessions : SendLeave(s) /\ ring'[i] = Datagram(s, "leave", op'[s])
<1>1. ring \in Seq(Frames)
  BY DEF Types, RingTypes
<1>2. CASE ring' = ring
  BY <1>2
<1>3. CASE ring' = Tail(ring) /\ ring # << >>
  BY <1>1, <1>3
<1>4. ASSUME NEW r, ring' = Append(ring, r)
      PROVE  ring'[i] = r \/ (i \in DOMAIN ring /\ ring'[i] = ring[i])
  BY <1>1, <1>4
<1>5. CASE ring' = << >>
  BY <1>5
<1>6. ASSUME NEW s \in Sessions, Start(s) \/ Script(s)
      PROVE  \/ ring' = ring
             \/ \E j \in DOMAIN ring :
                  /\ ring'[i].from = ring[j].from /\ ring'[i].kind = ring[j].kind
                  /\ ring'[i].phase = ring[j].phase /\ ring'[i].op = ring[j].op
             \/ SendDelivered(s) /\ ring'[i] = Request(s)
             \/ SendLeave(s) /\ ring'[i] = Datagram(s, "leave", op'[s])
  <2>1. CASE Start(s)
    <3>1. ring' = [j \in DOMAIN ring |->
                     IF ring[j].from = s THEN [ring[j] EXCEPT !.live = FALSE] ELSE ring[j]]
      BY <2>1 DEF Start
    <3>2. i \in DOMAIN ring /\ ring[i] \in Frames
      BY <1>1, <3>1
    <3>. QED
      BY <3>1, <3>2 DEF Frames
  <2>2. CASE SendDelivered(s)
    BY <1>4, <2>2 DEF SendDelivered
  <2>3. CASE SendLeave(s)
    <3>1. ring' = ring \/ ring' = Append(ring, Datagram(s, "leave", op'[s]))
      BY <2>3 DEF SendLeave
    <3>. QED
      BY <1>4, <2>3, <3>1
  <2>4. CASE Call(s) \/ MsgAnswered(s) \/ MsgIgnores(s) \/ BeginLeave(s) \/ WaitReceives(s)
    BY <2>4 DEF Call, MsgAnswered, MsgIgnores, BeginLeave, WaitReceives
  <2>. QED
    BY <1>6, <2>1, <2>2, <2>3, <2>4 DEF Script
<1>7. CASE Idles
  <2>1. \/ ring' = ring \/ (ring' = Tail(ring) /\ ring # << >>)
        \/ ring' = Append(ring, ForeignFrame)
    BY <1>7 DEF Idles, LoopTop, LoopNoPacket, LoopForeign, NetForeign, vars
  <2>. QED
    BY <1>2, <1>3, <1>4, <2>1
<1>8. CASE \E d \in BOOLEAN : LoopCommand(d)
  BY <1>3, <1>8 DEF LoopCommand
<1>9. CASE GuestInt13 \/ Reboot
  BY <1>2, <1>5, <1>9 DEF GuestInt13, Reboot
<1>. QED
  BY <1>2, <1>6, <1>7, <1>8, <1>9, StepKinds

\* At first nobody leaves.
LEMMA LeaveInit == Init => LeaveInv
<1> SUFFICES ASSUME Init PROVE LeaveInv
  OBVIOUS
<1>1. ring = << >> /\ mode = "loop" /\ \A s \in Sessions : at[s] = "off"
  BY DEF Init
<1>. QED
  BY <1>1 DEF LeaveInv

\* A script's step keeps the phase of its leaves.
LEMMA ScriptLeaves ==
  ASSUME Types, LeaveInv, NEW s \in Sessions, Start(s) \/ Script(s)
  PROVE  /\ at'[s] = "presync" => phase'[s] = 0
         /\ at'[s] \in {"leaving", "copy2", "copy3"} => phase'[s] = 1
<1>1. at'[s] \in {"presync", "leaving", "copy2", "copy3"} => ~Start(s) /\ ~Call(s) /\ ~WaitReceives(s)
  BY DEF Start, Call, WaitReceives, Types, ClientTypes
<1>2. CASE SendDelivered(s) \/ MsgIgnores(s)
  BY <1>2 DEF SendDelivered, MsgIgnores, client, LeaveInv
<1>3. CASE MsgAnswered(s)
  BY <1>3 DEF MsgAnswered, Returned, Flipped, Types, ClientTypes, LeaveInv
<1>4. CASE BeginLeave(s)
  BY <1>4 DEF BeginLeave, Types, ClientTypes
<1>5. CASE SendLeave(s)
  BY <1>5, CopyOrder DEF SendLeave, Types, ClientTypes, LeaveInv
<1>. QED
  BY <1>1, <1>2, <1>3, <1>4, <1>5 DEF Script

\* Leaves keep phase 1, and their execution the bit 0.
LEMMA LeaveStep == Types /\ LeaveInv /\ [Next]_vars => LeaveInv'
<1> SUFFICES ASSUME Types, LeaveInv, [Next]_vars PROVE LeaveInv'
  OBVIOUS
<1>1. ASSUME NEW i \in DOMAIN ring', ring'[i].kind = "leave" PROVE ring'[i].phase = 1
  <2>1. ASSUME NEW s \in Sessions, SendDelivered(s) PROVE Request(s).kind # "leave"
    BY DEF Request, Datagram, Types, ClientTypes, Effects
  <2>2. ASSUME NEW s \in Sessions, SendLeave(s)
        PROVE  Datagram(s, "leave", op'[s]).phase = 1
    BY <2>2, CopyOrder DEF SendLeave, Datagram, LeaveInv
  <2>3. ForeignFrame.kind # "leave"
    BY DEF ForeignFrame
  <2>. QED
    BY <1>1, <2>1, <2>2, <2>3, FramesComeFrom DEF LeaveInv
<1>2. ASSUME NEW s \in Sessions
      PROVE  /\ at'[s] = "presync" => phase'[s] = 0
             /\ at'[s] \in {"leaving", "copy2", "copy3"} => phase'[s] = 1
  <2>1. CASE at'[s] = at[s] /\ phase'[s] = phase[s]
    BY <2>1 DEF LeaveInv
  <2>2. ASSUME NEW t \in Sessions, Start(t) \/ Script(t), t # s
        PROVE  at'[s] = at[s] /\ phase'[s] = phase[s]
    BY <2>2, ScriptLocal DEF Untouched, Stays
  <2>3. CASE UNCHANGED client
    BY <2>1, <2>3 DEF client
  <2>. QED
    BY <2>1, <2>2, <2>3, ScriptLeaves, StepKinds, IdleEffect
       DEF LoopCommand, GuestInt13, Reboot
<1>3. ASSUME mode' = "guest", Alone, NEW s \in Sessions PROVE bit'[s] = 0
  <2>1. CASE UNCHANGED <<mode, bit>>
    BY <1>3, <2>1 DEF LeaveInv
  <2>2. ASSUME NEW d \in BOOLEAN, LoopCommand(d) PROVE bit'[s] = 0
    <3> DEFINE r == Head(ring)
    <3>1. /\ r.from \in Sessions /\ ring # << >> /\ ring' = Tail(ring)
          /\ bit'[r.from] = IF LostReply(r) THEN bit[r.from] ELSE 1 - bit[r.from]
      BY <2>2, CommandEffect
    <3>2. Executes(r) /\ r.kind = "leave"
      BY <1>3, <2>2 DEF LoopCommand
    <3>3. 1 \in Mine(r.from) /\ r = ring[1]
      BY <3>1, MineTaken
    <3>4. r.phase = 1
      BY <3>2, <3>3 DEF LeaveInv, Mine
    <3>5. r.from = s
      BY <1>3, <3>1 DEF Alone
    <3>. QED
      BY <3>1, <3>2, <3>4, <3>5 DEF Executes, LostReply
  <2>3. CASE GuestInt13 \/ Reboot
    BY <1>3, <2>3 DEF GuestInt13, Reboot
  <2>. QED
    BY <2>1, <2>2, <2>3, StepKinds, ScriptEffect, IdleEffect
<1>. QED
  BY <1>1, <1>2, <1>3 DEF LeaveInv

\* It holds always.
LEMMA LeaveAlways == Spec => []LeaveInv
BY LeaveInit, LeaveStep, TypesCorrect, PTL DEF Spec

-------------------------------------------------------------------------------
(* What clearing ping_pong costs *)

\* The commands that are through may be described before or after a step.
LEMMA SameCommands ==
  ASSUME NEW s \in Sessions, NEW b, NEW D, NEW F, SessionInv(s, b, D)',
         D = DoneSet(s)' \cup F
  PROVE  SessionInv(s, b, DoneSet(s) \cup F)'
BY DEF SessionInv, Current, Past, ByTheBit

\* A step that costs nothing.
LEMMA DamageKept ==
  ASSUME Types, NEW s \in Sessions, NEW b \in {0, 1}, NEW F \in SUBSET Nat, Damage(s, b, F),
         NEW D, D = DoneSet(s) \cup F, SessionInv(s, b, D)',
         bit'[s] = bit[s], done'[s] = done[s], skipped'[s] \subseteq F, Clears' = Clears
  PROVE  Damage(s, b, F)'
<1>1. DoneSet(s)' = DoneSet(s)
  BY DEF DoneSet
<1>2. SessionInv(s, b, DoneSet(s) \cup F)'
  BY <1>1, SameCommands
<1>. QED
  BY <1>1, <1>2 DEF Damage

\* A script skips a command only when the bit said that it was executed.
LEMMA ScriptDamage ==
  ASSUME Types, NEW s \in Sessions, NEW b \in {0, 1}, NEW F \in SUBSET Nat, Damage(s, b, F),
         Start(s) \/ Script(s)
  PROVE  Damage(s, b, F)'
<1>1. PICK D \in SUBSET Nat : D = DoneSet(s) \cup F
  BY DoneIsNat
<1>2. SessionInv(s, b, D) /\ skipped[s] \subseteq F
  BY <1>1 DEF Damage
<1>3. SessionInv(s, b, D)'
  BY <1>2, ScriptKeeps
<1>4. /\ UNCHANGED <<bit, done, entries, reboots>>
      /\ Clears' = Clears
  BY ScriptEffect, ClearsKept
<1>5. skipped'[s] \subseteq F
  <2>1. CASE MsgAnswered(s)
    <3>1. rep[s] \in Seq(Datagrams) /\ rep[s] # << >> /\ Head(rep[s]).phase = phase[s]
      BY <2>1 DEF MsgAnswered, Types, SocketTypes
    <3>2. 1 \in DOMAIN rep[s] /\ rep[s][1].phase = phase[s]
      BY <3>1
    <3>3. b # phase[s]
      BY <1>2, <3>2 DEF SessionInv, Answers
    <3>4. at[s] = "call" /\ kind[s] \in Effects => op[s] \in DoneSet(s) \cup F
      BY <1>1, <1>2, <3>3 DEF SessionInv, ByTheBit, Changing
    <3>5. \/ skipped'[s] = skipped[s]
          \/ /\ skipped'[s] = skipped[s] \cup {op[s]}
             /\ at[s] = "call" /\ kind[s] \in Effects /\ op[s] \notin DoneSet(s)
      BY <2>1 DEF MsgAnswered, Returned, DoneSet, Types, HistoryTypes
    <3>. QED
      BY <1>2, <3>4, <3>5
  <2>2. CASE ~MsgAnswered(s)
    <3>1. skipped' = skipped
      BY <2>2 DEF Script, Start, Call, SendDelivered, MsgIgnores, BeginLeave, SendLeave,
                  WaitReceives, history
    <3>. QED
      BY <1>2, <3>1
  <2>. QED
    BY <2>1, <2>2
<1>. QED
  BY <1>1, <1>3, <1>4, <1>5, DamageKept

\* A step that is not about session s.
LEMMA OtherDamage ==
  ASSUME Types, NEW s \in Sessions, NEW b \in {0, 1}, NEW F \in SUBSET Nat, Damage(s, b, F),
         NEW d \in Nat, Untouched(s, d), Clears' = Clears
  PROVE  Damage(s, b, F)'
<1>. PICK D : D = DoneSet(s) \cup F
  OBVIOUS
<1>1. SessionInv(s, b, D) /\ skipped[s] \subseteq F
  BY DEF Damage
<1>2. SessionInv(s, b, D)'
  BY <1>1, OthersKeep DEF Untouched
<1>. QED
  BY <1>1, <1>2, DamageKept DEF Untouched

\* Clearing ping_pong makes a bit wrong, but for a session alone that has just left.
LEMMA ResetDamages ==
  ASSUME Types, LeaveInv, NEW s \in Sessions, NEW b \in {0, 1}, NEW F \in SUBSET Nat,
         Damage(s, b, F), GuestInt13 \/ Reboot
  PROVE  Damage(s, b, F)'
<1>. PICK D : D = DoneSet(s) \cup F
  OBVIOUS
<1>1. SessionInv(s, b, D) /\ skipped[s] \subseteq F
  BY DEF Damage
<1>2. Stays(s, 0) /\ bit'[s] = 0 /\ done'[s] = done[s] /\ skipped'[s] = skipped[s]
  BY ResetLocal
<1>3. SessionInv(s, b, D)'
  BY <1>1, <1>2, OthersKeep
<1>4. CASE Alone
  <2>1. Clears' = Clears /\ bit[s] = 0
    BY <1>4, ClearsMore DEF GuestInt13, LeaveInv
  <2>. QED
    BY <1>1, <1>2, <1>3, <2>1, DamageKept
<1>5. CASE ~Alone
  <2>1. Clears' = Clears + 1 /\ Clears \in Nat
    BY <1>5, ClearsMore
  <2>2. DoneSet(s)' = DoneSet(s)
    BY <1>2 DEF DoneSet
  <2>3. SessionInv(s, b, DoneSet(s) \cup F)'
    BY <1>3, <2>2, SameCommands
  <2>4. Cardinality(F) \in Nat /\ Cardinality(DoneSet(s)) \in Nat /\ Len(done[s]) \in Nat
    BY FS_CardinalityType DEF Damage, Types, HistoryTypes
  <2>5. Cardinality(F) + (Len(done[s]) - Cardinality(DoneSet(s)))
          + (IF b = bit'[s] THEN 0 ELSE 1) <= Clears'
    BY <2>1, <2>4 DEF Damage
  <2>. QED
    BY <1>1, <1>2, <2>2, <2>3, <2>5 DEF Damage
<1>. QED
  BY <1>4, <1>5

\* The arithmetic of one command: f commands ignored, n executed, of which m different.
LEMMA Losses ==
  ASSUME NEW f \in Nat, NEW n \in Nat, NEW m \in Nat, m <= n,
         NEW f2 \in Nat, NEW n2 \in Nat, NEW m2 \in Nat,
         NEW x \in {0, 1}, NEW x2 \in {0, 1}, NEW C, f + (n - m) + x <= C, C \in Nat,
         \/ f2 = f /\ n2 = n /\ m2 = m /\ x2 = x
         \/ f2 = f /\ n2 = n + 1 /\ m2 = m + 1 /\ x2 = x
         \/ f2 = f /\ n2 \in {n, n + 1} /\ m2 \in {m, m + 1} /\ m2 <= n2 /\ x = 1 /\ x2 = 0
         \/ f2 \in {f, f + 1} /\ n2 = n /\ m2 = m /\ x = 1 /\ x2 = 0
  PROVE  m2 <= n2 /\ f2 + (n2 - m2) + x2 <= C
OBVIOUS

\* A command whose bit is right costs nothing; one whose bit is wrong makes the bit
\* right, and is ignored though it is new, or executed again.
LEMMA CommandDamage ==
  ASSUME Types, NEW s \in Sessions, NEW b \in {0, 1}, NEW F \in SUBSET Nat, Damage(s, b, F),
         NEW r \in Frames, r.from = s, Taken(s, r), MayAnswer(s, r),
         bit'[s] = IF LostReply(r) THEN bit[s] ELSE 1 - bit[s],
         done'[s] = IF Executes(r) THEN Append(done[s], r.op) ELSE done[s],
         skipped'[s] = skipped[s], UNCHANGED <<at, phase, kind, op>>, Clears' = Clears
  PROVE  \E c \in {0, 1}, G \in SUBSET Nat : Damage(s, c, G)'
<1> DEFINE Wrong(c, z) == IF c = z THEN 0 ELSE 1
<1>1. PICK D \in SUBSET Nat : D = DoneSet(s) \cup F
  BY DoneIsNat
<1>2. SessionInv(s, b, D) /\ skipped[s] \subseteq F
  BY <1>1 DEF Damage
<1>3. /\ r.phase \in {0, 1} /\ bit[s] \in {0, 1} /\ r.op \in Nat
      /\ LostReply(r) <=> bit[s] # r.phase
      /\ Executes(r) <=> Changes(r) /\ bit[s] = r.phase
      /\ b = 0 => bit[s] = 0
  BY DEF Types, ServerTypes, Frames, LostReply, Executes, Changes, Damage
<1>4. /\ done[s] \in Seq(Nat) /\ IsFiniteSet(F) /\ IsFiniteSet(DoneSet(s))
      /\ Cardinality(F) \in Nat /\ Cardinality(DoneSet(s)) \in Nat /\ Len(done[s]) \in Nat
      /\ Cardinality(DoneSet(s)) <= Len(done[s])
      /\ Cardinality(F) + (Len(done[s]) - Cardinality(DoneSet(s))) + Wrong(b, bit[s]) <= Clears
  BY FS_CardinalityType DEF Damage, Types, HistoryTypes
<1>5. 1 \in Mine(s) /\ ring[1] = r
  BY DEF Taken
<1>6. Clears \in Nat
  BY DEF Clears, Types, HistoryTypes
<1>7. IF Executes(r)
        THEN /\ DoneSet(s)' = DoneSet(s) \cup {r.op} /\ IsFiniteSet(DoneSet(s)')
             /\ Len(done'[s]) = Len(done[s]) + 1
             /\ Cardinality(DoneSet(s)') =
                  IF r.op \in DoneSet(s) THEN Cardinality(DoneSet(s))
                                         ELSE Cardinality(DoneSet(s)) + 1
        ELSE DoneSet(s)' = DoneSet(s) /\ done'[s] = done[s]
  <2>1. CASE Executes(r)
    <3>1. DoneSet(s)' = DoneSet(s) \cup {r.op}
      BY <1>3, <2>1, DoneGrows
    <3>2. Len(done'[s]) = Len(done[s]) + 1
      BY <1>3, <1>4, <2>1
    <3>3. PICK S : S = DoneSet(s)
      OBVIOUS
    <3>4. /\ IsFiniteSet(S \cup {r.op})
          /\ Cardinality(S \cup {r.op}) = IF r.op \in S THEN Cardinality(S) ELSE Cardinality(S) + 1
      BY <1>4, <3>3, FS_AddElement
    <3>. QED
      BY <2>1, <3>1, <3>2, <3>3, <3>4
  <2>2. CASE ~Executes(r)
    BY <2>2 DEF DoneSet
  <2>. QED
    BY <2>1, <2>2
<1>8. ASSUME NEW c \in {0, 1}, NEW G \in SUBSET Nat, NEW E, SessionInv(s, c, E)',
             E = DoneSet(s)' \cup G, F \subseteq G, IsFiniteSet(G), c = 0 => bit'[s] = 0,
             \/ G = F /\ Wrong(c, bit'[s]) = Wrong(b, bit[s])
                      /\ (Executes(r) => r.op \notin DoneSet(s))
             \/ G = F /\ Wrong(b, bit[s]) = 1 /\ Wrong(c, bit'[s]) = 0
             \/ /\ Cardinality(G) \in {Cardinality(F), Cardinality(F) + 1} /\ ~Executes(r)
                /\ Wrong(b, bit[s]) = 1 /\ Wrong(c, bit'[s]) = 0
      PROVE  Damage(s, c, G)'
  <2>1. SessionInv(s, c, DoneSet(s) \cup G)'
    BY <1>8, SameCommands
  <2>2. IsFiniteSet(DoneSet(s)') /\ Cardinality(DoneSet(s)') \in Nat /\ Len(done'[s]) \in Nat
        /\ Cardinality(G) \in Nat
    BY <1>4, <1>7, <1>8, FS_CardinalityType
  <2>3. /\ Cardinality(DoneSet(s)') <= Len(done'[s])
        /\ Cardinality(G) + (Len(done'[s]) - Cardinality(DoneSet(s)')) + Wrong(c, bit'[s])
             <= Clears
    <3> DEFINE f == Cardinality(F)   n == Len(done[s])    m == Cardinality(DoneSet(s))
               g == Cardinality(G)   n2 == Len(done'[s])  m2 == Cardinality(DoneSet(s)')
               x == Wrong(b, bit[s]) x2 == Wrong(c, bit'[s])
    <3>1. x \in {0, 1} /\ x2 \in {0, 1}
      OBVIOUS
    <3>2. \/ g = f /\ n2 = n /\ m2 = m /\ x2 = x
          \/ g = f /\ n2 = n + 1 /\ m2 = m + 1 /\ x2 = x
          \/ g = f /\ n2 \in {n, n + 1} /\ m2 \in {m, m + 1} /\ m2 <= n2 /\ x = 1 /\ x2 = 0
          \/ g \in {f, f + 1} /\ n2 = n /\ m2 = m /\ x = 1 /\ x2 = 0
      BY <1>4, <1>7, <1>8
    <3>3. f \in Nat /\ n \in Nat /\ m \in Nat /\ m <= n /\ g \in Nat /\ n2 \in Nat /\ m2 \in Nat
          /\ f + (n - m) + x <= Clears
      BY <1>4, <2>2
    <3>. HIDE DEF f, n, m, g, n2, m2, x, x2
    <3>4. m2 <= n2 /\ g + (n2 - m2) + x2 <= Clears
      BY <1>6, <3>1, <3>2, <3>3, Losses
    <3>. QED
      BY <3>4 DEF g, n2, m2, x2
  <2>. QED
    BY <1>2, <1>8, <2>1, <2>2, <2>3 DEF Damage
<1>9. CASE r.phase # b
  <2>1. SessionInv(s, b, D)'
    BY <1>2, <1>9, RepetitionKeeps
  <2>2. Changes(r) => r.op \in D
    BY <1>2, <1>5, <1>9 DEF SessionInv, Past
  <2>3. D = DoneSet(s)' \cup F
    BY <1>1, <1>3, <1>7, <2>2
  <2>4. CASE b = bit[s]
    <3>1. ~Executes(r) /\ bit'[s] = bit[s]
      BY <1>3, <1>9, <2>4
    <3>. QED
      BY <1>3, <1>4, <1>8, <2>1, <2>3, <3>1
  <2>5. CASE b # bit[s]
    <3>1. b = 1 /\ bit[s] = 0 /\ bit'[s] = 1
      BY <1>3, <1>9, <2>5
    <3>. QED
      BY <1>3, <1>4, <1>8, <2>1, <2>3, <3>1
  <2>. QED
    BY <2>4, <2>5
<1>10. CASE r.phase = b
  <2> DEFINE c == 1 - b
  <2>1. PICK E : E = IF Changes(r) THEN D \cup {r.op} ELSE D
    OBVIOUS
  <2>2. c \in {0, 1} /\ c # b
    OBVIOUS
  <2>. HIDE DEF c
  <2>3. SessionInv(s, c, E)'
    BY <1>2, <1>10, <2>1, <2>2, FirstArrivalKeeps
  <2>4. CASE b = bit[s]
    <3>1. (Executes(r) <=> Changes(r)) /\ bit'[s] = c
      BY <1>3, <1>10, <2>4 DEF c
    <3>2. Executes(r) => r.op \notin D
      BY <1>2, <1>5, <1>10, <3>1 DEF SessionInv, Current
    <3>3. E = DoneSet(s)' \cup F
      BY <1>1, <1>7, <2>1, <3>1
    <3>. QED
      BY <1>1, <1>4, <1>8, <2>2, <2>3, <2>4, <3>1, <3>2, <3>3
  <2>5. CASE b # bit[s]
    <3>1. b = 1 /\ bit[s] = 0 /\ ~Executes(r) /\ bit'[s] = 0 /\ c = 0
      BY <1>3, <1>10, <2>5 DEF c
    <3>2. PICK G \in SUBSET Nat : G = IF Changes(r) THEN F \cup {r.op} ELSE F
      BY <1>3
    <3>3. IsFiniteSet(G) /\ F \subseteq G
          /\ Cardinality(G) \in {Cardinality(F), Cardinality(F) + 1}
      BY <1>4, <3>2, FS_AddElement
    <3>4. E = DoneSet(s)' \cup G
      BY <1>1, <1>7, <2>1, <3>1, <3>2
    <3>. QED
      BY <1>8, <2>2, <2>3, <3>1, <3>3, <3>4
  <2>. QED
    BY <2>4, <2>5
<1>. QED
  BY <1>9, <1>10

\* Every session loses at most its share at every step.
LEMMA DamageStep == Types /\ LeaveInv /\ DamageInv /\ [Next]_vars => DamageInv'
<1> SUFFICES ASSUME Types, LeaveInv, DamageInv, [Next]_vars, NEW s \in Sessions
             PROVE  \E c \in {0, 1}, G \in SUBSET Nat : Damage(s, c, G)'
  BY DEF DamageInv
<1>1. PICK b \in {0, 1}, F \in SUBSET Nat : Damage(s, b, F)
  BY DEF DamageInv
<1>2. ASSUME NEW t \in Sessions, Start(t) \/ Script(t) PROVE Damage(s, b, F)'
  <2>1. Clears' = Clears
    BY <1>2, ClearsKept
  <2>2. CASE t = s
    BY <1>1, <1>2, <2>2, ScriptDamage
  <2>3. CASE t # s
    BY <1>1, <1>2, <2>1, <2>3, ScriptLocal, OtherDamage
  <2>. QED
    BY <2>2, <2>3
<1>3. CASE Idles
  BY <1>1, <1>3, IdleLocal, ClearsKept, OtherDamage
<1>4. CASE GuestInt13 \/ Reboot
  BY <1>1, <1>4, ResetDamages
<1>5. ASSUME NEW d \in BOOLEAN, LoopCommand(d)
      PROVE  \E c \in {0, 1}, G \in SUBSET Nat : Damage(s, c, G)'
  <2> DEFINE r == Head(ring)
  <2>1. PICK q : q = r
    OBVIOUS
  <2>2. /\ q \in Frames /\ q.from \in Sessions /\ ring # << >> /\ ring' = Tail(ring)
        /\ UNCHANGED <<at, phase, kind, op>> /\ skipped' = skipped
        /\ MayAnswer(q.from, q)
        /\ bit'[q.from] = IF LostReply(q) THEN bit[q.from] ELSE 1 - bit[q.from]
        /\ done'[q.from] = IF Executes(q) THEN Append(done[q.from], q.op) ELSE done[q.from]
        /\ \A u \in Sessions : u # q.from =>
             rep'[u] = rep[u] /\ bit'[u] = bit[u] /\ done'[u] = done[u]
    BY <1>5, <2>1, CommandEffect DEF client
  <2>3. /\ \A u \in Sessions : \A i \in Mine(u)' :
             i \in Nat /\ i >= 1 /\ i + 1 \in Mine(u) /\ ring'[i] = ring[i + 1]
        /\ 1 \in Mine(q.from) /\ q = ring[1]
    BY <2>1, <2>2, MineTaken
  <2>. HIDE DEF r
  <2>4. Clears' = Clears
    BY <1>5, ClearsKept
  <2>5. CASE q.from = s
    BY <1>1, <2>2, <2>3, <2>4, <2>5, CommandDamage DEF Taken
  <2>6. CASE q.from # s
    <3>1. Untouched(s, 1)
      BY <2>2, <2>3, <2>6 DEF Untouched, Stays
    <3>. QED
      BY <1>1, <2>4, <3>1, OtherDamage
  <2>. QED
    BY <2>5, <2>6
<1>. QED
  BY <1>2, <1>3, <1>4, <1>5, StepKinds

\* Nothing is lost at first.
LEMMA DamageInit == Init => DamageInv
<1> SUFFICES ASSUME Init, NEW s \in Sessions PROVE Damage(s, 0, {})
  BY DEF DamageInv
<1>1. /\ at[s] = "off" /\ phase[s] = 0 /\ bit[s] = 0 /\ ring = << >> /\ rep[s] = << >>
      /\ done[s] = << >> /\ skipped[s] = {}
  BY DEF Init
<1>2. Mine(s) = {} /\ DoneSet(s) = {} /\ Len(done[s]) = 0
  BY <1>1 DEF Mine, DoneSet
<1>3. Clears \in Nat
  <2>1. entries = 0 /\ reboots = 0
    BY DEF Init
  <2>. QED
    BY <2>1 DEF Clears
<1>4. SessionInv(s, 0, {})
  BY <1>1, <1>2 DEF SessionInv, Current, Past, Uniform, Ordered, Alternate, LiveLast, Between,
                    Repeats, Answers, ByTheBit, Changing, Gone
<1>5. SessionInv(s, 0, DoneSet(s) \cup {})
  BY <1>2, <1>4
<1>6. IsFiniteSet({}) /\ Cardinality({}) = 0
  BY FS_EmptySet
<1>. QED
  BY <1>1, <1>2, <1>3, <1>5, <1>6 DEF Damage

\* It holds always.
LEMMA DamageAlways == Spec => []DamageInv
BY DamageInit, DamageStep, TypesCorrect, LeaveAlways, PTL DEF Spec

\* The commands answered though never executed are among those ignored.
LEMMA DamageIsBounded == Types /\ DamageInv => ResetDamage
<1> SUFFICES ASSUME Types, DamageInv, NEW s \in Sessions
             PROVE  /\ Cardinality(skipped[s]) <= entries + reboots
                    /\ Len(done[s]) - Cardinality(DoneSet(s)) <= entries + reboots
  BY DEF ResetDamage
<1>1. PICK b \in {0, 1}, F \in SUBSET Nat : Damage(s, b, F)
  BY DEF DamageInv
<1>2. Clears <= entries + reboots /\ entries + reboots \in Nat /\ Clears \in Nat
  BY DEF Clears, Types, HistoryTypes
<1>3. /\ skipped[s] \in SUBSET F /\ IsFiniteSet(F) /\ IsFiniteSet(DoneSet(s))
      /\ Cardinality(DoneSet(s)) <= Len(done[s])
      /\ Cardinality(F) + (Len(done[s]) - Cardinality(DoneSet(s)))
           + (IF b = bit[s] THEN 0 ELSE 1) <= Clears
  BY <1>1 DEF Damage
<1>4. Cardinality(F) \in Nat /\ Cardinality(DoneSet(s)) \in Nat /\ Len(done[s]) \in Nat
  BY <1>3, FS_CardinalityType DEF Types, HistoryTypes
<1>5. PICK S : S = skipped[s]
  OBVIOUS
<1>6. Cardinality(S) <= Cardinality(F) /\ Cardinality(S) \in Nat
  BY <1>3, <1>5, FS_Subset, FS_CardinalityType
<1>. QED
  BY <1>2, <1>3, <1>4, <1>5, <1>6

\* Every time ping_pong is cleared, by start() entered again or by a reboot of the target,
\* it costs a session at most one command answered without being executed and one
\* executed twice: whatever was lost or repeated, wherever scripts died, and however
\* often it happened before, the phase bits settle with the next command.
THEOREM ResetsCostLittle == Spec => []ResetDamage
BY DamageAlways, DamageIsBounded, TypesCorrect, PTL

-------------------------------------------------------------------------------
(* Execution: the commands implement calls *)

\* Where nothing is lost the bits are right.
LEMMA SyncedUnharmed == Types /\ DamageInv => BitInv
<1> SUFFICES ASSUME Types, DamageInv, Clears = 0, NEW s \in Sessions PROVE Synced(s)
  BY DEF BitInv
<1>1. PICK b \in {0, 1}, F \in SUBSET Nat : Damage(s, b, F)
  BY DEF DamageInv
<1>2. /\ IsFiniteSet(F) /\ IsFiniteSet(DoneSet(s))
      /\ Cardinality(DoneSet(s)) <= Len(done[s])
      /\ Cardinality(F) + (Len(done[s]) - Cardinality(DoneSet(s)))
           + (IF b = bit[s] THEN 0 ELSE 1) <= 0
  BY <1>1 DEF Damage
<1>3. Cardinality(F) \in Nat /\ Cardinality(DoneSet(s)) \in Nat /\ Len(done[s]) \in Nat
  BY <1>2, FS_CardinalityType DEF Types, HistoryTypes
<1>4. Cardinality(F) = 0 /\ b = bit[s]
  BY <1>2, <1>3
<1>5. F = {}
  BY <1>2, <1>4, FS_EmptySet
<1>6. DoneSet(s) \cup F = DoneSet(s)
  BY <1>5
<1>. QED
  BY <1>1, <1>4, <1>6 DEF Damage, Synced

\* The bits do their work until ping_pong is cleared, or always for a session alone.
LEMMA BitCorrect == Spec => []BitInv
BY SyncedUnharmed, DamageAlways, TypesCorrect, PTL

\* The steps that clear no bit that matters.
LEMMA Unharmed ==
  ASSUME Types, [Next]_vars, Clears' = 0
  PROVE  /\ Clears = 0
         /\ \/ \E s \in Sessions : Start(s) \/ Script(s)
            \/ Idles
            \/ \E d \in BOOLEAN : LoopCommand(d)
            \/ Alone /\ GuestInt13
<1>1. CASE GuestInt13 \/ Reboot
  BY <1>1, ClearsMore
<1>. QED
  BY <1>1, StepKinds, ClearsKept

\* Before the first reset none does.
LEMMA NoResetIsUnharmed == NoReset' => Clears' = 0
BY DEF NoReset, Clears

\* Rpc's Executed, in the words of Session.
LEMMA ExecutedIsDone ==
  ASSUME NEW s \in Sessions
  PROVE  Calls!Executed(s) <=> op[s] \in DoneSet(s)
BY DEF Calls!Executed, DoneSet

\* Whether each script is in a call.
Busy == [s \in Sessions |-> at[s] = "call"]

\* A script's step is a call, a return, a leave, or the start of another script.
LEMMA ScriptRefines ==
  ASSUME Types, NEW s \in Sessions, Synced(s), Start(s) \/ Script(s)
  PROVE  [Calls!Next]_(Calls!vars)
<1>1. CASE UNCHANGED <<Busy, kind, op, starts, done>>
  BY <1>1 DEF Calls!vars, Busy
<1>2. CASE Start(s)
  <2>1. at' = [at EXCEPT ![s] = "sync"] /\ UNCHANGED <<kind, op, done>>
    BY <1>2 DEF Start, history
  <2>2. Busy' = [Busy EXCEPT ![s] = FALSE]
    BY <2>1 DEF Busy, Types, ClientTypes
  <2>3. starts' = [starts EXCEPT ![s] = @ + 1]
    BY <1>2 DEF Start
  <2>4. Calls!Start(s)
    BY <2>1, <2>2, <2>3 DEF Calls!Start, Busy
  <2>. QED
    BY <2>4 DEF Calls!Next
<1>3. CASE Call(s)
  <2>1. /\ at' = [at EXCEPT ![s] = "call"] /\ op' = [op EXCEPT ![s] = @ + 1]
        /\ UNCHANGED <<starts, done>> /\ at[s] = "idle"
    BY <1>3 DEF Call, history
  <2>2. Busy' = [Busy EXCEPT ![s] = TRUE] /\ ~Busy[s]
    BY <2>1 DEF Busy, Types, ClientTypes
  <2>3. PICK k \in Kinds[s] : kind' = [kind EXCEPT ![s] = k]
    BY <1>3 DEF Call
  <2>4. k \in Effects \cup {"read"}
    BY SessionAssumption DEF Effects
  <2>5. Calls!Call(s)
    BY <2>1, <2>2, <2>3, <2>4 DEF Calls!Call, Busy
  <2>. QED
    BY <2>5 DEF Calls!Next
<1>4. CASE MsgAnswered(s)
  <2>1. /\ at' = [at EXCEPT ![s] = IF @ = "presync" THEN "leaving" ELSE "idle"]
        /\ UNCHANGED <<kind, op, starts, done>>
    BY <1>4 DEF MsgAnswered, Returned
  <2>2. CASE at[s] = "call"
    <3>1. Busy' = [Busy EXCEPT ![s] = FALSE] /\ Busy[s]
      BY <2>1, <2>2 DEF Busy, Types, ClientTypes
    <3>2. kind[s] \in Effects => Calls!Executed(s)
      <4>1. rep[s] \in Seq(Datagrams) /\ rep[s] # << >> /\ Head(rep[s]).phase = phase[s]
        BY <1>4 DEF MsgAnswered, Types, SocketTypes
      <4>2. 1 \in DOMAIN rep[s] /\ rep[s][1].phase = phase[s]
        BY <4>1
      <4>3. bit[s] # phase[s]
        BY <4>2 DEF Synced, SessionInv, Answers
      <4>. QED
        BY <2>2, <4>3, ExecutedIsDone DEF Synced, SessionInv, ByTheBit, Changing
    <3>3. Calls!Return(s)
      BY <2>1, <3>1, <3>2 DEF Calls!Return, Busy
    <3>. QED
      BY <3>3 DEF Calls!Next
  <2>3. CASE at[s] # "call"
    <3>1. Busy' = Busy
      BY <2>1, <2>3 DEF Busy, Types, ClientTypes
    <3>. QED
      BY <1>1, <2>1, <3>1
  <2>. QED
    BY <2>2, <2>3
<1>5. CASE SendLeave(s)
  <2>1. /\ at[s] \in {"leaving", "copy2", "copy3"} /\ at'[s] # "call" /\ UNCHANGED <<starts, done>>
        /\ at' = [at EXCEPT ![s] = NextCopy[@]]
    BY <1>5, CopyOrder DEF SendLeave, history, Types, ClientTypes
  <2>2. Busy' = Busy /\ ~Busy[s]
    BY <2>1 DEF Busy, Types, ClientTypes
  <2>3. CASE at[s] = "leaving"
    <3>1. kind' = [kind EXCEPT ![s] = "leave"] /\ op' = [op EXCEPT ![s] = @ + 1]
      BY <1>5, <2>3 DEF SendLeave
    <3>2. Calls!Post(s)
      BY <2>1, <2>2, <3>1 DEF Calls!Post, Busy
    <3>. QED
      BY <3>2 DEF Calls!Next
  <2>4. CASE at[s] # "leaving"
    <3>1. UNCHANGED <<kind, op>>
      BY <1>5, <2>4 DEF SendLeave
    <3>. QED
      BY <1>1, <2>1, <2>2, <3>1
  <2>. QED
    BY <2>3, <2>4
<1>6. CASE BeginLeave(s) \/ WaitReceives(s)
  <2>1. /\ UNCHANGED <<kind, op, starts, done>>
        /\ \E w \in {"presync", "leaving", "sync", "wait"} : at' = [at EXCEPT ![s] = w]
        /\ at[s] # "call"
    BY <1>6 DEF BeginLeave, WaitReceives, history
  <2>2. Busy' = Busy
    BY <2>1 DEF Busy, Types, ClientTypes
  <2>. QED
    BY <1>1, <2>1, <2>2
<1>7. CASE SendDelivered(s) \/ MsgIgnores(s)
  BY <1>1, <1>7 DEF SendDelivered, MsgIgnores, client, history, Busy
<1>. QED
  BY <1>2, <1>3, <1>4, <1>5, <1>6, <1>7 DEF Script

\* The target executes the last command of a script, once.
LEMMA CommandRefines ==
  ASSUME Types, \A s \in Sessions : Synced(s), NEW d \in BOOLEAN, LoopCommand(d)
  PROVE  [Calls!Next]_(Calls!vars)
<1> DEFINE r == Head(ring)
           s == r.from
<1>1. s \in Sessions /\ ring # << >> /\ UNCHANGED <<at, kind, op, starts>>
  BY CommandEffect DEF client
<1>2. done' = IF Executes(r) THEN [done EXCEPT ![s] = Append(@, r.op)] ELSE done
  BY DEF LoopCommand
<1>3. Busy' = Busy
  BY <1>1 DEF Busy
<1>4. 1 \in Mine(s) /\ ring[1] = r
  <2>1. ring' = Tail(ring)
    BY DEF LoopCommand
  <2>. QED
    BY <1>1, <2>1, MineTaken
<1>. HIDE DEF r, s
<1>5. CASE Executes(r)
  <2>1. Changes(r) /\ r.phase = bit[s]
    BY <1>5 DEF Executes, LostReply, Changes, s
  <2>2. r.op = op[s] /\ r.kind = kind[s] /\ op[s] \notin DoneSet(s)
    BY <1>1, <1>4, <2>1 DEF Synced, SessionInv, Current
  <2>3. kind[s] \in Effects \cup {"leave"} /\ ~Calls!Executed(s)
    BY <1>1, <2>1, <2>2, ExecutedIsDone DEF Changes
  <2>4. Calls!Execute(s)
    BY <1>1, <1>2, <1>3, <1>5, <2>2, <2>3 DEF Calls!Execute, Busy
  <2>. QED
    BY <1>1, <2>4 DEF Calls!Next
<1>6. CASE ~Executes(r)
  BY <1>1, <1>2, <1>3, <1>6 DEF Calls!vars, Busy
<1>. QED
  BY <1>5, <1>6

\* Every step that clears no bit that matters is one of Rpc.
LEMMA CallsStep ==
  Types /\ BitInv /\ [Next]_vars /\ Clears' = 0 => [Calls!Next]_(Calls!vars)
<1> SUFFICES ASSUME Types, BitInv, [Next]_vars, Clears' = 0 PROVE [Calls!Next]_(Calls!vars)
  OBVIOUS
<1>1. \A s \in Sessions : Synced(s)
  BY Unharmed DEF BitInv
<1>2. CASE Idles \/ GuestInt13
  BY <1>2 DEF Idles, LoopTop, LoopNoPacket, LoopForeign, NetForeign, GuestInt13, vars, client,
              history, Calls!vars
<1>. QED
  BY <1>1, <1>2, Unharmed, ScriptRefines, CommandRefines

\* The execution part of ImplementsRpcUntilReset.
ExecutesOnce == Calls!Init /\ [][NoReset' => [Calls!Next]_(Calls!vars)]_vars

\* Whatever is lost, repeated or answered late, wherever scripts die, and however
\* many sessions share the target: until ping_pong is cleared a call does not return
\* before its command was executed, unless its script is replaced by another one, and no
\* command is executed twice.
THEOREM ExactlyOnce == Spec => ExecutesOnce
<1>1. Init => Calls!Init
  BY DEF Init, Calls!Init
<1>2. Types /\ BitInv /\ [Next]_vars => [NoReset' => [Calls!Next]_(Calls!vars)]_vars
  BY CallsStep, NoResetIsUnharmed
<1>. QED
  BY <1>1, <1>2, TypesCorrect, BitCorrect, PTL DEF Spec, ExecutesOnce

-------------------------------------------------------------------------------
(* Values: a call returns what its own execution produced *)

\* Another session's step leaves the values of t alone; only an inb or int
\* changes the static variable.
LEMMA ValuesLocal ==
  ASSUME Types, NEW t \in Sessions, Values(t), NEW d \in Nat, Untouched(t, d),
         cache' = cache \/ "cached" \notin Kinds[t]
  PROVE  Values(t)'
BY DEF Values, Untouched, Stays, Types, ClientTypes, Isr

\* Outside a call only the frames sent matter.
LEMMA ValuesAway ==
  ASSUME Types, NEW s \in Sessions, Values(s), at'[s] # "call",
         kind'[s] \in {kind[s], "leave"},
         \A i \in Mine(s)' : \/ ring'[i].kind = "leave"
                             \/ i \in Mine(s) /\ ring'[i].kind = ring[i].kind
  PROVE  Values(s)'
BY DEF Values

\* A script's step keeps the values of its session.
LEMMA ScriptValues ==
  ASSUME Types, NEW s \in Sessions, Synced(s), Values(s), Start(s) \/ Script(s)
  PROVE  Values(s)'
<1>1. CASE Start(s)
  <2>1. /\ at'[s] = "sync" /\ kind' = kind
        /\ ring' = [i \in DOMAIN ring |->
                      IF ring[i].from = s THEN [ring[i] EXCEPT !.live = FALSE] ELSE ring[i]]
    BY <1>1 DEF Start, Types, ClientTypes
  <2>2. \A i \in DOMAIN ring : ring[i] \in Frames
    BY DEF Types, RingTypes
  <2>3. \A i \in Mine(s)' : i \in Mine(s) /\ ring'[i].kind = ring[i].kind
    BY <2>1, <2>2 DEF Mine, Frames
  <2>. QED
    BY <2>1, <2>3, ValuesAway
<1>2. CASE Call(s)
  <2>1. /\ at[s] = "idle" /\ kind'[s] \in Kinds[s]
        /\ UNCHANGED <<phase, bit, rep, ring>>
    BY <1>2 DEF Call, server, Types, ClientTypes
  <2>2. bit[s] = phase[s]
    BY <2>1 DEF Synced, SessionInv, Between
  <2>3. \A i \in DOMAIN rep[s] : rep[s][i].phase # phase[s]
    BY <2>2 DEF Synced, SessionInv, Answers
  <2>4. Mine(s)' = Mine(s)
    BY <2>1 DEF Mine
  <2>. QED
    BY <2>1, <2>2, <2>3, <2>4 DEF Values
<1>3. CASE SendDelivered(s)
  <2>1. /\ UNCHANGED <<at, phase, kind, op, rep, bit, cache>>
        /\ ring' = Append(ring, Request(s))
    BY <1>3 DEF SendDelivered, client, server
  <2>2. Request(s) \in Frames /\ (Request(s).kind = "cached" => kind[s] = "cached")
    BY <1>3, RequestType DEF SendDelivered, Request, Datagram, Types
  <2>3. PICK n \in Nat : OneMore(s, n, Request(s))
    BY <2>1, <2>2, MineAppended
  <2>4. \A i \in Mine(s)' : ring'[i].kind = "cached" => "cached" \in Kinds[s]
    BY <2>2, <2>3 DEF OneMore, Values
  <2>. QED
    BY <2>1, <2>4 DEF Values
<1>4. CASE MsgIgnores(s)
  <2>1. /\ UNCHANGED <<at, phase, kind, op, bit, cache, ring>>
        /\ rep[s] \in Seq(Datagrams) /\ rep[s] # << >> /\ rep'[s] = Tail(rep[s])
    BY <1>4 DEF MsgIgnores, client, server, Types, SocketTypes
  <2>2. \A i \in DOMAIN rep'[s] : i + 1 \in DOMAIN rep[s] /\ rep'[s][i] = rep[s][i + 1]
    <3>. DEFINE q == rep[s]
    <3>1. q \in Seq(Datagrams) /\ q # << >> /\ rep'[s] = Tail(q)
      BY <2>1
    <3>. HIDE DEF q
    <3>2. \A i \in DOMAIN Tail(q) : i + 1 \in DOMAIN q /\ Tail(q)[i] = q[i + 1]
      BY <3>1
    <3>. QED
      BY <3>1, <3>2 DEF q
  <2>3. Mine(s)' = Mine(s)
    BY <2>1 DEF Mine
  <2>. QED
    BY <2>1, <2>2, <2>3 DEF Values
<1>5. CASE MsgAnswered(s) \/ BeginLeave(s) \/ WaitReceives(s)
  <2>1. /\ at'[s] # "call" /\ UNCHANGED <<kind, ring>>
    BY <1>5 DEF MsgAnswered, Returned, BeginLeave, WaitReceives, Types, ClientTypes
  <2>2. Mine(s)' = Mine(s)
    BY <2>1 DEF Mine
  <2>. QED
    BY <2>1, <2>2, ValuesAway
<1>6. CASE SendLeave(s)
  <2> DEFINE r == Datagram(s, "leave", op'[s])
  <2>1. /\ at'[s] # "call" /\ kind'[s] \in {kind[s], "leave"} /\ op'[s] \in Nat
        /\ UNCHANGED ring \/ ring' = Append(ring, r)
    BY <1>6, CopyOrder DEF SendLeave, Types, ClientTypes
  <2>2. r.kind = "leave" /\ r \in Frames
    BY <2>1, DatagramType DEF Datagram, Types
  <2>. HIDE DEF r
  <2>3. CASE UNCHANGED ring
    <3>1. Mine(s)' = Mine(s)
      BY <2>3 DEF Mine
    <3>. QED
      BY <2>1, <2>3, <3>1, ValuesAway
  <2>4. CASE ring' = Append(ring, r)
    <3>1. PICK n \in Nat : OneMore(s, n, r)
      BY <2>2, <2>4, MineAppended
    <3>. QED
      BY <2>1, <2>2, <3>1, ValuesAway DEF OneMore
  <2>. QED
    BY <2>1, <2>3, <2>4
<1>. QED
  BY <1>1, <1>2, <1>3, <1>4, <1>5, <1>6 DEF Script

\* The command is executed, or repeated and answered from the static variable.
LEMMA CommandValues ==
  ASSUME Types, NEW s \in Sessions, Synced(s), Values(s), NEW r \in Frames,
         Taken(s, r), MayAnswer(s, r), r.from = s,
         bit'[s] = IF LostReply(r) THEN bit[s] ELSE 1 - bit[s],
         cache' = IF Executes(r) /\ r.kind = "cached" THEN <<s, r.op>> ELSE cache,
         UNCHANGED <<at, phase, kind, op>>
  PROVE  Values(s)'
<1>1. bit[s] \in {0, 1} /\ phase[s] \in {0, 1} /\ r.phase \in {0, 1}
  BY DEF Types, ClientTypes, ServerTypes, Frames
<1>2. 1 \in Mine(s) /\ ring[1] = r
      /\ \A i \in Mine(s)' : i + 1 \in Mine(s) /\ ring'[i] = ring[i + 1]
  BY DEF Taken
<1>3. at[s] = "call" /\ r.phase = phase[s] => r.kind = kind[s] /\ r.op = op[s]
  BY <1>2 DEF Synced, SessionInv, Repeats
<1>4. at[s] = "call" /\ kind[s] = "cached" /\ bit'[s] # phase[s] => cache' = <<s, op[s]>>
  <2> SUFFICES ASSUME at[s] = "call", kind[s] = "cached", bit'[s] # phase[s]
               PROVE  cache' = <<s, op[s]>>
    OBVIOUS
  <2>1. CASE LostReply(r)
    BY <2>1 DEF Executes, Values
  <2>2. CASE ~LostReply(r)
    <3>1. r.phase = phase[s]
      BY <1>1, <2>2 DEF LostReply
    <3>. QED
      BY <1>3, <2>2, <3>1 DEF Executes, Effects
  <2>. QED
    BY <2>1, <2>2
<1>5. ASSUME at[s] = "call", kind[s] \in {"cached", "read"}, r.phase = phase[s]
      PROVE  Answer(r).val = <<s, op[s]>>
  <2>1. bit'[s] # phase[s]
    BY <1>1, <1>5 DEF LostReply
  <2>. QED
    BY <1>3, <1>4, <1>5, <2>1 DEF Answer
<1>6. ASSUME at[s] = "call", kind[s] \in {"cached", "read"},
             NEW i \in DOMAIN rep'[s], rep'[s][i].phase = phase[s]
      PROVE  rep'[s][i].val = <<s, op[s]>>
  <2>1. \/ i \in DOMAIN rep[s] /\ rep'[s][i] = rep[s][i]
        \/ rep'[s][i] = Answer(r)
    BY <1>6, AnswerAdded
  <2>2. Answer(r).phase = r.phase
    BY DEF Answer
  <2>. QED
    BY <1>5, <1>6, <2>1, <2>2 DEF Values
<1>7. \A i \in Mine(s)' : ring'[i].kind = "cached" => "cached" \in Kinds[s]
  BY <1>2 DEF Values
<1>. QED
  BY <1>4, <1>6, <1>7 DEF Values

\* Every step that clears no bit that matters keeps the values of every session.
LEMMA ValueStep ==
  OneCaller /\ Types /\ LeaveInv /\ BitInv /\ ValueInv /\ [Next]_vars => ValueInv'
<1> SUFFICES ASSUME OneCaller, Types, LeaveInv, BitInv, ValueInv, [Next]_vars, Clears' = 0,
                    NEW t \in Sessions
             PROVE  Values(t)'
  BY DEF ValueInv
<1>1. \A s \in Sessions : Synced(s) /\ Values(s)
  BY Unharmed DEF BitInv, ValueInv
<1>2. ASSUME NEW s \in Sessions, Start(s) \/ Script(s)
      PROVE  Values(t)'
  <2>1. cache' = cache
    BY <1>2 DEF Script, Start, Call, SendDelivered, MsgAnswered, MsgIgnores, BeginLeave,
                SendLeave, WaitReceives, server
  <2>2. CASE t = s
    BY <1>1, <1>2, <2>2, ScriptValues
  <2>3. CASE t # s
    BY <1>1, <1>2, <2>1, <2>3, ScriptLocal, ValuesLocal
  <2>. QED
    BY <2>2, <2>3
<1>3. CASE Idles
  <2>1. cache' = cache
    BY <1>3, IdleEffect
  <2>. QED
    BY <1>1, <1>3, <2>1, IdleLocal, ValuesLocal
<1>4. ASSUME NEW d \in BOOLEAN, LoopCommand(d)
      PROVE  Values(t)'
  <2> DEFINE r == Head(ring)
  <2>1. /\ r \in Frames /\ r.from \in Sessions /\ ring # << >> /\ ring' = Tail(ring)
        /\ UNCHANGED <<at, phase, kind, op>>
        /\ MayAnswer(r.from, r)
        /\ bit'[r.from] = IF LostReply(r) THEN bit[r.from] ELSE 1 - bit[r.from]
        /\ cache' = IF Executes(r) /\ r.kind = "cached" THEN <<r.from, r.op>> ELSE cache
        /\ skipped' = skipped
        /\ \A u \in Sessions : u # r.from =>
             rep'[u] = rep[u] /\ bit'[u] = bit[u] /\ done'[u] = done[u]
    BY <1>4, CommandEffect DEF client
  <2>2. /\ \A u \in Sessions : \A i \in Mine(u)' :
             i \in Nat /\ i >= 1 /\ i + 1 \in Mine(u) /\ ring'[i] = ring[i + 1]
        /\ 1 \in Mine(r.from) /\ r = ring[1]
    BY <2>1, MineTaken
  <2>. HIDE DEF r
  <2>3. CASE r.from = t
    BY <1>1, <2>1, <2>2, <2>3, CommandValues DEF Taken
  <2>4. CASE r.from # t
    <3>1. Untouched(t, 1)
      BY <2>1, <2>2, <2>4 DEF Untouched, Stays
    <3>2. cache' = cache \/ "cached" \in Kinds[r.from]
      BY <1>1, <2>1, <2>2 DEF Values
    <3>3. cache' = cache \/ "cached" \notin Kinds[t]
      BY <2>1, <2>4, <3>2 DEF OneCaller
    <3>. QED
      BY <1>1, <3>1, <3>3, ValuesLocal
  <2>. QED
    BY <2>3, <2>4
<1>5. CASE Alone /\ GuestInt13
  <2>1. bit[t] = 0 /\ cache' = cache
    BY <1>5 DEF LeaveInv, GuestInt13
  <2>2. Untouched(t, 0)
    BY <1>5, <2>1, ResetLocal DEF Untouched
  <2>. QED
    BY <1>1, <2>1, <2>2, ValuesLocal
<1>. QED
  BY <1>2, <1>3, <1>4, <1>5, Unharmed

\* No value is on its way.
LEMMA ValueInit == Init => ValueInv
<1> SUFFICES ASSUME Init, NEW s \in Sessions PROVE Values(s)
  BY DEF ValueInv
<1>1. at[s] = "off" /\ kind[s] = "none" /\ ring = << >>
  BY DEF Init
<1>2. Mine(s) = {}
  BY <1>1 DEF Mine
<1>. QED
  BY <1>1, <1>2 DEF Values

\* The values on their way are right until ping_pong is cleared, or always for a session
\* alone.
LEMMA ValueCorrect == ASSUME OneCaller PROVE Spec => []ValueInv
<1>1. Types /\ LeaveInv /\ BitInv /\ ValueInv /\ [Next]_vars => ValueInv'
  BY OneCaller, ValueStep
<1>. QED
  BY <1>1, ValueInit, TypesCorrect, LeaveAlways, BitCorrect, PTL DEF Spec

\* Only msg() ends a call with a value.
LEMMA ReplyStep ==
  Types /\ BitInv /\ ValueInv /\ [Next]_vars /\ Clears' = 0 => OwnReply
<1> SUFFICES ASSUME Types, BitInv, ValueInv, [Next]_vars, Clears' = 0,
                    NEW s \in Sessions, at[s] = "call", at'[s] = "idle",
                    kind[s] \in {"cached", "read"}
             PROVE  val'[s] = <<s, op[s]>>
  BY DEF OwnReply
<1>1. Values(s)
  BY Unharmed DEF ValueInv
<1>2. at' # at
  OBVIOUS
<1>3. ~Idles /\ ~GuestInt13 /\ \A d \in BOOLEAN : ~LoopCommand(d)
  BY <1>2 DEF Idles, LoopTop, LoopNoPacket, LoopForeign, NetForeign, LoopCommand, GuestInt13,
              client, vars
<1>4. PICK t \in Sessions : Start(t) \/ Script(t)
  BY <1>3, Unharmed
<1>5. t = s
  BY <1>2, <1>4, ScriptLocal DEF Untouched, Stays
<1>6. MsgAnswered(s)
  BY <1>4, <1>5 DEF Script, Start, Call, SendDelivered, MsgIgnores, BeginLeave, SendLeave,
                    WaitReceives, client, Types, ClientTypes, NextCopy
<1>7. rep[s] \in Seq(Datagrams) /\ rep[s] # << >> /\ Head(rep[s]).phase = phase[s]
  BY <1>6 DEF MsgAnswered, Types, SocketTypes
<1>8. 1 \in DOMAIN rep[s] /\ Head(rep[s]) = rep[s][1]
  BY <1>7
<1>9. Head(rep[s]).val = <<s, op[s]>>
  BY <1>1, <1>7, <1>8 DEF Values
<1>. QED
  BY <1>6, <1>9 DEF MsgAnswered, Returned, Types, HistoryTypes

\* Any number of sessions, of which at most one uses inb and int: until ping_pong is
\* cleared each command is executed once for its return, and returns the value of
\* its own execution.
THEOREM RpcUntilReset == ASSUME OneCaller PROVE Spec => ImplementsRpcUntilReset
<1>1. Init => Calls!Init
  BY DEF Init, Calls!Init
<1>2. Types /\ BitInv /\ ValueInv /\ [Next]_vars =>
        [NoReset' => [Calls!Next]_(Calls!vars) /\ OwnReply]_vars
  BY CallsStep, ReplyStep, NoResetIsUnharmed
<1>3. Spec => []ValueInv
  BY ValueCorrect, OneCaller, PTL
<1>. QED
  BY <1>1, <1>2, <1>3, TypesCorrect, BitCorrect, PTL DEF Spec, ImplementsRpcUntilReset

\* A session alone is never harmed.
LEMMA AloneUnharmed == ASSUME Alone PROVE OneCaller /\ Clears' = 0
BY Alone DEF Alone, OneCaller, Clears

\* A script that has the target to itself, and whose target is not rebooted, may let the
\* guest run and be called back as often as it likes: what is cleared when start() is
\* entered again is 0 already, and each command is executed once for its return.
THEOREM OneScriptExactlyOnce == ASSUME Alone PROVE Spec => ImplementsRpc
<1>1. Init => Calls!Init
  BY DEF Init, Calls!Init
<1>2. Types /\ BitInv /\ [Next]_vars => [Calls!Next]_(Calls!vars)
  BY CallsStep, Alone, AloneUnharmed
<1>. QED
  BY <1>1, <1>2, TypesCorrect, BitCorrect, PTL DEF Spec, ImplementsRpc, Calls!Spec

\* And each call returns the value of its own execution, never the answer that an earlier
\* inb or int left in the static variable.
THEOREM OneScriptOwnReplies == ASSUME Alone PROVE Spec => ReplyIsMine
<1>1. Types /\ BitInv /\ ValueInv /\ [Next]_vars => [OwnReply]_vars
  BY ReplyStep, Alone, AloneUnharmed
<1>2. OneCaller
  BY Alone, AloneUnharmed
<1>3. Spec => []ValueInv
  BY ValueCorrect, <1>2, PTL
<1>. QED
  BY <1>1, <1>3, TypesCorrect, BitCorrect, PTL DEF Spec, ReplyIsMine

-------------------------------------------------------------------------------
(* Announcements: whom they reach *)

\* At most one session's script lets the guest run.
OneLeaver == \A s, t \in Leavers : s = t

\* An announcement is on its way to s.
HasIsr(s) == \E i \in DOMAIN rep[s] : rep[s][i].phase = Isr

\* No frame and no execution is newer than the script's last command.
Numbered(s) ==
  /\ \A i \in Mine(s) : Changes(ring[i]) =>
       ring[i].op <= op[s] /\ (ring[i].op = op[s] => ring[i].kind = kind[s])
  /\ \A n \in DoneSet(s) : n <= op[s]

\* Only leavers leave, and only a leave makes the target announce itself.
LeaverInv ==
  /\ \A s \in Sessions : Numbered(s)
  /\ \A i \in DOMAIN ring : ring[i].kind = "leave" => ring[i].from \in Leavers
  /\ \A s \in Sessions : at[s] \in {"presync", "leaving"} \cup Gone => s \in Leavers
  /\ \A s \in Sessions : at[s] \in Gone => kind[s] = "leave"
  /\ mode = "guest" \/ still => conn \in Leavers \cup {Nobody}

\* The target still has to announce itself to a script that left, or has done so.
Announced(s) == mode = "loop" /\ at[s] \in Gone /\ op[s] \in DoneSet(s) =>
  (still /\ ~sent) \/ missed \/ HasIsr(s)

\* A script's step keeps the numbers of its commands.
LEMMA ScriptNumbers ==
  ASSUME Types, NEW s \in Sessions, Numbered(s), at[s] \in Gone => kind[s] = "leave",
         Start(s) \/ Script(s)
  PROVE  Numbered(s)'
<1>1. DoneSet(s)' = DoneSet(s)
  BY ScriptEffect DEF DoneSet
<1>2. op[s] \in Nat /\ \A n \in DoneSet(s) : n \in Nat
  BY DoneIsNat DEF Types, ClientTypes
<1>3. \A i \in Mine(s) : ring[i].op \in Nat /\ ring[i].phase \in {0, 1}
  BY MineInRing DEF Frames
<1>4. ASSUME NEW r \in Frames, ring' = Append(ring, r), op'[s] >= op[s], op'[s] \in Nat,
             Changes(r) => r.op = op'[s] /\ r.kind = kind'[s],
             op'[s] = op[s] => kind'[s] = kind[s]
      PROVE  Numbered(s)'
  <2>1. PICK n \in Nat : OneMore(s, n, r)
    BY <1>4, MineAppended
  <2>2. ASSUME NEW i \in Mine(s)', Changes(ring'[i])
        PROVE  ring'[i].op <= op'[s] /\ (ring'[i].op = op'[s] => ring'[i].kind = kind'[s])
    <3>1. CASE i \in Mine(s) /\ ring'[i] = ring[i]
      BY <1>2, <1>3, <1>4, <2>2, <3>1 DEF Numbered
    <3>2. CASE ring'[i] = r
      BY <1>4, <2>2, <3>2
    <3>. QED
      BY <2>1, <3>1, <3>2 DEF OneMore
  <2>3. \A m \in DoneSet(s)' : m <= op'[s]
    BY <1>1, <1>2, <1>4 DEF Numbered
  <2>. QED
    BY <2>2, <2>3 DEF Numbered, Changes
<1>5. ASSUME ring' = ring, op'[s] >= op[s], op'[s] \in Nat, op'[s] = op[s] => kind'[s] = kind[s]
      PROVE  Numbered(s)'
  <2>1. Mine(s)' = Mine(s)
    BY <1>5 DEF Mine
  <2>. QED
    BY <1>1, <1>2, <1>3, <1>5, <2>1 DEF Numbered
<1>6. CASE Start(s)
  <2>1. /\ UNCHANGED <<kind, op>>
        /\ ring' = [i \in DOMAIN ring |->
                      IF ring[i].from = s THEN [ring[i] EXCEPT !.live = FALSE] ELSE ring[i]]
    BY <1>6 DEF Start
  <2>2. \A i \in DOMAIN ring : ring[i] \in Frames
    BY DEF Types, RingTypes
  <2>3. \A i \in Mine(s)' : /\ i \in Mine(s) /\ ring'[i].kind = ring[i].kind
                            /\ ring'[i].op = ring[i].op
    BY <2>1, <2>2 DEF Mine, Frames
  <2>. QED
    BY <1>1, <2>1, <2>3 DEF Numbered, Changes
<1>7. CASE Call(s)
  <2>1. ring' = ring /\ op'[s] = op[s] + 1
    BY <1>7 DEF Call, Types, ClientTypes
  <2>. QED
    BY <1>2, <1>5, <2>1
<1>8. CASE SendDelivered(s)
  <2>1. ring' = Append(ring, Request(s)) /\ UNCHANGED <<kind, op>> /\ Request(s) \in Frames
    BY <1>8, RequestType DEF SendDelivered, client, Types
  <2>2. Changes(Request(s)) => Request(s).op = op[s] /\ Request(s).kind = kind[s]
    BY DEF Request, Datagram, Changes, Effects
  <2>. QED
    BY <1>2, <1>4, <2>1, <2>2
<1>9. CASE SendLeave(s)
  <2> DEFINE r == Datagram(s, "leave", op'[s])
  <2>1. /\ op'[s] \in Nat /\ op'[s] >= op[s] /\ (op'[s] = op[s] => kind'[s] = kind[s])
        /\ ring' = ring \/ ring' = Append(ring, r)
    BY <1>9 DEF SendLeave, Types, ClientTypes
  <2>2. r \in Frames /\ r.op = op'[s] /\ r.kind = "leave"
    BY <2>1, DatagramType DEF Datagram, Types
  <2>. HIDE DEF r
  <2>3. kind'[s] = "leave"
    BY <1>9, CopyOrder DEF SendLeave, Types, ClientTypes, Gone
  <2>. QED
    BY <1>4, <1>5, <2>1, <2>2, <2>3
<1>10. CASE MsgAnswered(s) \/ MsgIgnores(s) \/ BeginLeave(s) \/ WaitReceives(s)
  <2>1. UNCHANGED <<kind, op, ring>>
    BY <1>10 DEF MsgAnswered, MsgIgnores, BeginLeave, WaitReceives, client
  <2>. QED
    BY <1>2, <1>5, <2>1
<1>. QED
  BY <1>6, <1>7, <1>8, <1>9, <1>10 DEF Script

\* Nor does any other step change them.
LEMMA NumbersStay ==
  ASSUME Types, NEW s \in Sessions, Numbered(s), NEW d \in Nat, Stays(s, d),
         done'[s] = done[s]
  PROVE  Numbered(s)'
BY DEF Numbered, Stays, DoneSet, Changes

\* What the target executes has a number.
LEMMA CommandNumbers ==
  ASSUME Types, NEW s \in Sessions, Numbered(s), NEW r \in Frames, Taken(s, r),
         done'[s] = IF Executes(r) THEN Append(done[s], r.op) ELSE done[s],
         UNCHANGED <<kind, op>>
  PROVE  /\ Numbered(s)'
         /\ DoneSet(s)' = IF Executes(r) THEN DoneSet(s) \cup {r.op} ELSE DoneSet(s)
<1>1. 1 \in Mine(s) /\ ring[1] = r
      /\ \A i \in Mine(s)' : i + 1 \in Mine(s) /\ ring'[i] = ring[i + 1]
  BY DEF Taken
<1>2. done[s] \in Seq(Nat) /\ r.op \in Nat
  BY DEF Types, HistoryTypes, Frames
<1>3. DoneSet(s)' = IF Executes(r) THEN DoneSet(s) \cup {r.op} ELSE DoneSet(s)
  <2>1. CASE Executes(r)
    BY <1>2, <2>1, DoneGrows
  <2>2. CASE ~Executes(r)
    BY <2>2 DEF DoneSet
  <2>. QED
    BY <2>1, <2>2
<1>4. Executes(r) => Changes(r)
  BY DEF Executes, Changes
<1>. QED
  BY <1>1, <1>3, <1>4 DEF Numbered, Changes

\* A script leaves only if it may.
LEMMA ScriptLeavers ==
  ASSUME Types, LeaverInv, NEW s \in Sessions, Start(s) \/ Script(s)
  PROVE  /\ at'[s] \in {"presync", "leaving"} \cup Gone => s \in Leavers
         /\ at'[s] \in Gone => kind'[s] = "leave"
<1>1. at'[s] \in {"presync", "leaving"} \cup Gone => ~Start(s) /\ ~Call(s)
  BY DEF Start, Call, Types, ClientTypes, Gone
<1>2. CASE SendDelivered(s) \/ MsgIgnores(s)
  BY <1>2 DEF SendDelivered, MsgIgnores, client, LeaverInv
<1>3. CASE MsgAnswered(s)
  BY <1>3 DEF MsgAnswered, Returned, Types, ClientTypes, LeaverInv, Gone
<1>4. CASE BeginLeave(s)
  BY <1>4 DEF BeginLeave, Types, ClientTypes, Gone
<1>5. CASE SendLeave(s)
  BY <1>5, CopyOrder DEF SendLeave, Types, ClientTypes, LeaverInv, Gone
<1>6. CASE WaitReceives(s)
  BY <1>6 DEF WaitReceives, Types, ClientTypes, LeaverInv, Gone
<1>. QED
  BY <1>1, <1>2, <1>3, <1>4, <1>5, <1>6 DEF Script

\* Every step keeps the numbers, and who may leave.
LEMMA LeaverStep == Types /\ LeaverInv /\ [Next]_vars => LeaverInv'
<1> SUFFICES ASSUME Types, LeaverInv, [Next]_vars PROVE LeaverInv'
  OBVIOUS
<1>1. ASSUME NEW d \in BOOLEAN, LoopCommand(d)
      PROVE  /\ \A s \in Sessions : Numbered(s)'
             /\ mode' = "guest" \/ still' => conn' \in Leavers \cup {Nobody}
  <2>1. PICK r : r = Head(ring)
    OBVIOUS
  <2>2. /\ r \in Frames /\ r.from \in Sessions /\ ring # << >> /\ ring' = Tail(ring)
        /\ UNCHANGED <<at, phase, kind, op>> /\ ~still'
        /\ done'[r.from] = IF Executes(r) THEN Append(done[r.from], r.op) ELSE done[r.from]
        /\ \A u \in Sessions : u # r.from => rep'[u] = rep[u] /\ done'[u] = done[u]
    BY <1>1, <2>1, CommandEffect DEF client
  <2>3. /\ \A u \in Sessions : \A i \in Mine(u)' :
             i \in Nat /\ i >= 1 /\ i + 1 \in Mine(u) /\ ring'[i] = ring[i + 1]
        /\ 1 \in Mine(r.from) /\ r = ring[1]
    BY <2>1, <2>2, MineTaken
  <2>4. ASSUME NEW s \in Sessions PROVE Numbered(s)'
    <3>1. CASE s = r.from
      BY <2>2, <2>3, <3>1, CommandNumbers DEF LeaverInv, Taken
    <3>2. CASE s # r.from
      <4>1. Stays(s, 1) /\ done'[s] = done[s]
        BY <2>2, <2>3, <3>2 DEF Stays
      <4>. QED
        BY <4>1, NumbersStay DEF LeaverInv
    <3>. QED
      BY <3>1, <3>2
  <2>5. mode' = "guest" => conn' \in Leavers \cup {Nobody}
    <3>1. mode' = "guest" => r.kind = "leave" /\ conn' \in {r.from, Nobody}
      BY <1>1, <2>1 DEF LoopCommand
    <3>. QED
      BY <2>3, <3>1 DEF LeaverInv, Mine
  <2>. QED
    BY <2>2, <2>4, <2>5
<1>2. ASSUME NEW s \in Sessions PROVE Numbered(s)'
  <2>1. ASSUME NEW t \in Sessions, Start(t) \/ Script(t) PROVE Numbered(s)'
    <3>1. CASE t = s
      BY <2>1, <3>1, ScriptNumbers DEF LeaverInv
    <3>2. CASE t # s
      BY <2>1, <3>2, ScriptLocal, NumbersStay DEF LeaverInv, Untouched
    <3>. QED
      BY <3>1, <3>2
  <2>2. CASE Idles
    BY <2>2, IdleLocal, NumbersStay DEF LeaverInv, Untouched
  <2>3. CASE GuestInt13 \/ Reboot
    BY <2>3, ResetLocal, NumbersStay DEF LeaverInv
  <2>. QED
    BY <1>1, <2>1, <2>2, <2>3, StepKinds
<1>3. ASSUME NEW i \in DOMAIN ring', ring'[i].kind = "leave" PROVE ring'[i].from \in Leavers
  <2>1. ASSUME NEW s \in Sessions, SendDelivered(s) PROVE Request(s).kind # "leave"
    BY DEF Request, Datagram, Types, ClientTypes, Effects
  <2>2. ASSUME NEW s \in Sessions, SendLeave(s)
        PROVE  Datagram(s, "leave", op'[s]).from \in Leavers
    BY <2>2, CopyOrder DEF SendLeave, Datagram, LeaverInv, Gone
  <2>3. ForeignFrame.kind # "leave"
    BY DEF ForeignFrame
  <2>. QED
    BY <1>3, <2>1, <2>2, <2>3, FramesComeFrom DEF LeaverInv
<1>4. ASSUME NEW s \in Sessions
      PROVE  /\ at'[s] \in {"presync", "leaving"} \cup Gone => s \in Leavers
             /\ at'[s] \in Gone => kind'[s] = "leave"
  <2>1. CASE at'[s] = at[s] /\ kind'[s] = kind[s]
    BY <2>1 DEF LeaverInv
  <2>2. ASSUME NEW t \in Sessions, Start(t) \/ Script(t), t # s
        PROVE  at'[s] = at[s] /\ kind'[s] = kind[s]
    BY <2>2, ScriptLocal DEF Untouched, Stays
  <2>3. CASE UNCHANGED client
    BY <2>1, <2>3 DEF client
  <2>. QED
    BY <2>1, <2>2, <2>3, ScriptLeavers, StepKinds, IdleEffect
       DEF LoopCommand, GuestInt13, Reboot
<1>5. mode' = "guest" \/ still' => conn' \in Leavers \cup {Nobody}
  <2>1. CASE \E s \in Sessions : Start(s) \/ Script(s)
    <3>1. UNCHANGED <<mode, still>> /\ conn' \in {conn, Nobody}
      BY <2>1, ScriptEffect DEF Start, Script, Call, SendDelivered, MsgAnswered, MsgIgnores,
                                BeginLeave, SendLeave, WaitReceives, server
    <3>. QED
      BY <3>1 DEF LeaverInv
  <2>2. CASE Idles
    <3>1. UNCHANGED <<mode, still>> /\ conn' \in {conn, Nobody}
      BY <2>2 DEF Idles, LoopTop, LoopNoPacket, LoopForeign, NetForeign, vars, server
    <3>. QED
      BY <3>1 DEF LeaverInv
  <2>3. CASE GuestInt13 \/ Reboot
    BY <2>3 DEF GuestInt13, Reboot, LeaverInv
  <2>. QED
    BY <1>1, <2>1, <2>2, <2>3, StepKinds
<1>. QED
  BY <1>2, <1>3, <1>4, <1>5 DEF LeaverInv

\* Nobody leaves at first.
LEMMA LeaverInit == Init => LeaverInv
<1> SUFFICES ASSUME Init PROVE LeaverInv
  OBVIOUS
<1>1. /\ ring = << >> /\ mode = "loop" /\ ~still
      /\ \A s \in Sessions : at[s] = "off" /\ done[s] = << >>
  BY DEF Init
<1>2. ASSUME NEW s \in Sessions PROVE Mine(s) = {} /\ DoneSet(s) = {}
  BY <1>1 DEF Mine, DoneSet
<1>. QED
  BY <1>1, <1>2 DEF LeaverInv, Numbered, Gone

\* It holds always.
LEMMA LeaverAlways == Spec => []LeaverInv
BY LeaverInit, LeaverStep, TypesCorrect, PTL DEF Spec

-------------------------------------------------------------------------------
(* Announcements: none is forgotten *)

\* A script reads from its own socket only.
LEMMA ScriptSockets ==
  ASSUME Types, NEW s \in Sessions, Start(s) \/ Script(s), NEW t \in Sessions, t # s
  PROVE  rep'[t] = rep[t]
<1>1. \/ UNCHANGED rep
      \/ \E q : rep' = [rep EXCEPT ![s] = q]
  BY DEF Script, Start, Call, SendDelivered, MsgAnswered, MsgIgnores, BeginLeave, SendLeave,
         WaitReceives
<1>. QED
  BY <1>1 DEF Types, SocketTypes

\* Which steps of a script lead to where it waits.
LEMMA ScriptGone ==
  ASSUME Types, NEW s \in Sessions, Start(s) \/ Script(s), at'[s] \in Gone
  PROVE  \/ SendLeave(s)
         \/ WaitReceives(s) /\ Head(rep[s]).phase # Isr
<1>1. ~Start(s) /\ ~Call(s) /\ ~MsgAnswered(s) /\ ~BeginLeave(s)
  BY DEF Start, Call, MsgAnswered, Returned, BeginLeave, Types, ClientTypes, Gone
<1>2. ~SendDelivered(s) /\ ~MsgIgnores(s)
  BY DEF SendDelivered, MsgIgnores, InMsg, client, Gone
<1>3. WaitReceives(s) => Head(rep[s]).phase # Isr
  BY DEF WaitReceives, WakesUp, Types, ClientTypes, Gone
<1>. QED
  BY <1>1, <1>2, <1>3 DEF Script

\* Another datagram does not hide an announcement.
LEMMA IsrStays ==
  ASSUME Types, NEW s \in Sessions, HasIsr(s),
         \/ rep'[s] = rep[s]
         \/ \E m : rep'[s] = Append(rep[s], m)
         \/ rep[s] # << >> /\ rep'[s] = Tail(rep[s]) /\ Head(rep[s]).phase # Isr
  PROVE  HasIsr(s)'
<1>1. PICK q : q = rep[s]
  OBVIOUS
<1>2. q \in Seq(Datagrams)
  BY <1>1 DEF Types, SocketTypes
<1>3. PICK i \in DOMAIN q : q[i].phase = Isr
  BY <1>1 DEF HasIsr
<1>4. ASSUME NEW m PROVE i \in DOMAIN Append(q, m) /\ Append(q, m)[i] = q[i]
  BY <1>2, <1>3
<1>5. ASSUME q # << >>, Head(q).phase # Isr
      PROVE  i - 1 \in DOMAIN Tail(q) /\ Tail(q)[i - 1] = q[i]
  <2>1. i # 1
    BY <1>2, <1>3, <1>5
  <2>. QED
    BY <1>2, <1>3, <1>5, <2>1
<1>. QED
  BY <1>1, <1>3, <1>4, <1>5 DEF HasIsr

\* A script's step forgets no announcement.
LEMMA ScriptAnnounced ==
  ASSUME Types, LeaverInv, NEW s \in Sessions, Announced(s), Start(s) \/ Script(s)
  PROVE  Announced(s)'
<1> SUFFICES ASSUME mode' = "loop", at'[s] \in Gone, op'[s] \in DoneSet(s)'
             PROVE  (still' /\ ~sent') \/ missed' \/ HasIsr(s)'
  BY DEF Announced
<1>1. UNCHANGED <<mode, still, sent, missed>> /\ DoneSet(s)' = DoneSet(s)
  BY ScriptEffect DEF DoneSet
<1>2. CASE SendLeave(s)
  <2>1. op'[s] = op[s] /\ at[s] # "leaving"
    <3>1. at[s] = "leaving" => op'[s] = op[s] + 1 /\ op[s] \in Nat
      BY <1>2 DEF SendLeave, Types, ClientTypes
    <3>2. at[s] # "leaving" => op'[s] = op[s]
      BY <1>2 DEF SendLeave
    <3>3. \A n \in DoneSet(s) : n \in Nat /\ n <= op[s]
      BY DoneIsNat DEF LeaverInv, Numbered
    <3>. QED
      BY <1>1, <3>1, <3>2, <3>3
  <2>2. at[s] \in Gone /\ rep' = rep
    BY <1>2, <2>1, CopyOrder DEF SendLeave, Gone
  <2>. QED
    BY <1>1, <2>1, <2>2 DEF Announced, HasIsr
<1>3. CASE WaitReceives(s) /\ Head(rep[s]).phase # Isr
  <2>1. /\ at[s] \in Gone /\ op' = op /\ rep[s] # << >> /\ rep'[s] = Tail(rep[s])
    BY <1>3 DEF WaitReceives, Gone, Types, SocketTypes
  <2>2. (still /\ ~sent) \/ missed \/ HasIsr(s)
    BY <1>1, <2>1 DEF Announced
  <2>. QED
    BY <1>1, <1>3, <2>1, <2>2, IsrStays
<1>. QED
  BY <1>2, <1>3, ScriptGone

\* The target forgets none: the first poll after start() was entered announces, whatever
\* is in the ring.
LEMMA TargetAnnounces ==
  ASSUME OneLeaver, Types, LeaverInv, NEW s \in Sessions, Announced(s), Target
  PROVE  Announced(s)'
<1> SUFFICES ASSUME mode' = "loop", at'[s] \in Gone, op'[s] \in DoneSet(s)'
             PROVE  (still' /\ ~sent') \/ missed' \/ HasIsr(s)'
  BY DEF Announced
<1>1. UNCHANGED <<at, op>> /\ at[s] \in Gone /\ s \in Leavers /\ kind[s] = "leave" /\ mode = "loop"
  BY DEF Target, LoopTop, LoopNoPacket, LoopForeign, LoopCommand, client, LeaverInv
<1>2. CASE LoopTop
  <2>1. op[s] \in DoneSet(s)
    BY <1>1, <1>2 DEF LoopTop, DoneSet
  <2>2. (still /\ ~sent) \/ missed \/ HasIsr(s)
    BY <1>1, <2>1 DEF Announced
  <2>3. CASE ~still
    <3>1. UNCHANGED <<rep, missed>>
      BY <1>2, <2>3 DEF LoopTop, Announces, Lost
    <3>. QED
      BY <2>2, <2>3, <3>1 DEF HasIsr
  <2>4. CASE still /\ Lost /\ missed' = TRUE
    BY <2>4
  <2>5. CASE still /\ conn # Nobody /\ Delivered(conn, [phase |-> Isr, val |-> NoVal])
    <3>1. conn = s
      BY OneLeaver, <1>1, <2>5 DEF OneLeaver, LeaverInv
    <3> DEFINE m == [phase |-> Isr, val |-> NoVal]
    <3>2. rep[s] \in Seq(Datagrams) /\ rep'[s] = Append(rep[s], m) /\ m.phase = Isr
      BY <2>5, <3>1 DEF Delivered, Types, SocketTypes
    <3>. HIDE DEF m
    <3>3. PICK q : q = rep[s]
      OBVIOUS
    <3>4. Len(q) + 1 \in DOMAIN Append(q, m) /\ Append(q, m)[Len(q) + 1] = m
      BY <3>2, <3>3
    <3>. QED
      BY <3>2, <3>3, <3>4 DEF HasIsr
  <2>. QED
    BY <1>2, <2>3, <2>4, <2>5 DEF LoopTop, Announces
<1>3. CASE LoopNoPacket \/ LoopForeign
  <2>1. UNCHANGED <<done, missed, rep, still>> /\ ~sent'
    BY <1>3 DEF LoopNoPacket, LoopForeign, history
  <2>2. DoneSet(s)' = DoneSet(s) /\ HasIsr(s)' = HasIsr(s)
    BY <2>1 DEF DoneSet, HasIsr
  <2>. QED
    BY <1>1, <2>1, <2>2 DEF Announced
<1>4. ASSUME NEW d \in BOOLEAN, LoopCommand(d)
      PROVE  missed' \/ HasIsr(s)'
  <2>1. PICK r : r = Head(ring)
    OBVIOUS
  <2>2. /\ r \in Frames /\ r.from \in Sessions /\ ring # << >> /\ ring' = Tail(ring)
        /\ UNCHANGED <<at, phase, kind, op>> /\ MayAnswer(r.from, r)
        /\ done'[r.from] = IF Executes(r) THEN Append(done[r.from], r.op) ELSE done[r.from]
        /\ \A u \in Sessions : u # r.from => rep'[u] = rep[u] /\ done'[u] = done[u]
    BY <1>4, <2>1, CommandEffect DEF client
  <2>3. /\ \A u \in Sessions : \A i \in Mine(u)' :
             i \in Nat /\ i >= 1 /\ i + 1 \in Mine(u) /\ ring'[i] = ring[i + 1]
        /\ 1 \in Mine(r.from) /\ r = ring[1]
    BY <2>1, <2>2, MineTaken
  <2>4. op[s] \in DoneSet(s)
    <3>1. CASE r.from # s
      BY <1>1, <2>2, <3>1 DEF DoneSet
    <3>2. CASE r.from = s
      <4>1. DoneSet(s)' = IF Executes(r) THEN DoneSet(s) \cup {r.op} ELSE DoneSet(s)
        BY <2>2, <2>3, <3>2, CommandNumbers DEF LeaverInv, Taken
      <4>2. ~(Executes(r) /\ r.op = op[s])
        <5>1. Executes(r) /\ r.op = op[s] => r.kind = "leave"
          BY <1>1, <2>3, <3>2 DEF LeaverInv, Numbered, Executes, Changes
        <5>. QED
          BY <1>4, <2>1, <5>1 DEF LoopCommand
      <4>. QED
        BY <1>1, <4>1, <4>2
    <3>. QED
      BY <3>1, <3>2
  <2>5. missed \/ HasIsr(s)
    BY <1>1, <1>4, <2>4 DEF Announced, LoopCommand
  <2>6. rep'[s] = rep[s] \/ \E m : rep'[s] = Append(rep[s], m)
    BY <2>2 DEF MayAnswer
  <2>. QED
    BY <1>4, <2>5, <2>6, IsrStays DEF LoopCommand
<1>. QED
  BY <1>2, <1>3, <1>4 DEF Target

\* A target that is not rebooted forgets no announcement.
LEMMA AnnouncedStep ==
  ASSUME OneLeaver, MaxReboots = 0
  PROVE  Types /\ LeaverInv /\ (\A s \in Sessions : Announced(s)) /\ [Next]_vars
           => (\A s \in Sessions : Announced(s))'
<1> SUFFICES ASSUME Types, LeaverInv, \A t \in Sessions : Announced(t), [Next]_vars,
                    NEW s \in Sessions
             PROVE  Announced(s)'
  OBVIOUS
<1>1. ASSUME NEW t \in Sessions, Start(t) \/ Script(t) PROVE Announced(s)'
  <2>1. CASE t = s
    BY <1>1, <2>1, ScriptAnnounced
  <2>2. CASE t # s
    <3>1. /\ at'[s] = at[s] /\ op'[s] = op[s] /\ rep'[s] = rep[s]
          /\ UNCHANGED <<mode, still, sent, missed, done>>
      BY <1>1, <2>2, ScriptLocal, ScriptSockets, ScriptEffect DEF Untouched, Stays
    <3>. QED
      BY <3>1 DEF Announced, HasIsr, DoneSet
  <2>. QED
    BY <2>1, <2>2
<1>2. CASE Target
  BY OneLeaver, <1>2, TargetAnnounces
<1>3. CASE GuestInt13
  BY <1>3 DEF GuestInt13, Announced
<1>4. ~Reboot
  BY MaxReboots = 0 DEF Reboot, Types, HistoryTypes
<1>5. CASE NetForeign \/ UNCHANGED vars
  <2>1. UNCHANGED <<at, op, rep, mode, still, sent, missed, done>>
    BY <1>5 DEF NetForeign, vars, client, server, history
  <2>. QED
    BY <2>1 DEF Announced, HasIsr, DoneSet
<1>. QED
  BY <1>1, <1>2, <1>3, <1>4, <1>5 DEF Next

\* A script that let the guest run waits in vain only if the network lost the announcement,
\* or another host's frame redirected it before it was sent: the target polls the
\* announcement before the ring, so that a surplus copy of the leave, or another
\* session's command, cannot silence it.  One session lets the guest run, any number
\* share the target.
THEOREM AnnouncementsComeThrough ==
  ASSUME OneLeaver, MaxReboots = 0
  PROVE  Spec => []NoSilentHang
<1>1. Init => \A s \in Sessions : Announced(s)
  BY DEF Init, Announced, Gone
<1>2. Types /\ LeaverInv /\ (\A s \in Sessions : Announced(s)) /\ [Next]_vars
        => (\A s \in Sessions : Announced(s))'
  BY OneLeaver, MaxReboots = 0, AnnouncedStep
<1>3. Types /\ LeaverInv /\ (\A s \in Sessions : Announced(s)) => NoSilentHang
  BY DEF Announced, NoSilentHang, HasIsr, Gone
<1>. QED
  BY <1>1, <1>2, <1>3, TypesCorrect, LeaverAlways, PTL DEF Spec

-------------------------------------------------------------------------------
(* Announcements: each wakes the script that caused it *)

\* The script of s let the guest run and has been told nothing since.
Away(s) == at[s] \in Gone /\ op[s] \in DoneSet(s)

\* An announcement is on its way, or to be sent, only to a script that is away and whose
\* guest has called INT 13h, or that has woken up already.
Due(s) == HasIsr(s) \/ (still /\ conn = s) => at[s] = "sync" \/ (mode = "loop" /\ Away(s))

\* The answer msg() waits for and an announcement never wait in the socket together,
\* but for an announcement before the answer.
Apart(s) ==
  /\ still /\ conn = s => \A i \in DOMAIN rep[s] : rep[s][i].phase # phase[s]
  /\ \A i, j \in DOMAIN rep[s] : i < j /\ rep[s][i].phase = phase[s] => rep[s][j].phase # Isr

\* While the guest runs, conn addresses the script that let it, if any; a copy of its leave
\* that is still in the ring when it is called back is a surplus one.
Home(s) ==
  /\ mode = "guest" /\ conn = s => Away(s)
  /\ \A i \in Mine(s) :
       ring[i].live /\ ring[i].kind = "leave" /\ ring[i].op = op[s] /\ at[s] \notin Gone =>
         op[s] \in DoneSet(s)

WakeInv == \A s \in Sessions : Due(s) /\ Apart(s) /\ Home(s)

\* Only what was in the socket, without its first k datagrams.
LEMMA FewerDatagrams ==
  ASSUME Types, NEW s \in Sessions, Apart(s), NEW k \in Nat, k <= Len(rep[s]),
         rep'[s] = SubSeq(rep[s], k + 1, Len(rep[s])),
         UNCHANGED <<phase, still>>, conn' = s => conn = s
  PROVE  Apart(s)' /\ (HasIsr(s)' => HasIsr(s))
<1>1. PICK q : q = rep[s]
  OBVIOUS
<1>2. q \in Seq(Datagrams)
  BY <1>1 DEF Types, SocketTypes
<1>3. \A i \in DOMAIN SubSeq(q, k + 1, Len(q)) :
        /\ i \in Nat /\ k + i \in DOMAIN q
        /\ SubSeq(q, k + 1, Len(q))[i] = q[k + i]
  BY <1>1, <1>2
<1>4. \A i \in DOMAIN rep'[s] : i \in Nat /\ k + i \in DOMAIN rep[s] /\ rep'[s][i] = rep[s][k + i]
  BY <1>1, <1>3
<1>. QED
  BY <1>4 DEF Apart, HasIsr

\* The datagram read, and the rest.
LEMMA OneDatagramLess ==
  ASSUME Types, NEW s \in Sessions, Apart(s), rep[s] # << >>, rep'[s] = Tail(rep[s]),
         UNCHANGED <<phase, still>>, conn' = s => conn = s
  PROVE  Apart(s)' /\ (HasIsr(s)' => HasIsr(s))
<1>1. PICK q : q = rep[s]
  OBVIOUS
<1>2. q \in Seq(Datagrams) /\ q # << >>
  BY <1>1 DEF Types, SocketTypes
<1>3. Tail(q) = SubSeq(q, 1 + 1, Len(q)) /\ 1 <= Len(q)
  BY <1>2
<1>. QED
  BY <1>1, <1>3, FewerDatagrams

\* A script is woken by what is due to it, and by nothing it has answered.
LEMMA ScriptWakes ==
  ASSUME Types, LeaverInv, NEW s \in Sessions, Due(s), Apart(s), Home(s),
         Start(s) \/ Script(s)
  PROVE  Due(s)' /\ Apart(s)' /\ Home(s)'
<1>1. UNCHANGED <<mode, bit, still>> /\ DoneSet(s)' = DoneSet(s)
  BY ScriptEffect DEF DoneSet
<1>2. op[s] \in Nat /\ \A i \in Mine(s) : ring[i].kind = "leave" => ring[i].op <= op[s]
  BY DEF Types, ClientTypes, LeaverInv, Numbered, Changes
<1>3. \A i \in Mine(s) : ring[i].op \in Nat
  BY MineInRing DEF Frames
<1>4. CASE Start(s)
  <2>1. /\ at'[s] = "sync" /\ rep'[s] = << >> /\ conn' # s
        /\ ring' = [i \in DOMAIN ring |->
                      IF ring[i].from = s THEN [ring[i] EXCEPT !.live = FALSE] ELSE ring[i]]
    BY <1>4, SessionAssumption DEF Start, Types, ClientTypes, SocketTypes
  <2>2. \A i \in DOMAIN ring : ring[i] \in Frames
    BY DEF Types, RingTypes
  <2>3. \A i \in Mine(s)' : ~ring'[i].live
    BY <2>1, <2>2 DEF Mine, Frames
  <2>4. Due(s)' /\ Home(s)'
    BY <2>1, <2>3 DEF Due, Home
  <2>5. DOMAIN rep'[s] = {}
    BY <2>1
  <2>6. Apart(s)'
    BY <2>1, <2>5 DEF Apart
  <2>. QED
    BY <2>4, <2>6
<1>5. CASE Call(s) \/ BeginLeave(s) \/ (SendLeave(s) /\ at[s] = "leaving")
  <2>1. /\ at[s] \in {"idle", "leaving"} /\ UNCHANGED <<phase, rep, conn>>
        /\ at'[s] \in Gone \/ (at'[s] \notin Gone /\ ring' = ring)
        /\ op'[s] = op[s] \/ op'[s] = op[s] + 1
    BY <1>5, CopyOrder DEF Call, BeginLeave, SendLeave, server, Types, ClientTypes, Gone
  <2>2. ~HasIsr(s) /\ ~(still /\ conn = s) /\ ~(mode = "guest" /\ conn = s) /\ at[s] \notin Gone
    BY <2>1 DEF Due, Home, Away, Gone
  <2>3. Due(s)' /\ Apart(s)'
    BY <1>1, <2>1, <2>2 DEF Due, Apart, HasIsr
  <2>4. ring' = ring => Mine(s)' = Mine(s)
    BY DEF Mine
  <2>5. Home(s)'
    BY <1>1, <1>2, <1>3, <2>1, <2>2, <2>4 DEF Home
  <2>. QED
    BY <2>3, <2>5
<1>6. CASE SendDelivered(s)
  <2>1. UNCHANGED <<at, op, phase, rep, conn>> /\ ring' = Append(ring, Request(s))
    BY <1>6 DEF SendDelivered, client, server
  <2>2. Request(s) \in Frames /\ Request(s).kind # "leave"
    BY RequestType DEF Request, Datagram, Types, ClientTypes, Effects
  <2>3. PICK n \in Nat : OneMore(s, n, Request(s))
    BY <2>1, <2>2, MineAppended
  <2>4. \A i \in Mine(s)' : ring'[i].kind = "leave" => i \in Mine(s) /\ ring'[i] = ring[i]
    BY <2>2, <2>3 DEF OneMore
  <2>. QED
    BY <1>1, <2>1, <2>4 DEF Due, Apart, Home, Away, HasIsr
<1>7. CASE MsgAnswered(s)
  <2>1. /\ at[s] \notin Gone /\ at'[s] \notin Gone /\ UNCHANGED <<op, ring, conn>>
        /\ Head(rep[s]).phase = phase[s] /\ rep[s] # << >>
        /\ \E k \in 1 .. Len(rep[s]) : rep'[s] = SubSeq(rep[s], k + 1, Len(rep[s]))
    BY <1>7 DEF MsgAnswered, Returned, InMsg, server, Types, ClientTypes, SocketTypes, Gone
  <2>2. PICK q : q = rep[s]
    OBVIOUS
  <2>3. q \in Seq(Datagrams) /\ q # << >> /\ Head(q).phase = phase[s]
    BY <2>1, <2>2 DEF Types, SocketTypes
  <2>4. PICK k \in 1 .. Len(q) : rep'[s] = SubSeq(q, k + 1, Len(q))
    BY <2>1, <2>2
  <2>5. \A i \in DOMAIN SubSeq(q, k + 1, Len(q)) :
          /\ 1 < k + i /\ k + i \in DOMAIN q
          /\ SubSeq(q, k + 1, Len(q))[i] = q[k + i]
    BY <2>3
  <2>6. 1 \in DOMAIN q /\ q[1].phase = phase[s]
    BY <2>3
  <2>7. ~HasIsr(s)' /\ \A i \in DOMAIN rep'[s] : rep'[s][i].phase # Isr
    <3>1. ASSUME NEW i \in DOMAIN rep'[s] PROVE rep'[s][i].phase # Isr
      <4>1. 1 < k + i /\ k + i \in DOMAIN q /\ rep'[s][i] = q[k + i]
        BY <2>4, <2>5
      <4>. QED
        BY <2>2, <2>6, <4>1 DEF Apart
    <3>. QED
      BY <3>1 DEF HasIsr
  <2>8. ~(still /\ conn = s) /\ ~(mode = "guest" /\ conn = s)
    BY <2>1, <2>2, <2>6 DEF Apart, Home, Away
  <2>9. Mine(s)' = Mine(s)
    BY <2>1 DEF Mine
  <2>. QED
    BY <1>1, <2>1, <2>7, <2>8, <2>9 DEF Due, Apart, Home
<1>8. CASE MsgIgnores(s)
  <2>1. /\ UNCHANGED <<at, op, phase, ring, conn>> /\ rep[s] # << >> /\ rep'[s] = Tail(rep[s])
    BY <1>8 DEF MsgIgnores, client, server, Types, SocketTypes
  <2>2. Apart(s)' /\ (HasIsr(s)' => HasIsr(s))
    BY <1>1, <2>1, OneDatagramLess
  <2>3. Mine(s)' = Mine(s)
    BY <2>1 DEF Mine
  <2>. QED
    BY <1>1, <2>1, <2>2, <2>3 DEF Due, Home, Away
<1>9. CASE SendLeave(s) /\ at[s] # "leaving"
  <2>1. /\ at[s] \in Gone /\ at'[s] \in Gone /\ UNCHANGED <<op, phase, rep, conn>>
    BY <1>9, CopyOrder DEF SendLeave, server, Types, ClientTypes, Gone
  <2>. QED
    BY <1>1, <2>1 DEF Due, Apart, Home, Away, HasIsr, Gone
<1>10. CASE WaitReceives(s)
  <2>1. /\ at[s] \in Gone /\ UNCHANGED <<op, phase, ring, conn>>
        /\ rep[s] # << >> /\ rep'[s] = Tail(rep[s])
        /\ at'[s] = IF Head(rep[s]).phase = Isr THEN "sync" ELSE at[s]
    BY <1>10 DEF WaitReceives, WakesUp, server, Types, ClientTypes, SocketTypes, Gone
  <2>2. Apart(s)' /\ (HasIsr(s)' => HasIsr(s))
    BY <1>1, <2>1, OneDatagramLess
  <2>3. Mine(s)' = Mine(s)
    BY <2>1 DEF Mine
  <2>4. Head(rep[s]).phase = Isr => HasIsr(s)
    <3>1. rep[s] \in Seq(Datagrams)
      BY DEF Types, SocketTypes
    <3>2. 1 \in DOMAIN rep[s] /\ Head(rep[s]) = rep[s][1]
      BY <2>1, <3>1
    <3>. QED
      BY <3>2 DEF HasIsr
  <2>5. Head(rep[s]).phase = Isr => mode = "loop" /\ op[s] \in DoneSet(s)
    BY <2>1, <2>4 DEF Due, Away, Gone
  <2>. QED
    BY <1>1, <2>1, <2>2, <2>3, <2>5 DEF Due, Home, Away, Gone
<1>. QED
  BY <1>4, <1>5, <1>6, <1>7, <1>8, <1>9, <1>10 DEF Script

\* A leave that is executed is the script's last command, and new.
LEMMA LeaveIsNew ==
  ASSUME Types, LeaveInv, DamageInv, NEW s \in Sessions, NEW r \in Frames,
         1 \in Mine(s), r = ring[1], r.from = s, r.kind = "leave", Executes(r)
  PROVE  r.op = op[s] /\ op[s] \notin DoneSet(s)
<1>1. PICK b \in {0, 1}, F \in SUBSET Nat : Damage(s, b, F)
  BY DEF DamageInv
<1>2. PICK D : D = DoneSet(s) \cup F
  OBVIOUS
<1>3. Current(s, b, D) /\ (b = 0 => bit[s] = 0)
  BY <1>1, <1>2 DEF Damage, SessionInv
<1>4. r.phase = 1 /\ bit[s] = 1
  BY DEF LeaveInv, Mine, Executes, LostReply
<1>5. b = 1
  BY <1>3, <1>4
<1>6. Changes(r)
  BY DEF Changes
<1>7. r.op = op[s] /\ op[s] \notin D
  BY <1>3, <1>4, <1>5, <1>6 DEF Current
<1>. QED
  BY <1>2, <1>7

\* The target's commands wake nobody, and let the guest run for the script that asks.
LEMMA CommandWakes ==
  ASSUME OneLeaver, Types, LeaverInv, LeaveInv, DamageInv, NEW s \in Sessions,
         Due(s), Apart(s), Home(s), NEW d \in BOOLEAN, LoopCommand(d)
  PROVE  Due(s)' /\ Apart(s)' /\ Home(s)'
<1>1. PICK r : r = Head(ring)
  OBVIOUS
<1>2. /\ r \in Frames /\ r.from \in Sessions /\ ring # << >> /\ ring' = Tail(ring)
      /\ UNCHANGED <<at, phase, kind, op>> /\ ~still' /\ MayAnswer(r.from, r)
      /\ done'[r.from] = IF Executes(r) THEN Append(done[r.from], r.op) ELSE done[r.from]
      /\ \A u \in Sessions : u # r.from => rep'[u] = rep[u] /\ done'[u] = done[u]
  BY <1>1, CommandEffect DEF client
<1>3. /\ \A u \in Sessions : \A i \in Mine(u)' :
           i \in Nat /\ i >= 1 /\ i + 1 \in Mine(u) /\ ring'[i] = ring[i + 1]
      /\ 1 \in Mine(r.from) /\ r = ring[1]
  BY <1>1, <1>2, MineTaken
<1>4. /\ mode = "loop"
      /\ mode' = "guest" => Executes(r) /\ r.kind = "leave"
      /\ conn' = s => r.live /\ r.from = s
  BY <1>1, SessionAssumption DEF LoopCommand
<1>5. DoneSet(s)' = IF r.from = s /\ Executes(r) THEN DoneSet(s) \cup {r.op} ELSE DoneSet(s)
  <2>1. CASE r.from = s
    BY <1>2, <1>3, <2>1, CommandNumbers DEF LeaverInv, Taken
  <2>2. CASE r.from # s
    BY <1>2, <2>2 DEF DoneSet
  <2>. QED
    BY <2>1, <2>2
<1>6. mode' = "guest" => LET u == r.from IN r.op = op[u] /\ op[u] \notin DoneSet(u)
  BY <1>2, <1>3, <1>4, LeaveIsNew
<1>7. \/ rep'[s] = rep[s]
      \/ \E n \in Nat : \A i \in DOMAIN rep'[s] :
           /\ i \in Nat
           /\ \/ i \in DOMAIN rep[s] /\ i < n /\ rep'[s][i] = rep[s][i]
              \/ i = n /\ rep'[s][i].phase # Isr
  <2>1. CASE r.from # s
    BY <1>2, <2>1
  <2>2. CASE r.from = s
    <3>1. Answer(r).phase # Isr
      BY <1>2 DEF Answer, Frames, Isr
    <3>2. MayAnswer(s, r)
      BY <1>2, <2>2
    <3>. QED
      BY <3>1, <3>2, AnswerAdded
  <2>. QED
    BY <2>1, <2>2
<1>8. HasIsr(s)' => HasIsr(s)
  BY <1>7 DEF HasIsr
<1>9. Apart(s)'
  <2>1. CASE rep'[s] = rep[s]
    BY <1>2, <2>1 DEF Apart
  <2>2. ASSUME NEW n \in Nat,
               \A i \in DOMAIN rep'[s] :
                 /\ i \in Nat
                 /\ \/ i \in DOMAIN rep[s] /\ i < n /\ rep'[s][i] = rep[s][i]
                    \/ i = n /\ rep'[s][i].phase # Isr
        PROVE  Apart(s)'
    BY <1>2, <2>2 DEF Apart
  <2>. QED
    BY <1>7, <2>1, <2>2
<1>10. Due(s)'
  <2> SUFFICES ASSUME HasIsr(s)' PROVE at'[s] = "sync" \/ (mode' = "loop" /\ Away(s)')
    BY <1>2 DEF Due
  <2>1. at[s] = "sync" \/ Away(s)
    BY <1>8 DEF Due
  <2>2. Away(s) => Away(s)'
    BY <1>2, <1>5 DEF Away
  <2>3. Away(s) => mode' # "guest"
    <3> SUFFICES ASSUME Away(s), mode' = "guest" PROVE FALSE
      OBVIOUS
    <3>1. s \in Leavers /\ r.from \in Leavers
      BY <1>3, <1>4 DEF Away, LeaverInv, Mine
    <3>2. r.from = s
      BY OneLeaver, <3>1 DEF OneLeaver
    <3>. QED
      BY <1>6, <3>2 DEF Away
  <2>4. mode' \in {"loop", "guest"}
    BY DEF LoopCommand
  <2>. QED
    BY <1>2, <2>1, <2>2, <2>3, <2>4
<1>11. Home(s)'
  <2>1. ASSUME mode' = "guest", conn' = s PROVE Away(s)'
    <3>1. r.from = s /\ r.live /\ r.kind = "leave" /\ r.op = op[s] /\ op[s] \notin DoneSet(s)
          /\ Executes(r)
      BY <1>4, <1>6, <2>1
    <3>2. at[s] \in Gone
      BY <1>3, <3>1 DEF Home
    <3>. QED
      BY <1>2, <1>5, <3>1, <3>2 DEF Away
  <2>2. \A i \in Mine(s)' : i + 1 \in Mine(s) /\ ring'[i] = ring[i + 1]
    BY <1>3
  <2>3. at'[s] = at[s] /\ op'[s] = op[s] /\ \A n \in DoneSet(s) : n \in DoneSet(s)'
    BY <1>2, <1>5
  <2>. QED
    BY <2>1, <2>2, <2>3 DEF Home
<1>. QED
  BY <1>9, <1>10, <1>11

\* The loop's other steps: an announcement goes to whom it is due.
LEMMA IdleWakes ==
  ASSUME Types, NEW s \in Sessions, Due(s), Apart(s), Home(s), Idles
  PROVE  Due(s)' /\ Apart(s)' /\ Home(s)'
<1>1. UNCHANGED <<at, phase, kind, op, mode, still>> /\ DoneSet(s)' = DoneSet(s)
  BY IdleEffect DEF client, DoneSet
<1>2. conn' = s => conn = s
  BY SessionAssumption DEF Idles, LoopTop, LoopNoPacket, LoopForeign, NetForeign, vars, server
<1>3. PICK d \in Nat : Stays(s, d)
  BY IdleLocal DEF Untouched
<1>4. Home(s)'
  <2>1. \A i \in Mine(s)' : i + d \in Mine(s) /\ ring'[i] = ring[i + d]
    BY <1>3 DEF Stays
  <2>. QED
    BY <1>1, <1>2, <2>1 DEF Home, Away
<1>5. CASE rep'[s] = rep[s]
  BY <1>1, <1>2, <1>4, <1>5 DEF Due, Apart, Away, HasIsr
<1>6. CASE rep'[s] # rep[s]
  <2> DEFINE m == [phase |-> Isr, val |-> NoVal]
  <2>1. LoopTop /\ still
    BY <1>6 DEF Idles, LoopTop, LoopNoPacket, LoopForeign, NetForeign, vars, Lost, Announces
  <2>2. rep' = rep \/ rep' = [rep EXCEPT ![conn] = Append(@, m)]
    BY <2>1 DEF LoopTop, Announces, Delivered, Lost
  <2>3. conn = s /\ rep'[s] = Append(rep[s], m)
    BY <1>6, <2>2 DEF Types, SocketTypes
  <2>4. m.phase = Isr /\ \A i \in DOMAIN rep[s] : rep[s][i].phase # phase[s]
    BY <2>1, <2>3 DEF Apart
  <2>5. PICK q : q = rep[s]
    OBVIOUS
  <2>6. q \in Seq(Datagrams)
    BY <2>5 DEF Types, SocketTypes
  <2>. HIDE DEF m
  <2>7. \A i \in DOMAIN Append(q, m) :
          Append(q, m)[i] = m \/ (i \in DOMAIN q /\ Append(q, m)[i] = q[i])
    BY <2>6
  <2>8. phase[s] # Isr
    BY DEF Types, ClientTypes, Isr
  <2>9. \A i \in DOMAIN rep'[s] : rep'[s][i].phase # phase[s]
    BY <2>3, <2>4, <2>5, <2>7, <2>8
  <2>10. Apart(s)'
    BY <1>1, <2>9 DEF Apart
  <2>11. Due(s)'
    BY <1>1, <2>1, <2>3 DEF Due, Away
  <2>. QED
    BY <1>4, <2>10, <2>11
<1>. QED
  BY <1>5, <1>6

\* The guest calls back whoever is away.
LEMMA ResetWakes ==
  ASSUME Types, DamageInv, NEW s \in Sessions, Due(s), Apart(s), Home(s), GuestInt13 \/ Reboot
  PROVE  Due(s)' /\ Apart(s)' /\ Home(s)'
<1>1. UNCHANGED <<at, phase, op, rep>> /\ DoneSet(s)' = DoneSet(s) /\ mode' = "loop"
  BY DEF GuestInt13, Reboot, client, DoneSet
<1>2. Stays(s, 0)
  BY ResetLocal
<1>3. Home(s)'
  <2>1. \A i \in Mine(s)' : i + 0 \in Mine(s) /\ ring'[i] = ring[i + 0]
    BY <1>2 DEF Stays
  <2>. QED
    BY <1>1, <2>1 DEF Home
<1>4. CASE GuestInt13
  <2>1. mode = "guest" /\ conn' = conn
    BY <1>4 DEF GuestInt13
  <2>2. at[s] \in Gone => \A i \in DOMAIN rep[s] : rep[s][i].phase # phase[s]
    <3>1. PICK b \in {0, 1}, F \in SUBSET Nat : Damage(s, b, F)
      BY DEF DamageInv
    <3>. QED
      BY <3>1 DEF Damage, SessionInv, Answers
  <2>. QED
    BY <1>1, <1>3, <2>1, <2>2 DEF Due, Apart, Home, Away, HasIsr
<1>5. CASE Reboot
  <2>1. ~still'
    BY <1>5 DEF Reboot
  <2>. QED
    BY <1>1, <1>3, <2>1 DEF Due, Apart, Away, HasIsr
<1>. QED
  BY <1>4, <1>5

\* Another session's script has no part in it.
LEMMA OtherWakes ==
  ASSUME Types, NEW s \in Sessions, Due(s), Apart(s), Home(s),
         NEW t \in Sessions, Start(t) \/ Script(t), t # s
  PROVE  Due(s)' /\ Apart(s)' /\ Home(s)'
<1>1. /\ Stays(s, 0) /\ rep'[s] = rep[s] /\ UNCHANGED <<mode, still>>
      /\ DoneSet(s)' = DoneSet(s)
  BY ScriptLocal, ScriptSockets, ScriptEffect DEF Untouched, DoneSet
<1>2. conn' = s => conn = s
  BY SessionAssumption DEF Script, Start, Call, SendDelivered, MsgAnswered, MsgIgnores, BeginLeave,
         SendLeave, WaitReceives, server
<1>3. /\ at'[s] = at[s] /\ phase'[s] = phase[s] /\ op'[s] = op[s]
      /\ \A i \in Mine(s)' : i + 0 \in Mine(s) /\ ring'[i] = ring[i + 0]
  BY <1>1 DEF Stays
<1>. QED
  BY <1>1, <1>2, <1>3 DEF Due, Apart, Home, Away, HasIsr

\* No step announces anything to a script that is not away.
LEMMA WakeStep ==
  ASSUME OneLeaver
  PROVE  Types /\ LeaverInv /\ LeaveInv /\ DamageInv /\ WakeInv /\ [Next]_vars => WakeInv'
<1> SUFFICES ASSUME Types, LeaverInv, LeaveInv, DamageInv, WakeInv, [Next]_vars,
                    NEW s \in Sessions
             PROVE  Due(s)' /\ Apart(s)' /\ Home(s)'
  BY DEF WakeInv
<1>1. Due(s) /\ Apart(s) /\ Home(s)
  BY DEF WakeInv
<1>2. ASSUME NEW t \in Sessions, Start(t) \/ Script(t)
      PROVE  Due(s)' /\ Apart(s)' /\ Home(s)'
  <2>1. CASE t = s
    BY <1>1, <1>2, <2>1, ScriptWakes
  <2>2. CASE t # s
    BY <1>1, <1>2, <2>2, OtherWakes
  <2>. QED
    BY <2>1, <2>2
<1>3. CASE Idles
  BY <1>1, <1>3, IdleWakes
<1>4. ASSUME NEW d \in BOOLEAN, LoopCommand(d)
      PROVE  Due(s)' /\ Apart(s)' /\ Home(s)'
  BY OneLeaver, <1>1, <1>4, CommandWakes
<1>5. CASE GuestInt13 \/ Reboot
  BY <1>1, <1>5, ResetWakes
<1>. QED
  BY <1>2, <1>3, <1>4, <1>5, StepKinds

\* No announcement is on its way at first.
LEMMA WakeInit == Init => WakeInv
<1> SUFFICES ASSUME Init, NEW s \in Sessions PROVE Due(s) /\ Apart(s) /\ Home(s)
  BY DEF WakeInv
<1>1. at[s] = "off" /\ rep[s] = << >> /\ ring = << >> /\ ~still /\ mode = "loop"
  BY DEF Init
<1>2. DOMAIN rep[s] = {} /\ Mine(s) = {}
  BY <1>1 DEF Mine
<1>. QED
  BY <1>1, <1>2 DEF Due, Apart, Home, HasIsr

\* What wait_for_isr reads is due to its script.
LEMMA WakeUp == Types /\ WakeInv /\ [Next]_vars =>
  \A s \in Sessions : at[s] = "wait" /\ at'[s] = "sync" /\ starts'[s] = starts[s]
    => mode = "loop" /\ op[s] \in DoneSet(s)
<1> SUFFICES ASSUME Types, WakeInv, [Next]_vars, NEW s \in Sessions,
                    at[s] = "wait", at'[s] = "sync", starts'[s] = starts[s]
             PROVE  mode = "loop" /\ op[s] \in DoneSet(s)
  OBVIOUS
<1>1. at' # at
  OBVIOUS
<1>2. ~Idles /\ ~GuestInt13 /\ ~Reboot /\ \A d \in BOOLEAN : ~LoopCommand(d)
  BY <1>1 DEF Idles, LoopTop, LoopNoPacket, LoopForeign, NetForeign, LoopCommand, GuestInt13,
              Reboot, client, vars
<1>3. PICK t \in Sessions : Start(t) \/ Script(t)
  BY <1>2, StepKinds
<1>4. t = s
  BY <1>1, <1>3, ScriptLocal DEF Untouched, Stays
<1>5. ~Start(s)
  <2>1. starts[s] \in 0 .. MaxStarts /\ starts \in [Sessions -> 0 .. MaxStarts]
    BY DEF Types, ClientTypes
  <2>2. Start(s) => starts'[s] = starts[s] + 1
    BY <2>1 DEF Start
  <2>. QED
    BY <2>1, <2>2
<1>6. WaitReceives(s)
  BY <1>3, <1>4, <1>5, CopyOrder
     DEF Script, Call, SendDelivered, MsgAnswered, MsgIgnores, BeginLeave, SendLeave, Returned,
         client, Types, ClientTypes
<1>7. rep[s] \in Seq(Datagrams) /\ rep[s] # << >> /\ Head(rep[s]).phase = Isr
  BY <1>6 DEF WaitReceives, WakesUp, Types, ClientTypes, SocketTypes
<1>8. HasIsr(s)
  BY <1>7 DEF HasIsr
<1>. QED
  BY <1>8 DEF WakeInv, Due, Away

\* wait_for_isr returns only when the INT 13h that followed the script's own leave has been
\* announced: no announcement is left over from an earlier leave, from another
\* script with the same ping_idx or from before a reboot, for a nop ends each stay and its
\* answer comes after whatever announcements there were.
THEOREM WokenByItsOwnGuest == ASSUME OneLeaver PROVE Spec => NoSpuriousWakeup
<1>1. Types /\ LeaverInv /\ LeaveInv /\ DamageInv /\ WakeInv /\ [Next]_vars => WakeInv'
  BY OneLeaver, WakeStep
<1>2. Spec => []WakeInv
  BY <1>1, WakeInit, TypesCorrect, LeaverAlways, LeaveAlways, DamageAlways, PTL DEF Spec
<1>3. Types /\ WakeInv /\ [Next]_vars =>
        [\A s \in Sessions : at[s] = "wait" /\ at'[s] = "sync" /\ starts'[s] = starts[s]
           => mode = "loop" /\ op[s] \in DoneSet(s)]_vars
  BY WakeUp
<1>. QED
  BY <1>2, <1>3, TypesCorrect, PTL DEF Spec, NoSpuriousWakeup
================================================================================

------------------------------- MODULE Transmit -------------------------------
(***************************************************************************)
(* Sending: start_send_udp, fin_send_udp and the reply of process_arp.     *)
(*                                                                         *)
(* There is one transmit buffer.  The driver waits until the card has sent *)
(* the previous packet (ISR bit PTX, not for the first packet), announces  *)
(* the number of bytes it will write through the remote DMA port, writes   *)
(* them, waits for the card to have stored all of them (bit RDC) and       *)
(* starts the transmission.  The card stores bytes and transmits while the *)
(* driver goes on; both waits are busy loops without a limit.              *)
(*                                                                         *)
(* Bytes are counted, not modelled: a frame is whole when the buffer held  *)
(* every byte of one packet from the start of its transmission to the end. *)
(***************************************************************************)
EXTENDS Integers, Sequences

CONSTANTS
  TxSize,        \* bytes of the transmit buffer: ED_TXBUF_SIZE pages
  MinFrame,      \* shorter packets are sent with what follows in the buffer
  PingLens,      \* bytes of ping answers
  GetLens,       \* bytes getmem is asked for
  Lags,          \* how many bytes the card can leave for later when it stores some
  MaxPackets     \* bound: packets sent in a behaviour

-------------------------------------------------------------------------------
(* The packets, by what is announced to the card (RBCR) and what is written. *)

HeaderLen == 6 + 6 + 2 + 20 + 8

Udp(len, written) == [dma |-> len + 14 + 20 + 8, body |-> written]

Hello == Udp(6, 6)
Announcement == Udp(1, 1)
Acknowledgement == Udp(1, 1)
InbReply == Udp(2, 1 + 1)
PingReply(len) == Udp(len, 1 + (len - 1))
GetmemReply(datalen) == Udp(datalen + 1, 1 + datalen)

CallReply == Udp(15, 1 + 7 * 2)
CalledParamsReply == Udp(29, 1 + 2 + 13 * 2)
DhcpPacket(serverip) ==
  LET len == IF serverip THEN 256 ELSE 250
  IN  Udp(280, 236 + 4 + 3 + 6 + (IF serverip THEN 6 ELSE 0) + 1 + (280 - len))
ArpReply == [dma |-> 42, body |-> (6 + 6 + 2 + 8 + 6 + 4 + 6 + 4) - HeaderLen]

Packets ==
  {Hello, Announcement, Acknowledgement, InbReply, CallReply, CalledParamsReply,
   ArpReply}
    \cup {PingReply(n) : n \in PingLens} \cup {GetmemReply(n) : n \in GetLens}
    \cup {DhcpPacket(b) : b \in BOOLEAN}

FrameLen(pkt) == IF pkt.dma < MinFrame THEN MinFrame ELSE pkt.dma

\* getmem asks for at most 1024 bytes, a ping answer is at most 11 long.
ASSUME LengthAssumption ==
  /\ PingLens \subseteq Nat \ {0} /\ GetLens \subseteq Nat
  /\ TxSize \in Nat /\ MinFrame \in Nat /\ MinFrame <= TxSize
  /\ TxSize < 65536
  /\ \A p \in Packets : p.dma <= TxSize
  /\ Lags \subseteq Nat /\ 0 \in Lags
  /\ MaxPackets \in Nat

Idle == [id |-> 0, len |-> 0, whole |-> FALSE]

VARIABLES
  (* the driver *)
  pc,            \* "idle", or the part of the send that comes next
  first_tx,      \* nothing has been sent yet
  pkt, nr,       \* the packet being sent, and its number
  (* the card *)
  ptx, txe, rdc, \* ISR bits
  rbcr,          \* bytes of the remote write still to come
  port,          \* bytes written to the port and not stored yet
  buf,           \* whose bytes are at the front of the buffer, and how many
  tx,            \* the frame being transmitted, or Idle
  (* history *)
  queue,         \* frames handed to start_send_udp and not on the wire
  wire           \* frames transmitted

driver == <<pc, first_tx, pkt, nr>>
dma == <<rdc, rbcr, port, buf>>
vars == <<driver, ptx, txe, dma, tx, queue, wire>>

-------------------------------------------------------------------------------
Init ==
  /\ pc = "idle" /\ first_tx = TRUE /\ pkt = Hello /\ nr = 0
  /\ ptx = FALSE /\ txe = FALSE /\ rdc = FALSE
  /\ rbcr = 0 /\ port = 0
  /\ buf = [id |-> 0, n |-> 0]
  /\ tx = Idle
  /\ queue = << >> /\ wire = << >>

Handed(p, n) == [id |-> n, len |-> FrameLen(p), whole |-> TRUE]

\* A caller has a packet to send.
StartSend(p) ==
  /\ pc = "idle" /\ nr < MaxPackets
  /\ pc' = "wait" /\ pkt' = p /\ nr' = nr + 1
  /\ queue' = Append(queue, Handed(p, nr + 1))
  /\ UNCHANGED <<first_tx, ptx, txe, dma, tx, wire>>

\* Mutants: nothing is waited for; TXE ends the wait too.
BufferFreeAlways == TRUE
BufferFreeOnTxe == first_tx \/ ptx \/ txe

\* The wait for the previous packet ends when PTX is set; PTX is acknowledged.
BufferFree == first_tx \/ ptx
AckPtx == IF first_tx THEN ptx ELSE FALSE

\* Still waiting.
WaitPtx ==
  /\ pc = "wait" /\ ~BufferFree
  /\ UNCHANGED vars

\* Mutant: RDC keeps the value the last remote DMA gave it.
AckRdcNot == rdc

AckRdc == FALSE

\* Mutant: the low byte is written to both halves of RBCR.
RbcrLowTwice(n) == (n % 256) + 256 * (n % 256)

\* The count as written to the two bytes of RBCR.
Rbcr(n) == (n % 256) + 256 * ((n \div 256) % 256)

\* The wait is over: the remote write is set up.
SetUpDma ==
  /\ pc = "wait" /\ BufferFree
  /\ ptx' = AckPtx /\ first_tx' = FALSE
  /\ rdc' = AckRdc /\ rbcr' = Rbcr(pkt.dma)
  /\ port' = 0 /\ buf' = [id |-> nr, n |-> 0]
  /\ pc' = "header"
  /\ UNCHANGED <<pkt, nr, txe, tx, queue, wire>>

WriteHeader ==
  /\ pc = "header"
  /\ port' = port + HeaderLen
  /\ pc' = "body"
  /\ UNCHANGED <<first_tx, pkt, nr, ptx, txe, rdc, rbcr, buf, tx, queue, wire>>

WriteBody ==
  /\ pc = "body"
  /\ port' = port + pkt.body
  /\ pc' = "rdc"
  /\ UNCHANGED <<first_tx, pkt, nr, ptx, txe, rdc, rbcr, buf, tx, queue, wire>>

\* fin_send_udp, still waiting for the card to store the bytes.
WaitRdc ==
  /\ pc = "rdc" /\ ~rdc
  /\ UNCHANGED vars

\* fin_send_udp: the card is told to transmit.
Transmit ==
  /\ pc = "rdc" /\ rdc
  /\ tx' = [id |-> buf.id, len |-> FrameLen(pkt), whole |-> buf.n = pkt.dma]
  /\ pc' = "idle"
  /\ UNCHANGED <<first_tx, pkt, nr, ptx, txe, dma, queue, wire>>

\* Between two sends the receive path uses the remote DMA for reading.
RemoteRead ==
  /\ pc = "idle"
  /\ rdc' = TRUE /\ rbcr' = 0
  /\ UNCHANGED <<driver, ptx, txe, port, buf, tx, queue, wire>>

Driver ==
  \/ WaitPtx \/ SetUpDma \/ WriteHeader \/ WriteBody \/ WaitRdc \/ Transmit

-------------------------------------------------------------------------------
(* The card *)

\* Bytes from the port are stored, up to the announced number; storing under a
\* transmission spoils the frame.
CardStores ==
  /\ rbcr > 0
  /\ \E l \in {k \in Lags : k < port} :
       LET n == IF port - l < rbcr THEN port - l ELSE rbcr
       IN  /\ port' = port - n
           /\ rbcr' = rbcr - n
           /\ buf' = [buf EXCEPT !.n = @ + n]
           /\ rdc' = (n = rbcr)
  /\ tx' = IF tx = Idle THEN Idle ELSE [tx EXCEPT !.whole = FALSE]
  /\ UNCHANGED <<driver, ptx, txe, queue, wire>>

CardSends ==
  /\ tx # Idle
  /\ wire' = Append(wire, tx)
  /\ queue' = Tail(queue)
  /\ ptx' = TRUE /\ tx' = Idle
  /\ UNCHANGED <<driver, txe, dma>>

\* Excessive collisions: the frame is given up, PTX stays clear.
CardFails ==
  /\ tx # Idle
  /\ txe' = TRUE /\ tx' = Idle
  /\ UNCHANGED <<driver, ptx, dma, queue, wire>>

Card == CardStores \/ CardSends \/ CardFails

Next == (\E p \in Packets : StartSend(p)) \/ Driver \/ RemoteRead \/ Card

Spec == Init /\ [][Next]_vars

\* A send that began goes on, and the card does what it is told.
FairSpec ==
  Spec /\ WF_vars(Driver) /\ WF_vars(CardStores) /\ WF_vars(CardSends \/ CardFails)

-------------------------------------------------------------------------------
(* Properties *)

Frames == [id : 0 .. MaxPackets, len : 0 .. TxSize, whole : BOOLEAN]

TypeOK ==
  /\ pc \in {"idle", "wait", "header", "body", "rdc"}
  /\ first_tx \in BOOLEAN /\ pkt \in Packets /\ nr \in 0 .. MaxPackets
  /\ ptx \in BOOLEAN /\ txe \in BOOLEAN /\ rdc \in BOOLEAN
  /\ rbcr \in 0 .. TxSize /\ port \in 0 .. TxSize
  /\ buf \in [id : 0 .. MaxPackets, n : 0 .. TxSize]
  /\ tx \in Frames
  /\ queue \in Seq(Frames) /\ wire \in Seq(Frames)

\* While the card transmits, the driver neither writes to the port nor has bytes
\* of the next packet on their way into the buffer (start_send_udp's wait).
BufferOwned == tx # Idle => pc \in {"idle", "wait"} /\ port = 0

\* Every frame on the wire was, from the start of its transmission to the end, the
\* packet some caller announced, all of it (fin_send_udp's wait for RDC).
WholeFrames == \A i \in DOMAIN wire : wire[i].whole

\* Packets leave in the order the callers sent them, each once and whole; behind one
\* whose transmission failed nothing leaves.
Out == INSTANCE FrameQueue WITH
  Frame <- [id : 0 .. MaxPackets, len : 0 .. TxSize, whole : {TRUE}], taken <- wire
SendsInOrder == Out!Spec

\* A transmission failed: the card is idle without PTX.
Failed == txe /\ ~ptx /\ ~first_tx /\ tx = Idle /\ pc \in {"idle", "wait"}

\* Neither wait of a send lasts for ever unless a transmission failed: every caller
\* writes as many bytes as it announced, and PTX is set for each packet but the first.
SendCompletes == pc # "idle" ~> pc = "idle" \/ Failed

\* After a transmission that failed, start_send_udp waits for a PTX that does not
\* come: nothing is sent any more.
TxErrorBlocks == [][Failed => Failed' /\ UNCHANGED wire]_vars
===============================================================================

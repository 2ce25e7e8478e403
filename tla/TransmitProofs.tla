---------------------------- MODULE TransmitProofs ----------------------------
(***************************************************************************)
(* What Transmit guarantees for every set of packets, any lag of the card  *)
(* and any number of sends: the buffer is never written while the card     *)
(* reads it, every transmitted frame is whole, frames leave in order, and  *)
(* nothing leaves after a transmission that failed.                        *)
(***************************************************************************)
EXTENDS Transmit, SequenceTheorems, TLAPS

\* Where the bytes of the packet are while it is written: on the port, in the
\* buffer, or still to come; and the wait for RDC ends only when all are stored.
BytesOK ==
  /\ pc \in {"idle", "wait"} => port = 0
  /\ pc \in {"header", "body", "rdc"} =>
       /\ buf.id = nr /\ rbcr + buf.n = pkt.dma
       /\ rdc => rbcr = 0
  /\ pc = "header" => port = 0 /\ buf.n = 0
  /\ pc = "body" => port + buf.n = HeaderLen
  /\ pc = "rdc" => port + buf.n = pkt.dma

\* PTX is clear from the moment a packet claims the buffer until it is sent.
BufferClaimed ==
  /\ first_tx => ~ptx
  /\ tx # Idle => ~first_tx /\ ~ptx
  /\ pc \in {"header", "body", "rdc"} => ~first_tx /\ ~ptx /\ tx = Idle

\* What was handed over and is not on the wire: the frame being transmitted, then
\* the packet being prepared.
InFlight ==
  LET sending == IF tx = Idle THEN << >> ELSE <<tx>>
  IN  IF pc = "idle" THEN sending ELSE Append(sending, Handed(pkt, nr))

QueueOK ==
  /\ Failed \/ queue = InFlight
  /\ tx # Idle => tx.whole

IInv == TypeOK /\ BytesOK /\ BufferClaimed /\ QueueOK /\ WholeFrames

-------------------------------------------------------------------------------
(* Packets *)

\* Every caller writes exactly the bytes it announced.
LEMMA AnnouncedIsWritten ==
  ASSUME NEW p \in Packets
  PROVE  /\ p.dma \in HeaderLen .. TxSize /\ p.body \in Nat
         /\ HeaderLen + p.body = p.dma
         /\ p = [dma |-> p.dma, body |-> p.body]
<1>1. p.dma <= TxSize /\ TxSize \in Nat
  BY LengthAssumption
<1>2. CASE p \in {Hello, Announcement, Acknowledgement, InbReply, CallReply,
                  CalledParamsReply, ArpReply}
  BY <1>1, <1>2 DEF Hello, Announcement, Acknowledgement, InbReply, CallReply,
                    CalledParamsReply, ArpReply, Udp, HeaderLen
<1>3. CASE \E n \in PingLens : p = PingReply(n)
  BY <1>1, <1>3, LengthAssumption DEF PingReply, Udp, HeaderLen
<1>4. CASE \E n \in GetLens : p = GetmemReply(n)
  BY <1>1, <1>4, LengthAssumption DEF GetmemReply, Udp, HeaderLen
<1>5. CASE \E b \in BOOLEAN : p = DhcpPacket(b)
  BY <1>1, <1>5 DEF DhcpPacket, Udp, HeaderLen
<1>. QED
  BY <1>2, <1>3, <1>4, <1>5 DEF Packets

\* The two bytes of RBCR hold any count a packet announces.
LEMMA RbcrExact ==
  ASSUME NEW n \in Int, 0 <= n, n < 65536
  PROVE  Rbcr(n) = n
<1> DEFINE q == n \div 256
           r == n % 256
<1>1. n = (256 * q) + r
  BY Z3
<1>2. q \in Int /\ r \in Int /\ 0 <= r /\ r < 256
  OBVIOUS
<1>. HIDE DEF q, r
<1>3. 0 <= q /\ q <= 255
  BY <1>1, <1>2
<1>4. q % 256 = q
  BY <1>2, <1>3
<1>5. r + 256 * (q % 256) = n
  BY <1>1, <1>2, <1>4
<1>. QED
  BY <1>5 DEF Rbcr, q, r

\* A frame handed over is a frame, and not Idle.
LEMMA HandedIsFrame ==
  ASSUME NEW p \in Packets, NEW n \in 0 .. MaxPackets
  PROVE  Handed(p, n) \in Frames /\ Handed(p, n) # Idle /\ Handed(p, n).whole
<1>1. FrameLen(p) \in 0 .. TxSize
  BY AnnouncedIsWritten, LengthAssumption DEF FrameLen, HeaderLen
<1>. QED
  BY <1>1 DEF Handed, Frames, Idle

-------------------------------------------------------------------------------
\* The invariant holds at the start.
LEMMA InitInv == Init => IInv
<1> SUFFICES ASSUME Init PROVE IInv
  OBVIOUS
<1>1. Hello \in Packets /\ Idle \in Frames
  BY LengthAssumption DEF Packets, Idle, Frames
<1>2. TypeOK
  <2>1. TxSize \in Nat /\ MaxPackets \in Nat
    BY LengthAssumption
  <2>2. /\ 0 \in 0 .. MaxPackets /\ 0 \in 0 .. TxSize
        /\ << >> \in Seq(Frames)
    BY <2>1
  <2>. QED
    BY <1>1, <2>2 DEF Init, TypeOK
<1>3. BytesOK /\ BufferClaimed /\ QueueOK /\ WholeFrames
  BY DEF Init, BytesOK, BufferClaimed, QueueOK, InFlight, WholeFrames, Idle
<1>. QED
  BY <1>2, <1>3 DEF IInv

LEMMA StartInv ==
  ASSUME IInv, NEW p \in Packets, StartSend(p)
  PROVE  IInv'
<1>1. /\ pc = "idle" /\ pc' = "wait" /\ pkt' = p /\ nr' = nr + 1
      /\ nr' \in 0 .. MaxPackets
      /\ queue' = Append(queue, Handed(p, nr + 1))
      /\ UNCHANGED <<first_tx, ptx, txe, dma, tx, wire>>
  BY LengthAssumption DEF StartSend, IInv, TypeOK
<1>2. Handed(p, nr + 1) \in Frames
  BY <1>1, HandedIsFrame
<1>3. TypeOK'
  BY <1>1, <1>2 DEF IInv, TypeOK, dma
<1>4. BytesOK' /\ BufferClaimed' /\ WholeFrames'
  BY <1>1 DEF IInv, BytesOK, BufferClaimed, WholeFrames, dma
<1>5. QueueOK'
  <2>1. CASE Failed
    BY <1>1, <2>1 DEF IInv, QueueOK, Failed, dma
  <2>2. CASE ~Failed
    <3>1. queue = IF tx = Idle THEN << >> ELSE <<tx>>
      BY <1>1, <2>2 DEF IInv, QueueOK, InFlight
    <3>2. InFlight' = Append(IF tx = Idle THEN << >> ELSE <<tx>>, Handed(p, nr + 1))
      BY <1>1 DEF InFlight, Handed
    <3>3. queue' = InFlight'
      BY <1>1, <3>1, <3>2
    <3>. QED
      BY <1>1, <3>3 DEF IInv, QueueOK
  <2>. QED
    BY <2>1, <2>2
<1>. QED
  BY <1>3, <1>4, <1>5 DEF IInv

\* The queue depends on nothing that setting up and writing a packet changes.
LEMMA QueueKept ==
  ASSUME IInv, ~Failed, UNCHANGED <<tx, pkt, nr, queue, wire>>, pc # "idle", pc' # "idle"
  PROVE  QueueOK' /\ WholeFrames'
BY DEF IInv, QueueOK, InFlight, WholeFrames, Handed

LEMMA SetUpInv == IInv /\ SetUpDma => IInv'
<1> SUFFICES ASSUME IInv, SetUpDma PROVE IInv'
  OBVIOUS
<1>1. /\ pc = "wait" /\ pc' = "header" /\ BufferFree
      /\ ptx' = AckPtx /\ first_tx' = FALSE /\ rdc' = FALSE
      /\ rbcr' = Rbcr(pkt.dma) /\ port' = 0 /\ buf' = [id |-> nr, n |-> 0]
      /\ UNCHANGED <<pkt, nr, txe, tx, queue, wire>>
  BY DEF SetUpDma, AckRdc
<1>2. pkt \in Packets /\ nr \in 0 .. MaxPackets
  BY DEF IInv, TypeOK
<1>3. rbcr' = pkt.dma /\ rbcr' \in 0 .. TxSize /\ TxSize \in Nat
  <2>1. pkt.dma \in HeaderLen .. TxSize /\ TxSize \in Nat /\ TxSize < 65536
    BY <1>2, AnnouncedIsWritten, LengthAssumption
  <2>2. pkt.dma \in Int /\ 0 <= pkt.dma /\ pkt.dma < 65536 /\ pkt.dma <= TxSize
    BY <2>1 DEF HeaderLen
  <2>3. \A n \in Int : 0 <= n /\ n < 65536 => Rbcr(n) = n
    BY RbcrExact
  <2>4. Rbcr(pkt.dma) = pkt.dma
    BY <2>2, <2>3
  <2>. QED
    BY <1>1, <2>1, <2>2, <2>4
<1>4. ptx' = FALSE /\ tx' = Idle
  <2>1. tx # Idle => ~first_tx /\ ~ptx
    BY DEF IInv, BufferClaimed
  <2>2. ptx \in BOOLEAN /\ first_tx \in BOOLEAN
    BY DEF IInv, TypeOK
  <2>3. first_tx => ~ptx
    BY DEF IInv, BufferClaimed
  <2>. QED
    BY <1>1, <2>1, <2>2, <2>3 DEF BufferFree, AckPtx
<1>5. TypeOK'
  <2>1. buf' \in [id : 0 .. MaxPackets, n : 0 .. TxSize] /\ port' \in 0 .. TxSize
    BY <1>1, <1>2, <1>3
  <2>2. /\ pc' \in {"idle", "wait", "header", "body", "rdc"}
        /\ first_tx' \in BOOLEAN /\ ptx' \in BOOLEAN /\ rdc' \in BOOLEAN
    BY <1>1, <1>4
  <2>. QED
    BY <1>1, <1>3, <2>1, <2>2 DEF IInv, TypeOK
<1>6. BytesOK'
  BY <1>1, <1>2, <1>3 DEF BytesOK
<1>7. BufferClaimed'
  BY <1>1, <1>4 DEF BufferClaimed
<1>8. QueueOK' /\ WholeFrames'
  <2>1. ~Failed
    BY <1>1 DEF Failed, BufferFree
  <2>. QED
    BY <1>1, <2>1, QueueKept
<1>. QED
  BY <1>5, <1>6, <1>7, <1>8 DEF IInv

\* Writing a part of the packet to the port.
LEMMA WriteInv == IInv /\ (WriteHeader \/ WriteBody) => IInv'
<1> SUFFICES ASSUME IInv, WriteHeader \/ WriteBody PROVE IInv'
  OBVIOUS
<1>1. /\ pkt \in Packets /\ nr \in 0 .. MaxPackets /\ TxSize \in Nat
      /\ rbcr \in 0 .. TxSize /\ port \in 0 .. TxSize /\ buf.n \in 0 .. TxSize
  BY LengthAssumption DEF IInv, TypeOK
<1>2. /\ pkt.dma \in HeaderLen .. TxSize /\ pkt.body \in Nat
      /\ HeaderLen + pkt.body = pkt.dma /\ HeaderLen \in Nat
  BY <1>1, AnnouncedIsWritten DEF HeaderLen
<1>3. /\ UNCHANGED <<first_tx, pkt, nr, ptx, txe, rdc, rbcr, buf, tx, queue, wire>>
      /\ pc \in {"header", "body"} /\ pc' \in {"body", "rdc"}
  BY DEF WriteHeader, WriteBody
<1>4. BytesOK' /\ port' \in 0 .. TxSize
  <2>1. CASE WriteHeader
    BY <1>1, <1>2, <1>3, <2>1 DEF WriteHeader, IInv, BytesOK
  <2>2. CASE WriteBody
    BY <1>1, <1>2, <1>3, <2>2 DEF WriteBody, IInv, BytesOK
  <2>. QED
    BY <2>1, <2>2
<1>5. TypeOK'
  BY <1>3, <1>4 DEF IInv, TypeOK
<1>6. BufferClaimed'
  BY <1>3 DEF IInv, BufferClaimed
<1>7. QueueOK' /\ WholeFrames'
  <2>1. ~Failed
    BY <1>3 DEF Failed
  <2>. QED
    BY <1>3, <2>1, QueueKept
<1>. QED
  BY <1>4, <1>5, <1>6, <1>7 DEF IInv

\* RDC says that the whole packet is in the buffer when the card is started.
LEMMA TransmitInv == IInv /\ Transmit => IInv'
<1> SUFFICES ASSUME IInv, Transmit PROVE IInv'
  OBVIOUS
<1>1. /\ pc = "rdc" /\ rdc /\ pc' = "idle"
      /\ tx' = [id |-> buf.id, len |-> FrameLen(pkt), whole |-> buf.n = pkt.dma]
      /\ UNCHANGED <<first_tx, pkt, nr, ptx, txe, rdc, rbcr, port, buf, queue, wire>>
  BY DEF Transmit, dma
<1>2. /\ pkt \in Packets /\ nr \in 0 .. MaxPackets /\ TxSize \in Nat
      /\ rbcr \in 0 .. TxSize /\ port \in 0 .. TxSize /\ buf.n \in 0 .. TxSize
  BY LengthAssumption DEF IInv, TypeOK
<1>3. pkt.dma \in HeaderLen .. TxSize /\ HeaderLen \in Nat
  BY <1>2, AnnouncedIsWritten DEF HeaderLen
<1>4. buf.id = nr /\ buf.n = pkt.dma /\ port = 0
  BY <1>1, <1>2, <1>3 DEF IInv, BytesOK
<1>5. tx' = Handed(pkt, nr)
  BY <1>1, <1>4 DEF Handed
<1>6. tx' \in Frames /\ tx' # Idle /\ tx'.whole
  BY <1>2, <1>5, HandedIsFrame
<1>7. ~first_tx /\ ~ptx /\ tx = Idle
  BY <1>1 DEF IInv, BufferClaimed
<1>8. TypeOK'
  BY <1>1, <1>6 DEF IInv, TypeOK
<1>9. BytesOK'
  BY <1>1, <1>4 DEF BytesOK
<1>10. BufferClaimed'
  BY <1>1, <1>7 DEF BufferClaimed
<1>11. QueueOK' /\ WholeFrames'
  <2>1. queue = Append(<< >>, Handed(pkt, nr))
    BY <1>1, <1>7 DEF IInv, QueueOK, InFlight, Failed
  <2>2. InFlight' = <<tx'>>
    BY <1>1, <1>6 DEF InFlight
  <2>3. queue' = InFlight'
    BY <1>1, <1>5, <2>1, <2>2
  <2>. QED
    BY <1>1, <1>6, <2>3 DEF IInv, QueueOK, WholeFrames
<1>. QED
  BY <1>8, <1>9, <1>10, <1>11 DEF IInv

\* Nothing is being written while the driver reads from the card.
LEMMA RemoteReadInv == IInv /\ RemoteRead => IInv'
<1> SUFFICES ASSUME IInv, RemoteRead PROVE IInv'
  OBVIOUS
<1>1. /\ pc = "idle" /\ rdc' = TRUE /\ rbcr' = 0
      /\ UNCHANGED <<pc, first_tx, pkt, nr, ptx, txe, port, buf, tx, queue, wire>>
  BY DEF RemoteRead, driver
<1>2. 0 \in 0 .. TxSize
  BY LengthAssumption
<1>3. TypeOK'
  BY <1>1, <1>2 DEF IInv, TypeOK
<1>4. BytesOK' /\ BufferClaimed' /\ WholeFrames'
  BY <1>1 DEF IInv, BytesOK, BufferClaimed, WholeFrames
<1>5. QueueOK'
  BY <1>1 DEF IInv, QueueOK, InFlight, Failed
<1>. QED
  BY <1>3, <1>4, <1>5 DEF IInv

-------------------------------------------------------------------------------
(* The card *)

\* How many bytes the card stores at once.
LEMMA StoredCount ==
  ASSUME NEW a \in Int, 0 <= a, NEW l \in Int, 0 <= l, l < a, NEW b \in Int, 0 < b
  PROVE  LET n == IF a - l < b THEN a - l ELSE b
         IN  n \in Int /\ 0 < n /\ n <= a /\ n <= b
OBVIOUS

\* Bytes move from the port to the buffer, and only while nothing is transmitted.
LEMMA StoresInv == IInv /\ CardStores => IInv'
<1> SUFFICES ASSUME IInv, CardStores PROVE IInv'
  OBVIOUS
<1>1. /\ pkt \in Packets /\ nr \in 0 .. MaxPackets /\ TxSize \in Nat
      /\ rbcr \in 0 .. TxSize /\ port \in 0 .. TxSize
      /\ buf \in [id : 0 .. MaxPackets, n : 0 .. TxSize]
  BY LengthAssumption DEF IInv, TypeOK
<1>2. /\ pkt.dma \in Int /\ pkt.dma <= TxSize /\ HeaderLen \in Int
      /\ HeaderLen <= pkt.dma
  BY <1>1, AnnouncedIsWritten DEF HeaderLen
<1>3. PICK n \in Int :
        /\ 0 < n /\ n <= port /\ n <= rbcr
        /\ port' = port - n /\ rbcr' = rbcr - n
        /\ buf' = [buf EXCEPT !.n = @ + n]
        /\ rdc' = (n = rbcr)
  <2>1. PICK l \in Lags : /\ l < port /\ 0 < rbcr
                          /\ LET n == IF port - l < rbcr THEN port - l ELSE rbcr
                             IN  /\ port' = port - n
                                 /\ rbcr' = rbcr - n
                                 /\ buf' = [buf EXCEPT !.n = @ + n]
                                 /\ rdc' = (n = rbcr)
    BY <1>1 DEF CardStores
  <2>2. l \in Int /\ 0 <= l
    BY LengthAssumption
  <2>. DEFINE m == IF port - l < rbcr THEN port - l ELSE rbcr
  <2>3. m \in Int /\ 0 < m /\ m <= port /\ m <= rbcr
    BY <1>1, <2>1, <2>2
  <2>4. /\ port' = port - m /\ rbcr' = rbcr - m
        /\ buf' = [buf EXCEPT !.n = @ + m] /\ rdc' = (m = rbcr)
    BY <2>1
  <2>. HIDE DEF m
  <2>. QED
    BY <2>3, <2>4
<1>4. /\ UNCHANGED <<pc, first_tx, pkt, nr, ptx, txe, queue, wire>>
      /\ tx' = IF tx = Idle THEN Idle ELSE [tx EXCEPT !.whole = FALSE]
  BY DEF CardStores, driver
<1>5. pc \in {"header", "body", "rdc"}
  BY <1>1, <1>3 DEF IInv, TypeOK, BytesOK
<1>6. tx = Idle /\ tx' = Idle /\ UNCHANGED tx
  BY <1>4, <1>5 DEF IInv, BufferClaimed
<1>7. buf'.id = buf.id /\ buf'.n = buf.n + n /\ buf.n \in Int /\ 0 <= buf.n
  BY <1>1, <1>3
<1>8. BytesOK'
  <2>1. /\ buf.id = nr /\ rbcr + buf.n = pkt.dma
    BY <1>5 DEF IInv, BytesOK
  <2>2. buf'.id = nr' /\ rbcr' + buf'.n = pkt'.dma
    BY <1>1, <1>3, <1>4, <1>7, <2>1
  <2>3. rdc' => rbcr' = 0
    <3>1. rdc' = (n = rbcr)
      BY <1>3
    <3>2. n = rbcr => rbcr' = 0
      BY <1>1, <1>3
    <3>. QED
      BY <3>1, <3>2, Zenon
  <2>4. port' + buf'.n = port + buf.n
    BY <1>1, <1>3, <1>7
  <2>5. pc # "header"
    BY <1>1, <1>3 DEF IInv, BytesOK
  <2>6. /\ pc = "body" => port + buf.n = HeaderLen
        /\ pc = "rdc" => port + buf.n = pkt.dma
    BY DEF IInv, BytesOK
  <2>7. pc' = pc /\ pkt' = pkt
    BY <1>4
  <2>. QED
    BY <1>5, <2>2, <2>3, <2>4, <2>5, <2>6, <2>7 DEF BytesOK
<1>9. TypeOK'
  <2>1. rbcr' \in 0 .. TxSize /\ port' \in 0 .. TxSize /\ rdc' \in BOOLEAN
    BY <1>1, <1>3
  <2>2. rbcr + buf.n = pkt.dma
    BY <1>5 DEF IInv, BytesOK
  <2>3. buf.n + n \in 0 .. TxSize
    BY <1>1, <1>2, <1>3, <1>7, <2>2
  <2>4. buf' \in [id : 0 .. MaxPackets, n : 0 .. TxSize]
    BY <1>1, <1>3, <2>3
  <2>. QED
    BY <1>4, <1>6, <2>1, <2>4 DEF IInv, TypeOK
<1>10. BufferClaimed' /\ QueueOK' /\ WholeFrames'
  BY <1>4, <1>5, <1>6 DEF IInv, BufferClaimed, QueueOK, InFlight, Failed, Handed, WholeFrames
<1>. QED
  BY <1>8, <1>9, <1>10 DEF IInv

\* A queue of two frames.
LEMMA TwoFrames ==
  ASSUME NEW t \in Frames, NEW h \in Frames
  PROVE  /\ Append(<<t>>, h) # << >> /\ Head(Append(<<t>>, h)) = t
         /\ Tail(Append(<<t>>, h)) = Append(<< >>, h)
<1>1. <<t>> \in Seq(Frames) /\ <<t>> # << >> /\ Head(<<t>>) = t /\ Tail(<<t>>) = << >>
  OBVIOUS
<1>2. Append(<<t>>, h) # << >>
  BY <1>1
<1>3. Head(Append(<<t>>, h)) = Head(<<t>>) /\ Tail(Append(<<t>>, h)) = Append(Tail(<<t>>), h)
  BY <1>1, HeadTailAppend, Zenon
<1>. QED
  BY <1>1, <1>2, <1>3

\* The queue without its first frame, which the card is transmitting.
LEMMA QueueWithoutFirst ==
  ASSUME IInv, tx # Idle
  PROVE  /\ queue # << >> /\ Head(queue) = tx /\ Tail(queue) \in Seq(Frames)
         /\ Tail(queue) = IF pc = "idle" THEN << >> ELSE <<Handed(pkt, nr)>>
<1>1. tx \in Frames /\ pkt \in Packets /\ nr \in 0 .. MaxPackets
  BY DEF IInv, TypeOK
<1>2. Handed(pkt, nr) \in Frames
  BY <1>1, HandedIsFrame
<1>3. queue = IF pc = "idle" THEN <<tx>> ELSE Append(<<tx>>, Handed(pkt, nr))
  BY DEF IInv, QueueOK, InFlight, Failed
<1>4. CASE pc = "idle"
  BY <1>1, <1>3, <1>4
<1>5. CASE pc # "idle"
  <2>1. queue = Append(<<tx>>, Handed(pkt, nr))
    BY <1>3, <1>5
  <2>3. /\ queue # << >> /\ Head(queue) = tx
        /\ Tail(queue) = Append(<< >>, Handed(pkt, nr))
    BY <1>1, <1>2, <2>1, TwoFrames
  <2>4. Append(<< >>, Handed(pkt, nr)) = <<Handed(pkt, nr)>>
        /\ <<Handed(pkt, nr)>> \in Seq(Frames)
    BY <1>2
  <2>. QED
    BY <1>5, <2>3, <2>4
<1>. QED
  BY <1>4, <1>5

\* The end of a transmission.
LEMMA SentInv == IInv /\ CardSends => IInv'
<1> SUFFICES ASSUME IInv, CardSends PROVE IInv'
  OBVIOUS
<1>1. /\ tx # Idle /\ tx' = Idle /\ queue' = Tail(queue)
      /\ ptx' = TRUE /\ wire' = Append(wire, tx)
      /\ UNCHANGED <<pc, first_tx, pkt, nr, txe, rdc, rbcr, port, buf>>
  BY DEF CardSends, driver, dma
<1>2. tx \in Frames /\ tx.whole /\ wire \in Seq(Frames)
  BY <1>1 DEF IInv, TypeOK, QueueOK
<1>3. Idle \in Frames
  BY LengthAssumption DEF Idle, Frames
<1>4. Tail(queue) \in Seq(Frames)
  BY <1>1, QueueWithoutFirst
<1>5. wire' \in Seq(Frames)
  BY <1>1, <1>2
<1>6. TypeOK'
  BY <1>1, <1>3, <1>4, <1>5 DEF IInv, TypeOK
<1>7. BytesOK'
  BY <1>1 DEF IInv, BytesOK
<1>8. BufferClaimed'
  <2>1. ~first_tx /\ pc \notin {"header", "body", "rdc"}
    BY <1>1 DEF IInv, BufferClaimed
  <2>. QED
    BY <1>1, <2>1 DEF BufferClaimed
<1>9. QueueOK'
  <2>1. Tail(queue) = IF pc = "idle" THEN << >> ELSE <<Handed(pkt, nr)>>
    BY <1>1, QueueWithoutFirst
  <2>2. InFlight' = IF pc = "idle" THEN << >> ELSE Append(<< >>, Handed(pkt, nr))
    BY <1>1 DEF InFlight, Handed
  <2>3. pkt \in Packets /\ nr \in 0 .. MaxPackets
    BY DEF IInv, TypeOK
  <2>4. Append(<< >>, Handed(pkt, nr)) = <<Handed(pkt, nr)>>
    BY <2>3, HandedIsFrame
  <2>5. queue' = InFlight'
    BY <1>1, <2>1, <2>2, <2>4
  <2>. QED
    BY <1>1, <2>5 DEF QueueOK
<1>10. WholeFrames'
  BY <1>1, <1>2 DEF IInv, WholeFrames
<1>. QED
  BY <1>6, <1>7, <1>8, <1>9, <1>10 DEF IInv

\* A transmission fails: PTX was clear, and the driver has not begun to write.
LEMMA FailsInv == IInv /\ CardFails => IInv' /\ Failed'
<1> SUFFICES ASSUME IInv, CardFails PROVE IInv' /\ Failed'
  OBVIOUS
<1>1. /\ tx # Idle /\ tx' = Idle /\ txe' = TRUE
      /\ UNCHANGED <<pc, first_tx, pkt, nr, ptx, rdc, rbcr, port, buf, queue, wire>>
  BY DEF CardFails, driver, dma
<1>2. ~first_tx /\ ~ptx /\ pc \in {"idle", "wait"}
  BY <1>1 DEF IInv, TypeOK, BufferClaimed
<1>3. Failed'
  BY <1>1, <1>2 DEF Failed
<1>4. Idle \in Frames
  BY LengthAssumption DEF Idle, Frames
<1>5. TypeOK'
  BY <1>1, <1>4 DEF IInv, TypeOK
<1>6. BytesOK' /\ BufferClaimed' /\ WholeFrames'
  BY <1>1, <1>2 DEF IInv, BytesOK, BufferClaimed, WholeFrames
<1>7. QueueOK'
  BY <1>1, <1>3 DEF QueueOK
<1>. QED
  BY <1>3, <1>5, <1>6, <1>7 DEF IInv

\* After a failure the driver never leaves the wait for PTX.
LEMMA FailedStays ==
  ASSUME IInv, Failed, [Next]_vars
  PROVE  Failed' /\ UNCHANGED wire
<1>1. port = 0 /\ pc \in {"idle", "wait"} /\ tx = Idle /\ ~BufferFree
  BY DEF IInv, BytesOK, Failed, BufferFree
<1>2. CASE UNCHANGED vars
  BY <1>2 DEF vars, driver, Failed
<1>3. CASE \E p \in Packets : StartSend(p)
  BY <1>3 DEF StartSend, Failed
<1>4. CASE Driver
  BY <1>1, <1>2, <1>4 DEF Driver, WaitPtx, SetUpDma, WriteHeader, WriteBody, WaitRdc,
                          Transmit
<1>5. CASE RemoteRead
  BY <1>5 DEF RemoteRead, driver, Failed
<1>6. ~CardStores
  <2>1. \A k \in Lags : ~(k < port)
    BY <1>1, LengthAssumption
  <2>. QED
    BY <2>1 DEF CardStores
<1>7. ~CardSends /\ ~CardFails
  BY <1>1 DEF CardSends, CardFails
<1>. QED
  BY <1>2, <1>3, <1>4, <1>5, <1>6, <1>7 DEF Next, Card

-------------------------------------------------------------------------------
(* The theorems *)

\* Every step keeps the invariant.
LEMMA NextInv == IInv /\ [Next]_vars => IInv'
<1> SUFFICES ASSUME IInv, [Next]_vars PROVE IInv'
  OBVIOUS
<1>1. CASE UNCHANGED vars
  BY <1>1 DEF vars, driver, dma, IInv, TypeOK, BytesOK, BufferClaimed, QueueOK,
              InFlight, Failed, Handed, WholeFrames
<1>2. CASE \E p \in Packets : StartSend(p)
  BY <1>2, StartInv
<1>3. CASE WaitPtx \/ WaitRdc
  BY <1>1, <1>3 DEF WaitPtx, WaitRdc
<1>4. CASE SetUpDma
  BY <1>4, SetUpInv
<1>5. CASE WriteHeader \/ WriteBody
  BY <1>5, WriteInv
<1>6. CASE Transmit
  BY <1>6, TransmitInv
<1>7. CASE RemoteRead
  BY <1>7, RemoteReadInv
<1>8. CASE CardStores
  BY <1>8, StoresInv
<1>9. CASE CardSends
  BY <1>9, SentInv
<1>10. CASE CardFails
  BY <1>10, FailsInv
<1>. QED
  BY <1>1, <1>2, <1>3, <1>4, <1>5, <1>6, <1>7, <1>8, <1>9, <1>10 DEF Next, Driver, Card

\* The invariant holds in every reachable state.
THEOREM Invariant == Spec => []IInv
<1>. QED
  BY InitInv, NextInv, PTL DEF Spec

\* Every variable keeps its type: RBCR and the bytes on the port never exceed the
\* transmit buffer.
THEOREM TypeCorrect == Spec => []TypeOK
<1>1. IInv => TypeOK
  BY DEF IInv
<1>. QED
  BY <1>1, Invariant, PTL

\* The transmit buffer has one owner: while the card transmits, the driver does not
\* write (start_send_udp waits for PTX).
THEOREM BufferNeverShared == Spec => []BufferOwned
<1>1. IInv => BufferOwned
  BY DEF IInv, TypeOK, BytesOK, BufferClaimed, BufferOwned
<1>. QED
  BY <1>1, Invariant, PTL

\* Every frame the card transmits is the packet a caller announced, all of it.
THEOREM FramesWhole == Spec => []WholeFrames
<1>1. IInv => WholeFrames
  BY DEF IInv
<1>. QED
  BY <1>1, Invariant, PTL

\* A step of Transmit hands a frame over, takes the first one from the queue, or
\* does neither.
LEMMA NextImplements ==
  ASSUME IInv, [Next]_vars
  PROVE  [Out!Next]_(Out!vars)
<1>1. CASE UNCHANGED vars
  BY <1>1 DEF vars, Out!vars
<1>2. CASE \E p \in Packets : StartSend(p)
  <2>1. PICK p \in Packets : StartSend(p)
    BY <1>2
  <2>2. nr + 1 \in 0 .. MaxPackets
    BY <2>1, LengthAssumption DEF StartSend, IInv, TypeOK
  <2>3. Handed(p, nr + 1) \in [id : 0 .. MaxPackets, len : 0 .. TxSize, whole : {TRUE}]
    BY <2>2, HandedIsFrame DEF Frames, Handed
  <2>4. queue' = Append(queue, Handed(p, nr + 1)) /\ UNCHANGED wire
    BY <2>1 DEF StartSend
  <2>. QED
    BY <2>3, <2>4 DEF Out!Next, Out!Accept
<1>3. CASE Driver \/ RemoteRead \/ CardStores
  <2>1. UNCHANGED <<queue, wire>>
    BY <1>3 DEF Driver, WaitPtx, SetUpDma, WriteHeader, WriteBody, WaitRdc, Transmit,
                RemoteRead, CardStores, vars
  <2>. QED
    BY <2>1 DEF Out!vars
<1>4. CASE CardSends
  <2>1. tx # Idle /\ wire' = Append(wire, tx) /\ queue' = Tail(queue)
    BY <1>4 DEF CardSends
  <2>2. queue # << >> /\ Head(queue) = tx
    BY <2>1, QueueWithoutFirst
  <2>. QED
    BY <2>1, <2>2 DEF Out!Next, Out!Take
<1>5. CASE CardFails
  BY <1>5 DEF CardFails, Out!vars
<1>. QED
  BY <1>1, <1>2, <1>3, <1>4, <1>5 DEF Next, Card

\* Sending implements the frame queue, whether transmissions fail or not: packets
\* handed to start_send_udp leave once, whole, in order, and none overtakes a failed one.
THEOREM SendsRefine == Spec => SendsInOrder
<1>1. Init => Out!Init
  BY DEF Init, Out!Init
<1>2. IInv /\ [Next]_vars => [Out!Next]_(Out!vars)
  BY NextImplements
<1>. QED
  BY <1>1, <1>2, Invariant, PTL DEF Spec, SendsInOrder, Out!Spec

\* After a transmission that ended in TXE nothing is sent any more: start_send_udp
\* waits for a PTX that does not come.
THEOREM ErrorBlocks == Spec => TxErrorBlocks
<1>1. IInv /\ [Next]_vars => [Failed => Failed' /\ UNCHANGED wire]_vars
  BY FailedStays
<1>. QED
  BY <1>1, Invariant, PTL DEF Spec, TxErrorBlocks
===============================================================================

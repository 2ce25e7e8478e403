----------------------------- MODULE RxRingProofs -----------------------------
(***************************************************************************)
(* Type correctness, the ring invariant, the refinement and the integrity  *)
(* of the bytes read in RxRing, for every ring, page size, set of frame    *)
(* sizes and set of handlers.                                              *)
(*                                                                         *)
(* The lemmas are about positions: Gap(First, p) is how far page p lies    *)
(* behind BNRY, and a claim "this page is not that page" becomes an        *)
(* inequality between positions.                                           *)
(***************************************************************************)
EXTENDS RxRing, TLAPS

-------------------------------------------------------------------------------
(* Walking around the ring *)

\* Moving forward by less than a ring stays in the ring.
LEMMA AdvInRing ==
  ASSUME NEW p \in Pages, NEW k \in 0 .. RingSize
  PROVE  Adv(p, k) \in Pages
BY RingAssumption DEF Pages, RingSize, Adv

\* The distance between two pages is less than a ring, and leads there.
LEMMA GapInRing ==
  ASSUME NEW p \in Pages, NEW q \in Pages
  PROVE  Gap(p, q) \in 0 .. RingSize - 1 /\ Adv(p, Gap(p, q)) = q
BY RingAssumption DEF Pages, RingSize, Adv, Gap

\* Distances add up until the walk comes around.
LEMMA GapAdv ==
  ASSUME NEW p \in Pages, NEW q \in Pages, NEW k \in Nat,
         Gap(p, q) + k <= RingSize - 1
  PROVE  Adv(q, k) \in Pages /\ Gap(p, Adv(q, k)) = Gap(p, q) + k
BY RingAssumption DEF Pages, RingSize, Adv, Gap

\* Pages at different distances are different, at equal distances equal.
LEMMA GapInjective ==
  ASSUME NEW p \in Pages, NEW q \in Pages, NEW r \in Pages
  PROVE  Gap(p, q) = Gap(p, r) <=> q = r
BY RingAssumption DEF Pages, RingSize, Gap

\* Distances after the origin moved forward to q.
LEMMA GapShift ==
  ASSUME NEW p \in Pages, NEW q \in Pages, NEW r \in Pages,
         Gap(p, q) <= Gap(p, r)
  PROVE  Gap(q, r) = Gap(p, r) - Gap(p, q)
BY RingAssumption DEF Pages, RingSize, Gap

\* BNRY itself is the last page of the walk that starts behind it.
LEMMA BnryIsLast ==
  ASSUME NEW b \in Pages
  PROVE  /\ Adv(b, 1) \in Pages
         /\ Gap(Adv(b, 1), b) = RingSize - 1
         /\ Adv(b, 1) = IF b + 1 >= RxStop THEN RxStart ELSE b + 1
BY RingAssumption DEF Pages, RingSize, Adv, Gap

\* recv_end writes the page before next_pkt, whatever side of the wrap it is on.
LEMMA ReleasedIsBefore ==
  ASSUME next_pkt \in RxStart .. RxStop
  PROVE  /\ Released \in RxStart + 1 .. RxStop
         /\ Released - 1 \in Pages
         /\ next_pkt \in Pages => Adv(Released - 1, 1) = next_pkt
BY RingAssumption DEF Pages, RingSize, Adv, Released

\* Every frame takes at least one page and leaves one free.
LEMMA PagesForFits ==
  ASSUME NEW c \in Counts
  PROVE  PagesFor(c) \in 1 .. RingSize - 1
BY CountAssumption

\* The byte count in a header, written or not, is a number.
LEMMA CountIsNat ==
  ASSUME NEW c \in Counts \cup {0}
  PROVE  c \in Nat
<1>1. CASE c \in Counts
  BY <1>1, CountAssumption
<1>2. CASE c = 0
  BY <1>2
<1>. QED
  BY <1>1, <1>2

-------------------------------------------------------------------------------
(* The invariant is type correctness and the ring invariant together: popping *)
(* the queue needs a frame in it, which RingInv gives, and the positions need *)
(* to be pages, which TypeOK gives.                                           *)
IInv == TypeOK /\ RingInv

\* The queue holds frames.
LEMMA QueueElement ==
  ASSUME TypeOK, NEW i \in 1 .. Len(queue)
  PROVE  queue[i] \in FrameSet
<1>1. queue \in Seq(FrameSet)
  BY DEF TypeOK
<1>. QED
  BY <1>1

\* A frame ends where the next one, or CURR, is.
LEMMA FrameEndInRing ==
  ASSUME TypeOK, NEW i \in 1 .. Len(queue)
  PROVE  FrameEnd(i) \in Pages
<1>1. CASE i = Len(queue)
  BY <1>1 DEF FrameEnd, TypeOK
<1>2. CASE i # Len(queue)
  <2>1. queue \in Seq(FrameSet)
    BY DEF TypeOK
  <2>2. i + 1 \in 1 .. Len(queue)
    BY <1>2, <2>1
  <2>3. queue[i + 1] \in FrameSet
    BY <2>1, <2>2
  <2>. QED
    BY <1>2, <2>3 DEF FrameEnd, FrameSet
<1>. QED
  BY <1>1, <1>2

\* A non-empty queue has a first element.
LEMMA QueueHead ==
  ASSUME TypeOK, queue # << >>
  PROVE  /\ Len(queue) \in Nat /\ 1 \in 1 .. Len(queue)
         /\ queue[1] \in FrameSet
<1>1. queue \in Seq(FrameSet)
  BY DEF TypeOK
<1>. QED
  BY <1>1

LEMMA InitInv == Init => IInv
<1> SUFFICES ASSUME Init PROVE IInv
  OBVIOUS
<1> USE RingAssumption, SizeAssumption
<1>1. TypeOK
  <2>1. mem \in [Pages -> [frame : 0 .. MaxFrames, chunk : Nat]]
    BY DEF Init, Blank
  <2>2. hdr \in [Pages -> [next : Pages, count : Counts \cup {0}]]
    BY DEF Init, Pages
  <2>3. cur \in [id : 0 .. MaxFrames, count : Counts \cup {0}, page : Pages]
    BY DEF Init, NoFrame, Pages
  <2>4. queue \in Seq(FrameSet)
    BY DEF Init
  <2>5. taken \in Seq([id : 0 .. MaxFrames, count : Counts \cup {0}, page : Pages])
    BY DEF Init
  <2>6. bnry \in Pages /\ curr \in Pages /\ next \in Pages /\ next_pkt \in RxStart .. RxStop
    BY DEF Init, Pages
  <2>7. dma \in [addr : Int, cnt : Int]
    BY DEF Init
  <2>8. nrx \in 0 .. MaxFrames
    BY DEF Init
  <2>. QED
    BY <2>1, <2>2, <2>3, <2>4, <2>5, <2>6, <2>7, <2>8 DEF Init, TypeOK
<1>2. ChainOK
  BY DEF Init, ChainOK, First, Adv, RingSize
<1>3. StoredOK
  BY DEF Init, StoredOK, First, Adv, Gap, RingSize
<1>4. CardOK /\ DriverOK
  BY DEF Init, CardOK, DriverOK, Reading
<1>. QED
  BY <1>1, <1>2, <1>3, <1>4 DEF IInv, RingInv

-------------------------------------------------------------------------------
(* Steps of the driver that leave BNRY alone *)

\* The chain and the stored frames depend on nothing the driver changes there.
LEMMA RingUntouched ==
  ASSUME IInv, UNCHANGED <<card, bnry, queue>>
  PROVE  ChainOK' /\ StoredOK' /\ CardOK'
<1> USE DEF IInv, RingInv, card
<1>1. ChainOK'
  BY DEF ChainOK, First, FrameEnd
<1>2. StoredOK'
  BY DEF StoredOK, First
<1>3. CardOK'
  BY DEF CardOK
<1>. QED
  BY <1>1, <1>2, <1>3

\* The variables a handler moves through the frame with.
HandlerTypes ==
  /\ dma \in [addr : Int, cnt : Int]
  /\ rx_pkt_off \in Int /\ rx_off \in Int
  /\ rx_buff_len \in Int /\ rx_buff2_len \in Int
  /\ flip \in BOOLEAN /\ intact \in BOOLEAN
  /\ len \in Int /\ off \in Int
  /\ want \in Int /\ placed \in Int /\ rd \in Int

\* They are part of the types.
LEMMA HandlerTypesHold == IInv => HandlerTypes
BY DEF IInv, TypeOK, HandlerTypes

\* Where the driver can be (pc in TypeOK).
Stages == {"idle", "header", "eth", "ip", "udp", "rest", "end", "again"}

\* A driver step that touches neither the card nor the history keeps the types if
\* its own variables keep theirs.
LEMMA TypesKept ==
  ASSUME IInv, UNCHANGED <<card, bnry, history>>, HandlerTypes',
         pc' \in Stages, rst' \in BOOLEAN, next' \in Pages,
         cur' \in [id : 0 .. MaxFrames, count : Counts \cup {0}, page : Pages],
         next_pkt' \in RxStart .. RxStop
  PROVE  TypeOK'
<1>1. /\ bnry' \in Pages /\ curr' \in Pages /\ prx' \in BOOLEAN
      /\ mem' \in [Pages -> [frame : 0 .. MaxFrames, chunk : Nat]]
      /\ hdr' \in [Pages -> [next : Pages, count : Counts \cup {0}]]
      /\ rxcount' \in Counts \cup {0} /\ rxpages' \in Nat /\ nrx' \in 0 .. MaxFrames
  BY DEF IInv, TypeOK, card
<1>2. /\ queue' \in Seq(FrameSet)
      /\ taken' \in Seq([id : 0 .. MaxFrames, count : Counts \cup {0}, page : Pages])
  BY DEF IInv, TypeOK, history
<1>. QED
  BY <1>1, <1>2 DEF TypeOK, HandlerTypes, Stages

\* The address of the first byte behind a page's header is an integer.
LEMMA PageAddress ==
  ASSUME NEW p \in Pages
  PROVE  p * PageSize + HdrSize \in Int
<1>1. p \in Int /\ PageSize \in Int /\ HdrSize \in Int
  BY RingAssumption, SizeAssumption DEF Pages
<1>2. p * PageSize \in Int
  BY <1>1
<1>. QED
  BY <1>1, <1>2

LEMMA PollInv == IInv /\ StartRecvPoll => IInv'
<1> SUFFICES ASSUME IInv, StartRecvPoll PROVE IInv'
  OBVIOUS
<1> USE DEF IInv, RingInv, StartRecvPoll
<1>1. ChainOK' /\ StoredOK' /\ CardOK'
  BY RingUntouched DEF history
<1>2. next' = First /\ next' \in Pages
  BY BnryIsLast DEF NextPage, First, TypeOK
<1>3. curr # First
  BY <1>2, RingAssumption DEF CurrPage, TypeOK, Pages
<1>4. TypeOK'
  BY <1>2 DEF TypeOK, card, handling, window, copy, history
<1>5. DriverOK'
  BY <1>2, <1>3 DEF DriverOK, ChainOK, Reading, card, handling, window, copy, history
<1>. QED
  BY <1>1, <1>4, <1>5

LEMMA RejectInv == IInv /\ StartRecvReject => IInv'
<1> SUFFICES ASSUME IInv, StartRecvReject PROVE IInv'
  OBVIOUS
<1>1. ChainOK' /\ StoredOK' /\ CardOK'
  BY RingUntouched DEF StartRecvReject, history
<1>2. TypeOK'
  <2>1. /\ next \in Pages /\ hdr[next].next \in Pages /\ rst \in BOOLEAN
        /\ cur \in [id : 0 .. MaxFrames, count : Counts \cup {0}, page : Pages]
    BY DEF IInv, TypeOK
  <2>2. /\ UNCHANGED <<card, bnry, rst, next, cur, handling, history>>
        /\ next_pkt' = hdr[next].next /\ pc' = "idle"
        /\ dma' = [addr |-> next * PageSize + HdrSize, cnt |-> 0]
    BY DEF StartRecvReject
  <2>3. next_pkt' \in RxStart .. RxStop
    BY <2>1, <2>2, RingAssumption DEF Pages
  <2>4. dma' \in [addr : Int, cnt : Int]
    BY <2>1, <2>2, PageAddress
  <2>5. HandlerTypes'
    BY <2>2, <2>4, HandlerTypesHold DEF HandlerTypes, handling, window, copy
  <2>. QED
    BY <2>1, <2>2, <2>3, <2>5, TypesKept DEF Stages
<1>3. DriverOK'
  BY DEF IInv, RingInv, StartRecvReject, DriverOK, Reading, card, history
<1>. QED
  BY <1>1, <1>2, <1>3 DEF IInv, RingInv

\* read_prepare leaves integers in the window and in the DMA registers.
LEMMA PreparedTypes ==
  ASSUME NEW roff \in Int, NEW rlen \in Int, NEW pkt \in Int,
         ReadPrepare(roff, rlen, pkt), rx_buff2_len' \in Int
  PROVE  /\ rx_off' \in Int /\ rx_pkt_off' \in Int /\ rx_buff_len' \in Int
         /\ dma' \in [addr : Int, cnt : Int]
<1>1. RxStart * PageSize \in Int
  BY RingAssumption, SizeAssumption
<1>2. rx_off' \in Int /\ rx_pkt_off' \in Int /\ rx_buff_len' \in Int
  BY <1>1 DEF ReadPrepare
<1>3. dma' = [addr |-> rx_pkt_off', cnt |-> rx_buff_len' + (rx_buff_len' % 2)]
  BY DEF ReadPrepare
<1>. QED
  BY <1>2, <1>3

LEMMA HeaderInv == IInv /\ StartRecvHeader => IInv'
<1> SUFFICES ASSUME IInv, StartRecvHeader PROVE IInv'
  OBVIOUS
<1> USE DEF IInv, RingInv
<1>1. ChainOK' /\ StoredOK' /\ CardOK'
  BY RingUntouched DEF StartRecvHeader, history
<1>2. queue # << >> /\ next = queue[1].page /\ prx
  BY DEF DriverOK, StartRecvHeader
<1>3. 1 \in 1 .. Len(queue) /\ queue[1] \in FrameSet
  BY <1>2, QueueHead
<1>4. /\ hdr[next] = [next |-> FrameEnd(1), count |-> queue[1].count]
      /\ mem[Adv(next, 0)] = [frame |-> queue[1].id, chunk |-> 0]
  <2>1. 0 \in 0 .. PagesFor(queue[1].count) - 1
    <3>1. PagesFor(queue[1].count) \in 1 .. RingSize - 1
      BY <1>3, PagesForFits DEF FrameSet
    <3>. QED
      BY <3>1, RingAssumption DEF RingSize
  <2>. QED
    BY <1>2, <1>3, <2>1 DEF ChainOK, StoredOK
<1>5. Adv(next, 0) = next
  BY RingAssumption DEF Adv, TypeOK, Pages
<1>6. cur' = queue[1] /\ next_pkt' = FrameEnd(1) /\ queue' = queue
  BY <1>2, <1>3, <1>4, <1>5 DEF StartRecvHeader, FrameSet, history
<1>7. FrameEnd(1) \in Pages /\ FrameEnd(1)' = FrameEnd(1)
  <2>1. FrameEnd(1)' = FrameEnd(1)
    BY DEF StartRecvHeader, FrameEnd, card, history
  <2>. QED
    BY <1>3, <2>1, FrameEndInRing
<1>8. DriverOK'
  BY <1>2, <1>6, <1>7 DEF StartRecvHeader, DriverOK, Reading, card
<1>9. TypeOK'
  <2>1. /\ rx_buff2_len' \in Int /\ rx_off' \in Int
        /\ rx_pkt_off' \in Int /\ rx_buff_len' \in Int
        /\ dma' \in [addr : Int, cnt : Int]
    <3> DEFINE pkt == next * PageSize + HdrSize
               data == hdr[next].count - CrcSize
    <3>1. pkt \in Int
      BY PageAddress DEF TypeOK
    <3>2. data \in Int
      <4>1. hdr[next] \in [next : Pages, count : Counts \cup {0}]
        BY DEF TypeOK
      <4>2. hdr[next].count \in Int
        <5>1. hdr[next].count \in Counts \cup {0}
          BY <4>1
        <5>. QED
          BY <5>1, CountIsNat
      <4>. QED
        BY <4>2, SizeAssumption
    <3>3. Frag(pkt) \in Int
      <4>1. RxStop * PageSize \in Int
        BY RingAssumption, SizeAssumption
      <4>. QED
        BY <3>1, <4>1 DEF Frag
    <3>4. RxStart * PageSize \in Int
      BY RingAssumption, SizeAssumption
    <3>5. rx_buff2_len' \in Int
      BY <3>2, <3>3 DEF StartRecvHeader, TypeOK
    <3>6. \E rlen \in Int : ReadPrepare(0, rlen, pkt)
      BY <3>2, <3>3 DEF StartRecvHeader
    <3>. HIDE DEF pkt, data
    <3>. QED
      BY <3>1, <3>4, <3>5, <3>6, PreparedTypes
  <2>2. cur' \in [id : 0 .. MaxFrames, count : Counts \cup {0}, page : Pages]
    BY <1>3, <1>6, SizeAssumption DEF FrameSet
  <2>3. next_pkt' \in RxStart .. RxStop
    BY <1>6, <1>7, RingAssumption DEF Pages
  <2>4. /\ UNCHANGED <<card, bnry, rst, next, copy, intact, history>>
        /\ rd' = 0 /\ pc' = "eth"
    BY DEF StartRecvHeader
  <2>. QED
    <3>1. /\ bnry' \in Pages /\ curr' \in Pages /\ prx' \in BOOLEAN /\ rst' \in BOOLEAN
          /\ mem' \in [Pages -> [frame : 0 .. MaxFrames, chunk : Nat]]
          /\ hdr' \in [Pages -> [next : Pages, count : Counts \cup {0}]]
          /\ rxcount' \in Counts \cup {0} /\ rxpages' \in Nat
          /\ nrx' \in 0 .. MaxFrames
      BY <2>4 DEF TypeOK, card
    <3>2. /\ pc' \in {"idle", "header", "eth", "ip", "udp", "rest", "end", "again"}
          /\ next' \in Pages
          /\ flip' \in BOOLEAN /\ intact' \in BOOLEAN
          /\ len' \in Int /\ off' \in Int
          /\ want' \in Int /\ placed' \in Int /\ rd' \in Int
      BY <2>4 DEF TypeOK, copy
    <3>3. /\ queue' \in Seq(FrameSet)
          /\ taken' \in Seq([id : 0 .. MaxFrames, count : Counts \cup {0}, page : Pages])
      BY <2>4 DEF TypeOK, history
    <3>. QED
      BY <2>1, <2>2, <2>3, <3>1, <3>2, <3>3 DEF TypeOK
<1>. QED
  BY <1>1, <1>8, <1>9

\* The handlers move only through the frame: whatever they do to the window and
\* to their own variables, the frame under them stays the first of the ring.
LEMMA HandlerInv ==
  ASSUME IInv, Reading, pc' \in {"ip", "udp", "rest", "end"}, HandlerTypes',
         UNCHANGED <<card, bnry, rst, next, cur, next_pkt, history>>
  PROVE  IInv'
<1> USE DEF IInv, RingInv
<1>1. ChainOK' /\ StoredOK' /\ CardOK'
  BY RingUntouched DEF history
<1>2. FrameEnd(1)' = FrameEnd(1)
  BY DEF FrameEnd, card, history
<1>3. DriverOK'
  BY <1>2 DEF DriverOK, Reading, card, history
<1>4. TypeOK'
  <2>1. /\ pc' \in Stages /\ rst' \in BOOLEAN /\ next' \in Pages
        /\ cur' \in [id : 0 .. MaxFrames, count : Counts \cup {0}, page : Pages]
        /\ next_pkt' \in RxStart .. RxStop
    BY DEF TypeOK, Stages
  <2>. QED
    BY <2>1, TypesKept
<1>. QED
  BY <1>1, <1>3, <1>4

LEMMA ProcessEthInv == IInv /\ ProcessEth => IInv'
<1> SUFFICES ASSUME IInv, ProcessEth PROVE IInv'
  OBVIOUS
<1>1. HandlerTypes
  BY HandlerTypesHold
<1>2. /\ pc \in {"eth", "ip"} /\ pc' = "ip"
      /\ rd' = rd + EthLen /\ intact' \in BOOLEAN
      /\ dma' = [addr |-> dma.addr + EthLen, cnt |-> dma.cnt - EthLen]
      /\ rx_off' = rx_off + EthLen
      /\ UNCHANGED <<rx_pkt_off, rx_buff_len, rx_buff2_len, copy>>
      /\ UNCHANGED <<card, bnry, rst, next, cur, next_pkt, history>>
  BY DEF ProcessEth, ReadPort
<1>3. HandlerTypes'
  BY <1>1, <1>2 DEF HandlerTypes, EthLen, copy
<1>. QED
  BY <1>2, <1>3, HandlerInv DEF Reading

LEMMA DecodeInv == IInv /\ DecodeIpUdp => IInv'
<1> SUFFICES ASSUME IInv, DecodeIpUdp PROVE IInv'
  OBVIOUS
<1>1. HandlerTypes
  BY HandlerTypesHold
<1>2. /\ pc \in {"eth", "ip"} /\ pc' = "udp"
      /\ rd' = rd + IpUdpLen /\ intact' \in BOOLEAN
      /\ dma' = [addr |-> dma.addr + IpUdpLen, cnt |-> dma.cnt - IpUdpLen]
      /\ rx_off' = rx_off + IpUdpLen
      /\ UNCHANGED <<rx_pkt_off, rx_buff_len, rx_buff2_len, copy>>
      /\ UNCHANGED <<card, bnry, rst, next, cur, next_pkt, history>>
  BY DEF DecodeIpUdp, ReadPort
<1>3. HandlerTypes'
  BY <1>1, <1>2 DEF HandlerTypes, IpUdpLen, copy
<1>. QED
  BY <1>2, <1>3, HandlerInv DEF Reading

LEMMA PasteInv == IInv /\ Paste => IInv'
<1> SUFFICES ASSUME IInv, Paste PROVE IInv'
  OBVIOUS
<1>0. HandlerTypes
  BY HandlerTypesHold
<1>1. PICK k \in Commands, pad \in Paddings, flipped \in Flips :
        PasteHead(k, cur.count - CrcSize - rd - k - pad, flipped)
  BY DEF Paste
<1> DEFINE l == cur.count - CrcSize - rd - k - pad
           roff == rx_off + k
           head == rx_buff_len - roff
           n == InswCount(IF l > head THEN head ELSE l, flipped)
<1>2. k \in Int /\ l \in Int /\ flipped \in BOOLEAN
  <2>1. cur.count \in Int
    BY CountIsNat DEF IInv, TypeOK
  <2>2. k \in Int /\ pad \in Int /\ flipped \in BOOLEAN /\ CrcSize \in Int
    BY SizeAssumption
  <2>3. rd \in Int
    BY <1>0 DEF HandlerTypes
  <2>. QED
    BY <2>1, <2>2, <2>3
<1>3. roff \in Int /\ head \in Int /\ n \in Int
  BY <1>0, <1>2 DEF InswCount, HandlerTypes
<1>4. /\ flip' = flipped /\ want' = l /\ placed' = n /\ rd' = rd + (k + n)
      /\ intact' \in BOOLEAN /\ pc' \in {"rest", "end"}
  BY <1>1 DEF PasteHead, ReadPort
<1>5. len' \in Int /\ off' \in Int
  BY <1>1, <1>2, <1>3 DEF PasteHead
<1>6. /\ rx_off' \in Int /\ rx_pkt_off' \in Int
      /\ rx_buff_len' \in Int /\ rx_buff2_len' \in Int
      /\ dma' \in [addr : Int, cnt : Int]
  <2>1. CASE l > head
    <3>1. /\ rx_buff2_len' = rx_buff2_len
          /\ ReadPrepare(roff + head, rx_buff_len, rx_pkt_off)
      BY <1>1, <2>1 DEF PasteHead
    <3>2. /\ roff + head \in Int
          /\ rx_buff_len \in Int /\ rx_pkt_off \in Int /\ rx_buff2_len \in Int
      BY <1>0, <1>3 DEF HandlerTypes
    <3>. HIDE DEF roff, head
    <3>. QED
      BY <3>1, <3>2, PreparedTypes
  <2>2. CASE ~(l > head)
    <3>1. /\ rx_off' = roff
          /\ dma' = [addr |-> dma.addr + k + n, cnt |-> dma.cnt - k - n]
          /\ UNCHANGED <<rx_pkt_off, rx_buff_len, rx_buff2_len>>
      BY <1>1, <2>2 DEF PasteHead
    <3>2. /\ dma.addr \in Int /\ dma.cnt \in Int
          /\ rx_pkt_off \in Int /\ rx_buff_len \in Int /\ rx_buff2_len \in Int
      BY <1>0 DEF HandlerTypes
    <3>. HIDE DEF n, roff, l
    <3>3. dma.addr + k + n \in Int /\ dma.cnt - k - n \in Int
      BY <3>2, <1>2, <1>3
    <3>. QED
      BY <3>1, <3>2, <3>3, <1>3
  <2>. QED
    BY <2>1, <2>2
<1>7. HandlerTypes'
  <2>1. rd' \in Int
    BY <1>0, <1>2, <1>3, <1>4 DEF HandlerTypes
  <2>2. /\ flip' \in BOOLEAN /\ want' \in Int /\ placed' \in Int
    BY <1>2, <1>3, <1>4
  <2>. QED
    BY <1>4, <1>5, <1>6, <2>1, <2>2 DEF HandlerTypes
<1>8. pc = "udp" /\ UNCHANGED <<card, bnry, rst, next, cur, next_pkt, history>>
  BY DEF Paste
<1>. QED
  BY <1>4, <1>7, <1>8, HandlerInv DEF Reading

LEMMA PasteRestInv == IInv /\ PasteRest => IInv'
<1> SUFFICES ASSUME IInv, PasteRest PROVE IInv'
  OBVIOUS
<1>1. HandlerTypes
  BY HandlerTypesHold
<1> DEFINE n == InswCount(len, flip)
<1>2. /\ pc = "rest" /\ pc' = "end" /\ rd' = rd + n /\ intact' \in BOOLEAN
      /\ dma' = [addr |-> dma.addr + n, cnt |-> dma.cnt - n]
      /\ placed' = IF placed = off THEN placed + n ELSE placed
      /\ UNCHANGED <<window, flip, len, off, want>>
      /\ UNCHANGED <<card, bnry, rst, next, cur, next_pkt, history>>
  BY DEF PasteRest, ReadPort
<1>3. n \in Int
  BY <1>1 DEF HandlerTypes, InswCount
<1>. HIDE DEF n
<1>4. HandlerTypes'
  BY <1>1, <1>2, <1>3 DEF HandlerTypes, window
<1>. QED
  BY <1>2, <1>4, HandlerInv DEF Reading

-------------------------------------------------------------------------------
(* Positions of the stored frames *)

\* A frame of the queue lies between First and CURR.
LEMMA FramePosition ==
  ASSUME IInv, NEW i \in 1 .. Len(queue)
  PROVE  /\ First \in Pages /\ curr \in Pages
         /\ queue[i] \in FrameSet
         /\ queue[i].page \in Pages /\ FrameEnd(i) \in Pages
         /\ PagesFor(queue[i].count) \in 1 .. RingSize - 1
         /\ Gap(First, queue[i].page) \in 0 .. RingSize - 1
         /\ Gap(First, curr) \in 0 .. RingSize - 1
         /\ Gap(First, FrameEnd(i)) \in 0 .. RingSize - 1
         /\ Gap(First, queue[i].page) + PagesFor(queue[i].count)
              = Gap(First, FrameEnd(i))
         /\ Gap(First, FrameEnd(i)) <= Gap(First, curr)
<1>1. queue[i] \in FrameSet
  BY QueueElement DEF IInv
<1>2. First \in Pages /\ curr \in Pages
  BY BnryIsLast DEF First, IInv, TypeOK
<1>3. queue[i].page \in Pages /\ queue[i].count \in Counts
  BY <1>1 DEF FrameSet
<1>4. FrameEnd(i) \in Pages
  BY FrameEndInRing DEF IInv
<1>5. PagesFor(queue[i].count) \in 1 .. RingSize - 1
  BY <1>3, PagesForFits
<1>6. /\ Gap(First, queue[i].page) + PagesFor(queue[i].count)
           = Gap(First, FrameEnd(i))
      /\ Gap(First, FrameEnd(i)) <= Gap(First, curr)
  BY DEF IInv, RingInv, ChainOK
<1>. QED
  BY <1>1, <1>2, <1>3, <1>4, <1>5, <1>6, GapInRing

\* So does each of its pages.
LEMMA PagePosition ==
  ASSUME IInv, NEW i \in 1 .. Len(queue),
         NEW j \in 0 .. PagesFor(queue[i].count) - 1
  PROVE  /\ Adv(queue[i].page, j) \in Pages
         /\ Gap(First, Adv(queue[i].page, j)) = Gap(First, queue[i].page) + j
         /\ Gap(First, Adv(queue[i].page, j)) < Gap(First, curr)
<1> DEFINE p == queue[i].page
           k == PagesFor(queue[i].count)
           g == Gap(First, p)
           c == Gap(First, curr)
           N == RingSize
<1>1. /\ First \in Pages /\ p \in Pages
      /\ k \in 1 .. N - 1 /\ g \in 0 .. N - 1 /\ c \in 0 .. N - 1
      /\ g + k <= c
  BY FramePosition
<1>2. N \in Nat
  BY RingAssumption DEF RingSize
<1>3. j \in Nat /\ g + j <= N - 1 /\ g + j < c
  <2>. HIDE DEF p, k, g, c, N
  <2>1. j \in 0 .. k - 1
    BY DEF k
  <2>. QED
    BY <1>1, <1>2, <2>1
<1>4. Adv(p, j) \in Pages /\ Gap(First, Adv(p, j)) = g + j
  BY <1>1, <1>3, GapAdv
<1>. QED
  BY <1>3, <1>4

\* The pages of the frame being stored lie at CURR and behind it, and the next
\* one to be written is free or is BNRY.
LEMMA StoringPosition ==
  ASSUME IInv, NEW j \in 0 .. rxpages
  PROVE  /\ First \in Pages /\ curr \in Pages
         /\ Gap(First, curr) \in 0 .. RingSize - 1
         /\ Gap(First, curr) + j <= RingSize - 1
         /\ Adv(curr, j) \in Pages
         /\ Gap(First, Adv(curr, j)) = Gap(First, curr) + j
<1>1. First \in Pages /\ curr \in Pages /\ rxpages \in Nat
  BY BnryIsLast DEF First, IInv, TypeOK
<1>2. Gap(First, curr) \in 0 .. RingSize - 1
  BY <1>1, GapInRing
<1>3. Gap(First, curr) + rxpages <= RingSize - 1
  BY DEF IInv, RingInv, StoredOK
<1>4. RingSize \in Nat
  BY RingAssumption DEF RingSize
<1>5. j \in Nat /\ Gap(First, curr) + j <= RingSize - 1
  BY <1>1, <1>2, <1>3, <1>4
<1>. QED
  BY <1>1, <1>2, <1>5, GapAdv

-------------------------------------------------------------------------------
(* Steps of the card *)

\* Starting a frame and giving it up move no page.
LEMMA StoredReset ==
  ASSUME IInv, rxpages' = 0, UNCHANGED <<bnry, curr, mem, queue>>
  PROVE  StoredOK'
<1>1. First \in Pages /\ curr \in Pages
  BY BnryIsLast DEF First, IInv, TypeOK
<1>2. Gap(First, curr) \in 0 .. RingSize - 1 /\ RingSize \in Nat
  BY <1>1, GapInRing, RingAssumption DEF RingSize
<1>3. (Gap(First, curr))' = Gap(First, curr) /\ First' = First
  BY DEF First
<1>4. Gap(First, curr)' + rxpages' <= RingSize - 1
  BY <1>2, <1>3
<1>. QED
  BY <1>3, <1>4 DEF StoredOK, IInv, RingInv

LEMMA BeginInv ==
  ASSUME IInv, NEW c \in Counts, NicBegin(c)
  PROVE  IInv'
<1> USE DEF IInv, RingInv, NicBegin
<1>1. TypeOK'
  BY DEF TypeOK, driver, handling, window, copy, history
<1>2. ChainOK'
  BY DEF ChainOK, First, FrameEnd, driver, history
<1>3. StoredOK'
  BY StoredReset DEF driver, history
<1>4. CardOK'
  BY CountAssumption DEF CardOK
<1>5. DriverOK'
  BY DEF DriverOK, Reading, FrameEnd, Released, driver, history
<1>. QED
  BY <1>1, <1>2, <1>3, <1>4, <1>5

LEMMA OverrunInv == IInv /\ NicOverrun => IInv'
<1> SUFFICES ASSUME IInv, NicOverrun PROVE IInv'
  OBVIOUS
<1> USE DEF IInv, RingInv, NicOverrun
<1>1. TypeOK'
  BY DEF TypeOK, handling, window, copy, history
<1>2. ChainOK'
  BY DEF ChainOK, First, FrameEnd, history
<1>3. StoredOK'
  BY StoredReset DEF history
<1>4. CardOK'
  BY DEF CardOK
<1>5. DriverOK'
  BY DEF DriverOK, Reading, FrameEnd, Released, history
<1>. QED
  BY <1>1, <1>2, <1>3, <1>4, <1>5

\* A page is stored only where no unreleased frame is: its position is past all
\* of them and short of BNRY's, the last position of the ring.
LEMMA StorePageInv == IInv /\ NicStorePage => IInv'
<1> SUFFICES ASSUME IInv, NicStorePage PROVE IInv'
  OBVIOUS
<1> DEFINE w == Adv(curr, rxpages)
<1>1. /\ rxcount # 0 /\ w # bnry
      /\ mem' = [mem EXCEPT ![w] = [frame |-> nrx + 1, chunk |-> rxpages]]
      /\ rxpages' = rxpages + 1
      /\ UNCHANGED <<curr, prx, hdr, rxcount, nrx, driver, history>>
  BY DEF NicStorePage
<1>2. rxpages \in Nat /\ rxpages \in 0 .. rxpages
  BY DEF IInv, TypeOK
<1>3. /\ First \in Pages /\ curr \in Pages /\ w \in Pages
      /\ Gap(First, curr) \in 0 .. RingSize - 1
      /\ Gap(First, w) = Gap(First, curr) + rxpages
      /\ Gap(First, w) <= RingSize - 1
  BY <1>2, StoringPosition
<1>4. Gap(First, curr) + (rxpages + 1) <= RingSize - 1
  <2>1. bnry \in Pages /\ Gap(First, bnry) = RingSize - 1
    BY BnryIsLast DEF First, IInv, TypeOK
  <2>2. Gap(First, w) # RingSize - 1
    BY <1>1, <1>3, <2>1, GapInjective
  <2>3. RingSize \in Nat
    BY RingAssumption DEF RingSize
  <2>. QED
    BY <1>2, <1>3, <2>2, <2>3
<1>. HIDE DEF w
<1>5. First' = First /\ (Gap(First, curr))' = Gap(First, curr) /\ queue' = queue
  BY <1>1 DEF First, driver, history
<1>6. nrx + 1 \in 0 .. MaxFrames
  BY <1>1, SizeAssumption DEF IInv, RingInv, CardOK, TypeOK
<1>7. mem \in [Pages -> [frame : 0 .. MaxFrames, chunk : Nat]]
  BY DEF IInv, TypeOK
<1>8. TypeOK'
  <2>1. mem' \in [Pages -> [frame : 0 .. MaxFrames, chunk : Nat]]
    BY <1>1, <1>2, <1>3, <1>6, <1>7
  <2>2. rxpages' \in Nat /\ UNCHANGED <<curr, prx, hdr, rxcount, nrx, driver, history>>
    BY <1>1, <1>2
  <2>. QED
    BY <2>1, <2>2 DEF IInv, TypeOK, driver, handling, window, copy, history
<1>9. ChainOK'
  BY <1>1 DEF IInv, RingInv, ChainOK, First, FrameEnd, driver, history
<1>10. StoredOK'
  <2>1. ASSUME NEW i \in 1 .. Len(queue), NEW j \in 0 .. PagesFor(queue[i].count) - 1
        PROVE  mem'[Adv(queue[i].page, j)] = [frame |-> queue[i].id, chunk |-> j]
    <3>1. /\ Adv(queue[i].page, j) \in Pages
          /\ Gap(First, Adv(queue[i].page, j)) < Gap(First, curr)
      BY PagePosition
    <3>2. Gap(First, Adv(queue[i].page, j)) \in Int
      BY <1>3, <3>1, GapInRing
    <3>3. Adv(queue[i].page, j) # w
      BY <1>2, <1>3, <3>1, <3>2
    <3>4. mem[Adv(queue[i].page, j)] = [frame |-> queue[i].id, chunk |-> j]
      BY DEF IInv, RingInv, StoredOK
    <3>. QED
      BY <1>1, <1>7, <3>1, <3>3, <3>4
  <2>2. ASSUME NEW j \in 0 .. rxpages
        PROVE  mem'[Adv(curr, j)] = [frame |-> nrx + 1, chunk |-> j]
    <3>1. /\ Adv(curr, j) \in Pages
          /\ Gap(First, Adv(curr, j)) = Gap(First, curr) + j
      BY StoringPosition
    <3>2. CASE j = rxpages
      BY <1>1, <1>3, <1>7, <3>2 DEF w
    <3>3. CASE j # rxpages
      <4>1. j \in 0 .. rxpages - 1
        BY <1>2, <3>3
      <4>2. Adv(curr, j) # w
        BY <1>2, <1>3, <3>1, <3>3
      <4>3. mem[Adv(curr, j)] = [frame |-> nrx + 1, chunk |-> j]
        BY <4>1 DEF IInv, RingInv, StoredOK
      <4>. QED
        BY <1>1, <1>7, <3>1, <4>2, <4>3
    <3>. QED
      BY <3>2, <3>3
  <2>3. 0 .. rxpages' - 1 = 0 .. rxpages
    BY <1>1, <1>2
  <2>4. Gap(First, curr)' + rxpages' <= RingSize - 1
    BY <1>1, <1>4, <1>5
  <2>5. curr' = curr /\ nrx' = nrx
    BY <1>1
  <2>. QED
    BY <1>5, <2>1, <2>2, <2>3, <2>4, <2>5 DEF StoredOK
<1>11. CardOK' /\ DriverOK'
  BY <1>1 DEF IInv, RingInv, CardOK, DriverOK, Reading, FrameEnd, Released,
              driver, history
<1>. QED
  BY <1>8, <1>9, <1>10, <1>11 DEF IInv, RingInv

\* The stored frame becomes the last of the chain: its header is written to a page
\* no other frame starts at.
LEMMA CommitInv == IInv /\ NicCommit => IInv'
<1> SUFFICES ASSUME IInv, NicCommit PROVE IInv'
  OBVIOUS
<1>0. PICK n \in Nat : n = Len(queue)
  BY DEF IInv, TypeOK
<1> DEFINE e == [id |-> nrx + 1, count |-> rxcount, page |-> curr]
           end == Adv(curr, rxpages)
<1>1. /\ rxcount # 0 /\ rxpages = PagesFor(rxcount)
      /\ hdr' = [hdr EXCEPT ![curr] = [next |-> end, count |-> rxcount]]
      /\ curr' = end /\ prx' = TRUE /\ nrx' = nrx + 1
      /\ queue' = Append(queue, e)
      /\ rxcount' = 0 /\ rxpages' = 0
      /\ UNCHANGED <<mem, driver, taken>>
  BY DEF NicCommit
<1>2. /\ rxcount \in Counts /\ rxpages \in 1 .. RingSize - 1
      /\ rxpages \in Nat /\ rxpages \in 0 .. rxpages
  BY <1>1, PagesForFits DEF IInv, TypeOK
<1>3. /\ First \in Pages /\ curr \in Pages /\ end \in Pages
      /\ Gap(First, curr) \in 0 .. RingSize - 1
      /\ Gap(First, end) = Gap(First, curr) + rxpages
      /\ Gap(First, end) \in 0 .. RingSize - 1
  BY <1>2, StoringPosition, GapInRing
<1>4. nrx \in Nat /\ nrx + 1 \in 1 .. MaxFrames
  BY <1>1, SizeAssumption DEF IInv, RingInv, CardOK, TypeOK
<1>5. e \in FrameSet /\ queue \in Seq(FrameSet) /\ n \in Nat /\ n = Len(queue)
  BY <1>0, <1>2, <1>3, <1>4 DEF FrameSet, IInv, TypeOK
<1>6. /\ queue' \in Seq(FrameSet) /\ Len(queue') = n + 1
      /\ queue'[n + 1] = e
      /\ \A i \in 1 .. n : queue'[i] = queue[i]
      /\ queue' # << >>
  BY <1>1, <1>5
<1>. HIDE DEF e, end
<1>7. First' = First
  BY <1>1 DEF First, driver
<1>8. /\ FrameEnd(n + 1)' = end
      /\ \A i \in 1 .. n : FrameEnd(i)' = FrameEnd(i)
  <2>1. FrameEnd(n + 1)' = end
    BY <1>1, <1>6 DEF FrameEnd
  <2>2. ASSUME NEW i \in 1 .. n PROVE FrameEnd(i)' = FrameEnd(i)
    <3>1. i # n + 1 /\ FrameEnd(i)' = queue'[i + 1].page
      BY <1>5, <1>6 DEF FrameEnd
    <3>2. CASE i = n
      BY <1>5, <1>6, <3>1, <3>2 DEF FrameEnd, e
    <3>3. CASE i # n
      <4>1. i + 1 \in 1 .. n
        BY <1>5, <3>3
      <4>. QED
        BY <1>5, <1>6, <3>1, <3>3, <4>1 DEF FrameEnd
    <3>. QED
      BY <3>2, <3>3
  <2>. QED
    BY <2>1, <2>2
<1>9. TypeOK'
  <2>1. hdr' \in [Pages -> [next : Pages, count : Counts \cup {0}]]
    BY <1>1, <1>2, <1>3 DEF IInv, TypeOK
  <2>2. nrx' \in 0 .. MaxFrames /\ curr' \in Pages
    BY <1>1, <1>3, <1>4
  <2>. QED
    BY <1>1, <1>6, <2>1, <2>2
       DEF IInv, TypeOK, driver, handling, window, copy
<1>10. ChainOK'
  <2>1. queue'[1].page = First'
    <3>1. CASE queue = << >>
      BY <1>5, <1>6, <1>7, <3>1 DEF e, IInv, RingInv, ChainOK
    <3>2. CASE queue # << >>
      BY <1>5, <1>6, <1>7, <3>2, QueueHead DEF IInv, RingInv, ChainOK
    <3>. QED
      BY <3>1, <3>2
  <2>2. ASSUME NEW i \in 1 .. n
        PROVE  /\ Gap(First, queue'[i].page) + PagesFor(queue'[i].count)
                    = Gap(First, FrameEnd(i)')
               /\ Gap(First, FrameEnd(i)') <= Gap(First, end)
               /\ hdr'[queue'[i].page]
                    = [next |-> FrameEnd(i)', count |-> queue'[i].count]
               /\ \A k \in i + 1 .. n + 1 :
                    Gap(First, FrameEnd(i)') <= Gap(First, queue'[k].page)
    <3>1. queue'[i] = queue[i] /\ FrameEnd(i)' = FrameEnd(i)
      BY <1>6, <1>8
    <3>2. /\ queue[i].page \in Pages
          /\ PagesFor(queue[i].count) \in 1 .. RingSize - 1
          /\ Gap(First, queue[i].page) \in 0 .. RingSize - 1
          /\ Gap(First, FrameEnd(i)) \in 0 .. RingSize - 1
          /\ Gap(First, queue[i].page) + PagesFor(queue[i].count)
               = Gap(First, FrameEnd(i))
          /\ Gap(First, FrameEnd(i)) <= Gap(First, curr)
      BY <1>5, FramePosition
    <3>3. queue[i].page # curr
      BY <3>2
    <3>4. hdr'[queue[i].page] = hdr[queue[i].page]
      BY <1>1, <1>3, <3>2, <3>3 DEF IInv, TypeOK
    <3>5. hdr[queue[i].page] = [next |-> FrameEnd(i), count |-> queue[i].count]
      BY <1>5 DEF IInv, RingInv, ChainOK
    <3>6. Gap(First, FrameEnd(i)) <= Gap(First, end)
      BY <1>2, <1>3, <3>2
    <3>7. ASSUME NEW k \in i + 1 .. n + 1
          PROVE  Gap(First, FrameEnd(i)) <= Gap(First, queue'[k].page)
      <4>1. CASE k = n + 1
        BY <1>6, <3>2, <4>1 DEF e
      <4>2. CASE k # n + 1
        <5>1. k \in i + 1 .. n /\ k \in 1 .. n
          BY <1>5, <4>2
        <5>. QED
          BY <1>5, <1>6, <5>1 DEF IInv, RingInv, ChainOK
      <4>. QED
        BY <4>1, <4>2
    <3>. QED
      BY <3>1, <3>2, <3>4, <3>5, <3>6, <3>7
  <2>3. /\ Gap(First, queue'[n + 1].page) + PagesFor(queue'[n + 1].count)
             = Gap(First, end)
        /\ hdr'[queue'[n + 1].page] = [next |-> end, count |-> queue'[n + 1].count]
    <3>1. queue'[n + 1].page = curr /\ queue'[n + 1].count = rxcount
      BY <1>6 DEF e
    <3>2. hdr'[curr] = [next |-> end, count |-> rxcount]
      BY <1>1, <1>3 DEF IInv, TypeOK
    <3>. QED
      BY <1>1, <1>3, <3>1, <3>2
  <2>4. ASSUME NEW i \in 1 .. n + 1
        PROVE  /\ Gap(First, queue'[i].page) + PagesFor(queue'[i].count)
                    = Gap(First, FrameEnd(i)')
               /\ Gap(First, FrameEnd(i)') <= Gap(First, end)
               /\ hdr'[queue'[i].page]
                    = [next |-> FrameEnd(i)', count |-> queue'[i].count]
               /\ \A k \in i + 1 .. n + 1 :
                    Gap(First, FrameEnd(i)') <= Gap(First, queue'[k].page)
    <3>1. CASE i = n + 1
      <4>1. Gap(First, end) <= Gap(First, end) /\ i + 1 .. n + 1 = {}
        BY <1>3, <1>5, <3>1
      <4>. QED
        BY <1>8, <2>3, <3>1, <4>1
    <3>2. CASE i # n + 1
      <4>1. i \in 1 .. n
        BY <1>5, <3>2
      <4>. QED
        BY <2>2, <4>1
    <3>. QED
      BY <3>1, <3>2
  <2>. QED
    BY <1>1, <1>6, <1>7, <2>1, <2>4 DEF ChainOK
<1>11. StoredOK'
  <2>1. ASSUME NEW i \in 1 .. n + 1, NEW j \in 0 .. PagesFor(queue'[i].count) - 1
        PROVE  mem'[Adv(queue'[i].page, j)] = [frame |-> queue'[i].id, chunk |-> j]
    <3>1. CASE i = n + 1
      BY <1>1, <1>6, <3>1 DEF e, IInv, RingInv, StoredOK
    <3>2. CASE i # n + 1
      <4>1. i \in 1 .. n
        BY <1>5, <3>2
      <4>. QED
        BY <1>1, <1>6, <4>1 DEF IInv, RingInv, StoredOK
    <3>. QED
      BY <3>1, <3>2
  <2>2. Gap(First, curr)' + rxpages' <= RingSize - 1
    <3>1. RingSize \in Nat
      BY RingAssumption DEF RingSize
    <3>2. Gap(First, curr)' = Gap(First, end)
      BY <1>1, <1>7
    <3>. QED
      BY <1>1, <1>3, <3>1, <3>2
  <2>3. 0 .. rxpages' - 1 = {}
    BY <1>1
  <2>. QED
    BY <1>6, <2>1, <2>2, <2>3 DEF StoredOK
<1>12. CardOK'
  BY <1>1 DEF CardOK
<1>13. DriverOK'
  <2>1. queue # << >> => /\ queue'[1] = queue[1]
                         /\ FrameEnd(1)' = FrameEnd(1)
    BY <1>5, <1>6, <1>8, QueueHead DEF IInv
  <2>. QED
    BY <1>1, <1>6, <2>1 DEF IInv, RingInv, DriverOK, Reading, Released, driver
<1>. QED
  BY <1>9, <1>10, <1>11, <1>12, <1>13 DEF IInv, RingInv

-------------------------------------------------------------------------------
(* Steps of the driver that move BNRY *)

\* Releasing the first frame makes First the place where it ended, so the
\* positions of all the others fall by the same amount.
LEMMA RecvEndInv == IInv /\ RecvEnd => IInv'
<1> SUFFICES ASSUME IInv, RecvEnd PROVE IInv'
  OBVIOUS
<1>1. /\ next_pkt' = Released /\ bnry' = Released - 1 /\ rst' = FALSE
      /\ taken' = Append(taken, cur) /\ queue' = Tail(queue)
      /\ pc' \in {"idle", "again"}
      /\ UNCHANGED <<card, dma, next, cur, handling>>
  BY DEF RecvEnd
<1>2. queue # << >> /\ next_pkt = FrameEnd(1) /\ prx
  BY DEF RecvEnd, Reading, IInv, RingInv, DriverOK
<1>3. PICK n \in Nat : n = Len(queue)
  BY DEF IInv, TypeOK
<1>4. n >= 1 /\ 1 \in 1 .. n /\ queue \in Seq(FrameSet)
  BY <1>2, <1>3, QueueHead DEF IInv, TypeOK
<1>5. /\ queue' \in Seq(FrameSet) /\ Len(queue') = n - 1
      /\ \A i \in 1 .. n - 1 : queue'[i] = queue[i + 1]
      /\ queue' = << >> <=> n = 1
  <2>1. queue' = Tail(queue)
    BY <1>1
  <2>2. queue' \in Seq(FrameSet) /\ Len(queue') = n - 1
    BY <1>2, <1>3, <1>4, <2>1
  <2>3. \A i \in 1 .. n - 1 : queue'[i] = queue[i + 1]
    BY <1>2, <1>3, <1>4, <2>1
  <2>4. queue' = << >> <=> n = 1
    BY <1>3, <1>4, <2>2
  <2>. QED
    BY <2>2, <2>3, <2>4
<1> DEFINE first == FrameEnd(1)
           d == Gap(First, FrameEnd(1))
<1>6. /\ First \in Pages /\ curr \in Pages /\ first \in Pages
      /\ d \in 0 .. RingSize - 1 /\ d <= Gap(First, curr)
  BY <1>3, <1>4, FramePosition
<1>7. /\ Released \in RxStart + 1 .. RxStop /\ Released - 1 \in Pages
      /\ Adv(Released - 1, 1) = first
  BY <1>2, <1>6, ReleasedIsBefore DEF IInv, TypeOK
<1>8. First' = first
  BY <1>1, <1>7 DEF First
<1>9. \A p \in Pages : d <= Gap(First, p) => Gap(first, p) = Gap(First, p) - d
  BY <1>6, GapShift
<1>10. \A i \in 1 .. n - 1 : FrameEnd(i)' = FrameEnd(i + 1)
  <2> SUFFICES ASSUME NEW i \in 1 .. n - 1 PROVE FrameEnd(i)' = FrameEnd(i + 1)
    OBVIOUS
  <2>1. CASE i = n - 1
    BY <1>1, <1>3, <1>5, <2>1 DEF FrameEnd, card
  <2>2. CASE i # n - 1
    <3>1. i + 1 \in 1 .. n - 1 /\ i + 1 # n
      BY <2>2
    <3>. QED
      BY <1>3, <1>5, <2>2, <3>1 DEF FrameEnd
  <2>. QED
    BY <2>1, <2>2
<1>. HIDE DEF first, d
<1>11. TypeOK'
  <2>1. next_pkt' \in RxStart .. RxStop
    BY <1>1, <1>7, RingAssumption
  <2>2. bnry' \in Pages
    BY <1>1, <1>7
  <2>3. taken' \in Seq([id : 0 .. MaxFrames, count : Counts \cup {0}, page : Pages])
    BY <1>1 DEF IInv, TypeOK
  <2>. QED
    BY <1>1, <1>5, <2>1, <2>2, <2>3
       DEF IInv, TypeOK, card, handling, window, copy
\* The frames behind the first, at their new positions.
<1>12. ASSUME NEW i \in 2 .. n
       PROVE  /\ i \in 1 .. n
              /\ queue[i].page \in Pages /\ FrameEnd(i) \in Pages
              /\ Gap(first, queue[i].page) + PagesFor(queue[i].count)
                   = Gap(first, FrameEnd(i))
              /\ Gap(first, FrameEnd(i)) <= Gap(first, curr)
              /\ Gap(first, FrameEnd(i)) = Gap(First, FrameEnd(i)) - d
              /\ hdr[queue[i].page]
                   = [next |-> FrameEnd(i), count |-> queue[i].count]
  <2>1. i \in 1 .. n /\ i \in 1 + 1 .. n
    BY <1>4
  <2>2. d <= Gap(First, queue[i].page)
    BY <1>3, <1>4, <2>1 DEF d, IInv, RingInv, ChainOK
  <2>3. /\ queue[i].page \in Pages /\ FrameEnd(i) \in Pages
        /\ PagesFor(queue[i].count) \in 1 .. RingSize - 1
        /\ Gap(First, queue[i].page) \in 0 .. RingSize - 1
        /\ Gap(First, FrameEnd(i)) \in 0 .. RingSize - 1
        /\ Gap(First, curr) \in 0 .. RingSize - 1
        /\ Gap(First, queue[i].page) + PagesFor(queue[i].count)
             = Gap(First, FrameEnd(i))
        /\ Gap(First, FrameEnd(i)) <= Gap(First, curr)
    BY <1>3, <2>1, FramePosition
  <2>4. /\ d <= Gap(First, FrameEnd(i))
    BY <1>6, <2>2, <2>3
  <2>5. /\ Gap(first, queue[i].page) = Gap(First, queue[i].page) - d
        /\ Gap(first, FrameEnd(i)) = Gap(First, FrameEnd(i)) - d
        /\ Gap(first, curr) = Gap(First, curr) - d
    BY <1>6, <1>9, <2>2, <2>3, <2>4
  <2>6. /\ Gap(first, queue[i].page) + PagesFor(queue[i].count)
             = Gap(first, FrameEnd(i))
        /\ Gap(first, FrameEnd(i)) <= Gap(first, curr)
    BY <1>6, <2>3, <2>5
  <2>7. hdr[queue[i].page] = [next |-> FrameEnd(i), count |-> queue[i].count]
    BY <1>3, <2>1 DEF IInv, RingInv, ChainOK
  <2>. QED
    BY <2>1, <2>3, <2>5, <2>6, <2>7
<1>13. ChainOK'
  <2>1. IF queue' = << >> THEN curr' = First' ELSE queue'[1].page = First'
    <3>1. CASE n = 1
      BY <1>1, <1>3, <1>5, <1>8, <3>1 DEF first, FrameEnd, card
    <3>2. CASE n # 1
      <4>1. 1 \in 1 .. n - 1 /\ 1 # n
        BY <1>4, <3>2
      <4>. QED
        BY <1>3, <1>5, <1>8, <4>1 DEF first, FrameEnd
    <3>. QED
      BY <3>1, <3>2
  <2>2. ASSUME NEW i \in 1 .. n - 1
        PROVE  /\ Gap(first, queue'[i].page) + PagesFor(queue'[i].count)
                    = Gap(first, FrameEnd(i)')
               /\ Gap(first, FrameEnd(i)') <= Gap(first, curr)
               /\ \A k \in i + 1 .. n - 1 :
                    Gap(first, FrameEnd(i)') <= Gap(first, queue'[k].page)
               /\ hdr[queue'[i].page]
                    = [next |-> FrameEnd(i)', count |-> queue'[i].count]
    <3>1. queue'[i] = queue[i + 1] /\ FrameEnd(i)' = FrameEnd(i + 1)
      BY <1>5, <1>10
    <3>2. i + 1 \in 2 .. n
      OBVIOUS
    <3>3. ASSUME NEW k \in i + 1 .. n - 1
          PROVE  Gap(first, FrameEnd(i + 1)) <= Gap(first, queue[k + 1].page)
      <4>1. /\ k + 1 \in (i + 1) + 1 .. n /\ k + 1 \in 1 + 1 .. n
            /\ k + 1 \in 1 .. n /\ i + 1 \in 1 .. n
        OBVIOUS
      <4>2. Gap(First, FrameEnd(i + 1)) <= Gap(First, queue[k + 1].page)
        BY <1>3, <4>1 DEF IInv, RingInv, ChainOK
      <4>3. queue[k + 1].page \in Pages /\ d <= Gap(First, queue[k + 1].page)
        <5>1. queue[k + 1].page \in Pages
          BY <1>3, <4>1, FramePosition
        <5>2. d <= Gap(First, queue[k + 1].page)
          BY <1>3, <1>4, <4>1 DEF d, IInv, RingInv, ChainOK
        <5>. QED
          BY <5>1, <5>2
      <4>4. /\ Gap(First, FrameEnd(i + 1)) \in 0 .. RingSize - 1
            /\ Gap(First, queue[k + 1].page) \in 0 .. RingSize - 1
        BY <1>3, <4>1, FramePosition
      <4>5. /\ Gap(first, FrameEnd(i + 1)) = Gap(First, FrameEnd(i + 1)) - d
            /\ Gap(first, queue[k + 1].page) = Gap(First, queue[k + 1].page) - d
        BY <1>9, <1>12, <3>2, <4>3
      <4>. QED
        BY <1>6, <4>2, <4>4, <4>5
    <3>4. \A k \in i + 1 .. n - 1 : queue'[k] = queue[k + 1]
      BY <1>5
    <3>. QED
      BY <1>12, <3>1, <3>2, <3>3, <3>4
  <2>3. ASSUME NEW i \in 1 .. n - 1, NEW k \in i + 1 .. Len(queue')
        PROVE  k \in i + 1 .. n - 1
    BY <1>5
  <2>4. hdr' = hdr /\ curr' = curr
    BY <1>1 DEF card
  <2>. QED
    BY <1>5, <1>8, <2>1, <2>2, <2>3, <2>4 DEF ChainOK
<1>14. StoredOK'
  <2>1. ASSUME NEW i \in 1 .. n - 1, NEW j \in 0 .. PagesFor(queue'[i].count) - 1
        PROVE  mem[Adv(queue'[i].page, j)] = [frame |-> queue'[i].id, chunk |-> j]
    <3>1. queue'[i] = queue[i + 1] /\ i + 1 \in 1 .. Len(queue)
      BY <1>3, <1>5
    <3>. QED
      BY <3>1 DEF IInv, RingInv, StoredOK
  <2>2. Gap(first, curr) + rxpages <= RingSize - 1
    <3>1. Gap(first, curr) = Gap(First, curr) - d
      BY <1>6, <1>9
    <3>2. Gap(First, curr) + rxpages <= RingSize - 1 /\ rxpages \in Nat
      BY DEF IInv, RingInv, StoredOK, TypeOK
    <3>3. Gap(First, curr) \in 0 .. RingSize - 1 /\ RingSize \in Nat
      BY <1>6, GapInRing, RingAssumption DEF RingSize
    <3>. QED
      BY <1>6, <3>1, <3>2, <3>3
  <2>3. UNCHANGED <<mem, curr, nrx, rxpages>>
    BY <1>1 DEF card
  <2>. QED
    BY <1>5, <1>8, <2>1, <2>2, <2>3 DEF StoredOK, IInv, RingInv
<1>15. CardOK'
  BY <1>1 DEF IInv, RingInv, CardOK, card
<1>16. DriverOK'
  <2>1. Released' - 1 = bnry'
    BY <1>1, <1>7, RingAssumption DEF Released
  <2>. QED
    BY <1>1, <1>2, <2>1 DEF DriverOK, Reading, card
<1>. QED
  BY <1>11, <1>13, <1>14, <1>15, <1>16 DEF IInv, RingInv

\* The second recv_end of the nop command writes BNRY the value it has.
LEMMA RecvEndAgainInv == IInv /\ RecvEndAgain => IInv'
<1> SUFFICES ASSUME IInv, RecvEndAgain PROVE IInv'
  OBVIOUS
<1>1. /\ next_pkt' = Released /\ bnry' = Released - 1 /\ rst' = FALSE
      /\ pc' = "idle" /\ UNCHANGED <<card, dma, next, cur, handling, history>>
      /\ Released - 1 = bnry
  BY DEF RecvEndAgain, IInv, RingInv, DriverOK
<1>2. ChainOK' /\ StoredOK' /\ CardOK'
  BY <1>1, RingUntouched DEF history
<1>3. DriverOK'
  BY <1>1 DEF IInv, RingInv, DriverOK, Reading, card, history
<1>4. Released \in RxStart .. RxStop
  BY ReleasedIsBefore, RingAssumption DEF IInv, TypeOK
<1>5. TypeOK'
  BY <1>1, <1>4 DEF IInv, TypeOK, card, handling, window, copy, history
<1>. QED
  BY <1>2, <1>3, <1>5 DEF IInv, RingInv

-------------------------------------------------------------------------------
\* Nothing the two sides do breaks the ring.
LEMMA StepInv == IInv /\ [Next]_vars => IInv'
<1> SUFFICES ASSUME IInv, [Next]_vars PROVE IInv'
  OBVIOUS
<1>1. CASE UNCHANGED vars
  <2>1. UNCHANGED <<card, driver, history>>
    BY <1>1 DEF vars
  <2>2. ChainOK' /\ StoredOK' /\ CardOK'
    BY <2>1, RingUntouched DEF driver, history
  <2>3. DriverOK'
    BY <2>1 DEF IInv, RingInv, DriverOK, Reading, FrameEnd, Released,
                card, driver, history
  <2>4. TypeOK'
    BY <2>1 DEF IInv, TypeOK, card, driver, handling, window, copy, history
  <2>. QED
    BY <2>2, <2>3, <2>4 DEF IInv, RingInv
<1>2. CASE Nic
  BY <1>2, BeginInv, StorePageInv, OverrunInv, CommitInv DEF Nic
<1>3. CASE Driver
  <2>1. CASE StartRecvEmpty
    BY <1>1, <2>1 DEF StartRecvEmpty
  <2>2. CASE StartRecvPoll \/ StartRecvReject \/ StartRecvHeader
    BY <2>2, PollInv, RejectInv, HeaderInv
  <2>3. CASE ProcessEth \/ DecodeIpUdp \/ Paste \/ PasteRest
    BY <2>3, ProcessEthInv, DecodeInv, PasteInv, PasteRestInv
  <2>4. CASE RecvEnd \/ RecvEndAgain
    BY <2>4, RecvEndInv, RecvEndAgainInv
  <2>. QED
    BY <1>3, <2>1, <2>2, <2>3, <2>4 DEF Driver
<1>. QED
  BY <1>1, <1>2, <1>3 DEF Next

\* eth.c keeps the receive ring consistent, whatever the ring's size, the frames
\* and the interleaving of card and driver: the invariant behind every other
\* claim about the receive path.
THEOREM InvCorrect == Spec => []IInv
<1>1. Init => IInv
  BY InitInv
<1>2. IInv /\ [Next]_vars => IInv'
  BY StepInv
<1>. QED
  BY <1>1, <1>2, PTL DEF Spec

\* Every variable keeps its type; BNRY, CURR and the driver's page stay inside
\* the ring.
THEOREM TypeCorrect == Spec => []TypeOK
<1>1. IInv => TypeOK
  BY DEF IInv
<1>. QED
  BY <1>1, InvCorrect, PTL

\* Between BNRY and CURR lie the accepted frames, whole, in order and not
\* overwritten, and the driver is at the first of them (start_recv, recv_end).
THEOREM RingCorrect == Spec => []RingInv
<1>1. IInv => RingInv
  BY DEF IInv
<1>. QED
  BY <1>1, InvCorrect, PTL

-------------------------------------------------------------------------------
(* Refinement *)

\* A step of the ring is a step of the frame queue, or leaves it alone.
LEMMA StepRefines == IInv /\ IInv' /\ [Next]_vars => [FQ!Next]_(FQ!vars)
<1> SUFFICES ASSUME IInv, IInv', [Next]_vars PROVE [FQ!Next]_(FQ!vars)
  OBVIOUS
<1>1. CASE NicCommit
  <2>1. queue' = Append(queue, [id |-> nrx + 1, count |-> rxcount, page |-> curr])
        /\ taken' = taken
    BY <1>1 DEF NicCommit
  <2>2. [id |-> nrx + 1, count |-> rxcount, page |-> curr] \in FrameSet
    <3>1. nrx + 1 \in 1 .. MaxFrames
      BY <1>1, SizeAssumption DEF NicCommit, IInv, RingInv, CardOK, TypeOK
    <3>2. rxcount \in Counts /\ curr \in Pages
      BY <1>1 DEF NicCommit, IInv, TypeOK
    <3>. QED
      BY <3>1, <3>2 DEF FrameSet
  <2>. QED
    BY <2>1, <2>2 DEF FQ!Next, FQ!Accept
<1>2. CASE RecvEnd
  <2>1. queue # << >> /\ cur = queue[1]
    BY <1>2 DEF RecvEnd, IInv, RingInv, DriverOK, Reading
  <2>2. queue \in Seq(FrameSet)
    BY DEF IInv, TypeOK
  <2>3. Head(queue) = cur
    BY <2>1, <2>2
  <2>. QED
    BY <1>2, <2>1, <2>3 DEF RecvEnd, FQ!Next, FQ!Take
<1>3. CASE UNCHANGED <<queue, taken>>
  BY <1>3 DEF FQ!vars
<1>4. CASE Nic /\ ~NicCommit
  BY <1>3, <1>4 DEF Nic, NicBegin, NicStorePage, NicOverrun, history
<1>5. CASE Driver /\ ~RecvEnd
  <2>1. CASE StartRecvEmpty
    BY <1>3, <2>1 DEF StartRecvEmpty, vars, history
  <2>2. CASE StartRecvPoll \/ StartRecvReject \/ StartRecvHeader
    BY <1>3, <2>2 DEF StartRecvPoll, StartRecvReject, StartRecvHeader, history
  <2>3. CASE ProcessEth \/ DecodeIpUdp \/ Paste \/ PasteRest \/ RecvEndAgain
    BY <1>3, <2>3 DEF ProcessEth, DecodeIpUdp, Paste, PasteRest, RecvEndAgain,
                      history
  <2>. QED
    BY <1>5, <2>1, <2>2, <2>3 DEF Driver
<1>6. CASE UNCHANGED vars
  BY <1>3, <1>6 DEF vars, history
<1>. QED
  BY <1>1, <1>2, <1>4, <1>5, <1>6 DEF Next

\* The receive path hands over the frames the card accepted in the order of their
\* arrival, none lost, none twice.
THEOREM Refinement == Spec => DeliversInOrder
<1>1. Init => FQ!Init
  BY DEF Init, FQ!Init
<1>2. IInv /\ IInv' /\ [Next]_vars => [FQ!Next]_(FQ!vars)
  BY StepRefines
<1>. QED
  BY <1>1, <1>2, InvCorrect, PTL DEF Spec, DeliversInOrder, FQ!Spec

-------------------------------------------------------------------------------
(* The bytes a handler reads.  Products of pages and the page size appear only *)
(* under At, so that the reasoning about addresses is linear.                 *)

\* The address of page p in the card's memory.
At(p) == p * PageSize

\* The order of two pages is the order of their addresses.
LEMMA PageOrder ==
  ASSUME NEW i \in Int, NEW j \in Int, At(i) < At(j)
  PROVE  i < j
<1>1. PageSize \in Nat \ {0}
  BY SizeAssumption
<1>. QED
  BY <1>1, Z3 DEF At

\* ... and the other way round.
LEMMA PageMonotone ==
  ASSUME NEW i \in Int, NEW j \in Int, i <= j
  PROVE  At(i) <= At(j)
<1>1. PageSize \in Nat \ {0}
  BY SizeAssumption
<1>. QED
  BY <1>1, Z3 DEF At

\* The distance of two pages in bytes.
LEMMA PageDistance ==
  ASSUME NEW i \in Int, NEW j \in Int
  PROVE  /\ At(i) \in Int
         /\ At(i - j) = At(i) - At(j)
         /\ At(i + j) = At(i) + At(j)
         /\ At(i + 1) = At(i) + PageSize
<1>1. PageSize \in Nat \ {0}
  BY SizeAssumption
<1>. QED
  BY <1>1, Z3 DEF At

\* A page of which the card wrote a byte is one of the frame's pages.
LEMMA PageOfFrame ==
  ASSUME NEW c \in Nat, NEW j \in Nat, At(j) < c + HdrSize
  PROVE  j \in 0 .. PagesFor(c) - 1
<1> DEFINE a == c + HdrSize + PageSize - 1
           q == a \div PageSize
<1>1. PageSize \in Nat \ {0} /\ HdrSize \in Nat
  BY SizeAssumption
<1>2. a \in Nat
  BY <1>1
<1>. HIDE DEF a
<1>3. q \in Int /\ a = At(q) + (a % PageSize) /\ a % PageSize \in 0 .. PageSize - 1
  BY <1>1, <1>2, Z3 DEF At
<1>. HIDE DEF q
<1>4. a < At(q + 1)
  <2>1. At(q + 1) = At(q) + PageSize /\ At(q) \in Int
    BY <1>3, PageDistance
  <2>. QED
    BY <1>1, <1>2, <1>3, <2>1
<1>5. At(j + 1) <= a
  <2>1. At(j + 1) = At(j) + PageSize /\ At(j) \in Int
    BY PageDistance
  <2>. QED
    BY <1>1, <2>1 DEF a
<1>6. At(j + 1) < At(q + 1)
  <2>1. At(j + 1) \in Int /\ At(q + 1) \in Int
    BY <1>3, PageDistance
  <2>. QED
    BY <1>2, <1>4, <1>5, <2>1
<1>7. j + 1 < q + 1
  BY <1>3, <1>6, PageOrder
<1>. QED
  BY <1>3, <1>7 DEF PagesFor, a, q

-------------------------------------------------------------------------------
\* The address at which the frame under the driver begins, its length
\* as the handlers see it, and the room for it before the ring's end.
Base == At(cur.page) + HdrSize
Size == cur.count - CrcSize
Room == Frag(Base)

\* Bytes of the frame the handlers have read before each stage.
HeadersRead == CASE pc = "eth" -> 0
                 [] pc = "ip"  -> EthLen
                 [] pc = "udp" -> EthLen + IpUdpLen

\* Bytes of the frame in the first window.
Part == IF Size > Room THEN Room ELSE Size

\* While the protocol headers are read, the DMA address, the window of the
\* driver and the position in the frame agree.
FirstWindow ==
  /\ MinCount <= cur.count
  /\ rd = HeadersRead /\ rx_off = rd
  /\ rx_buff_len = Part
  /\ Size > Room => rx_buff2_len = Size - Room
  /\ dma.addr = Base + rd /\ rx_buff_len - rd <= dma.cnt

\* After the wrap they agree again, unless an odd flipped copy moved nothing: then
\* the second one moves nothing either.
SecondWindow ==
  /\ dma.addr = At(RxStart)
  /\ len \in Nat /\ len <= Size - Room /\ len <= dma.cnt
  /\ rd = Room \/ InswCount(len, flip) = 0
  /\ ~flip => placed = off /\ off + len = want

\* What holds of the driver's window between any two steps.  It says nothing of the
\* card, whose steps leave it alone: that the bytes are still there is RingInv.
WindowInv ==
  /\ BytesIntact
  /\ PasteComplete
  /\ pc \in {"eth", "ip", "udp"} => FirstWindow
  /\ pc = "rest" => SecondWindow

\* A frame fits into its pages.
LEMMA FrameFits ==
  ASSUME NEW c \in Nat
  PROVE  c + HdrSize <= At(PagesFor(c)) /\ PagesFor(c) \in Int
<1> DEFINE a == c + HdrSize + PageSize - 1
           q == a \div PageSize
<1>1. PageSize \in Nat \ {0} /\ HdrSize \in Nat
  BY SizeAssumption
<1>2. a \in Nat
  BY <1>1
<1>. HIDE DEF a
<1>3. q \in Int /\ a = At(q) + (a % PageSize) /\ a % PageSize \in 0 .. PageSize - 1
  BY <1>1, <1>2, Z3 DEF At
<1>. HIDE DEF q
<1>4. At(q) \in Int
  BY <1>3, PageDistance
<1>5. c + HdrSize <= At(q)
  BY <1>1, <1>3, <1>4 DEF a
<1>. QED
  BY <1>3, <1>5 DEF PagesFor, a, q

\* The room between a page's header and the end of the ring: at least the page.
LEMMA RoomForPage ==
  ASSUME NEW p \in Pages
  PROVE  /\ At(p) \in Int /\ At(RxStop) \in Int
         /\ PageSize - HdrSize <= At(RxStop) - (At(p) + HdrSize)
<1>1. p \in Int /\ RxStop \in Int /\ p + 1 \in Int /\ p + 1 <= RxStop
  BY RingAssumption DEF Pages
<1>2. At(p) \in Int /\ At(RxStop) \in Int /\ At(p + 1) = At(p) + PageSize
  BY <1>1, PageDistance
<1>3. At(p + 1) <= At(RxStop)
  BY <1>1, PageMonotone
<1>. QED
  BY <1>2, <1>3, SizeAssumption

\* The frame under the driver, and the room for it, in numbers.
LEMMA WindowTypes ==
  ASSUME IInv, Reading
  PROVE  /\ cur = queue[1] /\ 1 \in 1 .. Len(queue)
         /\ cur.page \in Pages /\ cur.page \in Int
         /\ cur.count \in Counts /\ cur.count \in Nat
         /\ At(cur.page) \in Int /\ At(RxStart) \in Int
         /\ At(RxStop) \in Int
         /\ Base = At(cur.page) + HdrSize /\ Room = At(RxStop) - Base
         /\ Base \in Int /\ Size \in Int /\ Room \in Int
         /\ Size <= cur.count /\ PageSize - HdrSize <= Room
<1>1. cur = queue[1] /\ queue # << >>
  BY DEF IInv, RingInv, DriverOK
<1>2. cur \in FrameSet /\ 1 \in 1 .. Len(queue)
  BY <1>1, QueueHead DEF IInv
<1>3. cur.page \in Pages /\ cur.count \in Counts
  BY <1>2 DEF FrameSet
<1>4. cur.count \in Nat
  BY <1>3, CountAssumption
<1>5. cur.page \in Int /\ RxStart \in Int /\ RxStop \in Int
      /\ cur.page + 1 \in Int /\ cur.page + 1 <= RxStop
  BY <1>3, RingAssumption DEF Pages
<1>6. At(cur.page) \in Int /\ At(RxStart) \in Int /\ At(RxStop) \in Int
  BY <1>5, PageDistance
<1>7. PageSize \in Nat \ {0} /\ HdrSize \in Nat /\ CrcSize \in Nat
  BY SizeAssumption
<1>12. Base = At(cur.page) + HdrSize /\ Room = At(RxStop) - Base
  BY DEF Base, Room, Frag, At
<1>8. Base \in Int /\ Size \in Int /\ Room \in Int /\ Size <= cur.count
  BY <1>4, <1>6, <1>7, <1>12 DEF Size
<1>9. At(cur.page + 1) <= At(RxStop)
  BY <1>5, PageMonotone
<1>10. At(cur.page + 1) = At(cur.page) + PageSize
  BY <1>5, PageDistance
<1>11. PageSize - HdrSize <= Room
  BY <1>6, <1>7, <1>9, <1>10, <1>12
<1>. QED
  BY <1>1, <1>2, <1>3, <1>4, <1>5, <1>6, <1>8, <1>11, <1>12

\* Page j of the frame under the driver holds what the card stored there.
LEMMA PageHoldsFrame ==
  ASSUME IInv, Reading, NEW j \in Nat, At(j) < cur.count + HdrSize
  PROVE  mem[Adv(cur.page, j)] = [frame |-> cur.id, chunk |-> j]
<1>1. j \in 0 .. PagesFor(queue[1].count) - 1
  BY WindowTypes, PageOfFrame
<1>. QED
  BY <1>1, WindowTypes DEF IInv, RingInv, StoredOK

\* The numbers among them.
LEMMA WindowNumbers ==
  ASSUME IInv, Reading
  PROVE  /\ cur.page \in Int /\ RxStart <= cur.page /\ cur.page < RxStop
         /\ cur.count \in Nat
         /\ At(cur.page) \in Int /\ At(RxStart) \in Int /\ At(RxStop) \in Int
         /\ At(RxStart) <= At(cur.page) /\ At(cur.page) <= At(RxStop)
         /\ Base = At(cur.page) + HdrSize /\ Room = At(RxStop) - Base
         /\ Base \in Int /\ Size \in Int /\ Room \in Int
         /\ Size <= cur.count
<1>1. cur.page \in Int /\ RxStart <= cur.page /\ cur.page < RxStop
  BY WindowTypes, RingAssumption DEF Pages
<1>2. RxStart \in Int /\ RxStop \in Int /\ cur.page <= RxStop
  BY <1>1, RingAssumption
<1>3. At(RxStart) <= At(cur.page) /\ At(cur.page) <= At(RxStop)
  BY <1>1, <1>2, PageMonotone
<1>. QED
  BY <1>1, <1>3, WindowTypes

\* A read that stays before the end of the ring.
LEMMA ReadBeforeWrap ==
  ASSUME IInv, Reading, NEW n \in Nat, NEW o \in Nat,
         dma.addr = Base + o, n <= dma.cnt, o + n <= Room, o + n <= Size
  PROVE  HoldsFrame(n, o)
<1>1. PageSize \in Nat \ {0} /\ HdrSize \in Nat
  BY SizeAssumption
<1>2. At(RxStart) <= At(cur.page)
  BY WindowNumbers
<1>3. dma.addr >= At(RxStart) /\ dma.addr + n <= At(RxStop)
  BY <1>1, <1>2, WindowNumbers
<1>4. ASSUME NEW p \in Pages,
             At(p) < dma.addr + n, At(p + 1) > dma.addr
      PROVE  /\ mem[p].frame = cur.id
             /\ At(mem[p].chunk) - HdrSize - o = At(p) - dma.addr
  <2> DEFINE j == p - cur.page
  <2>1. p \in Int /\ p < RxStop /\ cur.page \in Int
    BY WindowNumbers, RingAssumption DEF Pages
  <2>2. cur.page < p + 1
    <3>1. At(p + 1) \in Int
      BY <2>1, PageDistance
    <3>2. At(cur.page) < At(p + 1)
      BY <1>1, <1>4, <3>1, WindowNumbers
    <3>. QED
      BY <2>1, <3>2, PageOrder
  <2>3. j \in Nat /\ Adv(cur.page, j) = p
    BY <2>1, <2>2, RingAssumption DEF Adv
  <2>4. At(j) = At(p) - At(cur.page) /\ At(p) \in Int
    BY <2>1, PageDistance
  <2>5. At(j) < cur.count + HdrSize
    <3>1. /\ At(cur.page) \in Int /\ cur.count \in Int /\ Size \in Int
          /\ dma.addr = At(cur.page) + HdrSize + o /\ o + n <= cur.count
      BY <1>1, WindowNumbers
    <3>. HIDE DEF j
    <3>. QED
      BY <1>1, <1>4, <2>4, <3>1
  <2>6. mem[p] = [frame |-> cur.id, chunk |-> j]
    <3>. HIDE DEF j
    <3>. QED
      BY <2>3, <2>5, PageHoldsFrame
  <2>7. At(j) - HdrSize - o = At(p) - dma.addr
    BY <1>1, <2>4, WindowNumbers
  <2>. QED
    BY <2>6, <2>7
<1>. QED
  BY <1>3, <1>4 DEF HoldsFrame, At

\* A read that starts where the frame continues at the first page of the ring.
LEMMA ReadAfterWrap ==
  ASSUME IInv, Reading, NEW n \in Nat,
         dma.addr = At(RxStart), n <= dma.cnt, n <= Size - Room
  PROVE  HoldsFrame(n, Room)
<1>1. PageSize \in Nat \ {0} /\ HdrSize \in Nat
  BY SizeAssumption
<1>7. /\ At(cur.page) \in Int /\ At(RxStart) \in Int /\ At(RxStop) \in Int
      /\ Room \in Int /\ cur.count \in Int /\ n + Room <= cur.count
  BY WindowNumbers
<1>2. At(RingSize) = At(RxStop) - At(RxStart) /\ RingSize \in Int
  BY RingAssumption, PageDistance DEF RingSize
<1>3. Room + HdrSize = At(RxStop) - At(cur.page)
  BY <1>1, WindowNumbers
<1>4. dma.addr + n <= At(RxStop)
  <2>1. At(PagesFor(cur.count)) <= At(RingSize)
        /\ At(PagesFor(cur.count)) \in Int
    <3>1. PagesFor(cur.count) \in 1 .. RingSize - 1
      BY WindowTypes, PagesForFits
    <3>2. PagesFor(cur.count) \in Int /\ PagesFor(cur.count) <= RingSize
      BY <1>2, <3>1
    <3>. QED
      BY <1>2, <3>2, PageMonotone, PageDistance
  <2>2. cur.count + HdrSize <= At(PagesFor(cur.count))
    BY WindowTypes, FrameFits
  <2>3. At(cur.page) <= At(RxStop)
    BY WindowNumbers
  <2>. QED
    BY <1>1, <1>2, <1>3, <1>7, <2>1, <2>2, <2>3
<1>5. ASSUME NEW p \in Pages, At(p) < dma.addr + n
      PROVE  /\ mem[p].frame = cur.id
             /\ At(mem[p].chunk) - HdrSize - Room = At(p) - dma.addr
  <2> DEFINE j == (p - cur.page) + RingSize
  <2>1. p \in Int /\ p >= RxStart /\ cur.page \in Int /\ cur.page < RxStop
    BY WindowNumbers, RingAssumption DEF Pages
  <2>2. j \in Nat /\ Adv(cur.page, j) = p
    BY <2>1, RingAssumption DEF Adv, RingSize
  <2>7. p - cur.page \in Int
    BY <2>1
  <2>3. /\ At(j) = At(p - cur.page) + At(RingSize)
        /\ At(p - cur.page) = At(p) - At(cur.page)
        /\ At(p) \in Int
    BY <1>2, <2>1, <2>7, PageDistance
  <2>4. At(j) < cur.count + HdrSize
    <3>. HIDE DEF j
    <3>. QED
      BY <1>1, <1>2, <1>3, <1>5, <1>7, <2>3
  <2>5. mem[p] = [frame |-> cur.id, chunk |-> j]
    <3>. HIDE DEF j
    <3>. QED
      BY <2>2, <2>4, PageHoldsFrame
  <2>6. At(j) - HdrSize - Room = At(p) - dma.addr
    <3>. HIDE DEF j
    <3>. QED
      BY <1>1, <1>2, <1>3, <1>7, <2>3
  <2>. QED
    BY <2>5, <2>6
<1>6. dma.addr >= At(RxStart)
  BY WindowNumbers
<1>. QED
  BY <1>4, <1>5, <1>6 DEF HoldsFrame, At

\* The first window holds the protocol headers, and with them any command.
LEMMA HeadersInWindow ==
  ASSUME IInv, Reading, FirstWindow
  PROVE  /\ Part \in Nat /\ EthLen + IpUdpLen <= Part
         /\ Part <= Room /\ Part <= Size
         /\ \A k \in Commands : k \in Nat /\ EthLen + IpUdpLen + k <= Room
<1>1. /\ Size \in Int /\ Room \in Int /\ PageSize - HdrSize <= Room
      /\ cur.count \in Int /\ MinCount <= cur.count /\ Size = cur.count - CrcSize
  BY WindowTypes DEF FirstWindow, Size
<1>2. /\ PageSize \in Int /\ HdrSize \in Int /\ CrcSize \in Int /\ MinCount \in Int
      /\ Commands \subseteq Nat
  BY SizeAssumption
<1>3. EthLen + IpUdpLen <= Size /\ EthLen + IpUdpLen <= Room
  BY <1>1, <1>2, WindowAssumption DEF EthLen, IpUdpLen
<1>4. \A k \in Commands : k \in Nat /\ EthLen + IpUdpLen + k <= Room
  BY <1>1, <1>2, WindowAssumption DEF EthLen, IpUdpLen
<1>. QED
  BY <1>1, <1>3, <1>4 DEF Part, EthLen, IpUdpLen

\* A read in the first window, by whichever handler.
LEMMA ReadInWindow ==
  ASSUME IInv, Reading, FirstWindow, NEW n \in Nat, rd \in Nat, rd + n <= Part
  PROVE  HoldsFrame(n, rd)
<1>1. dma.addr = Base + rd /\ rx_buff_len - rd <= dma.cnt /\ rx_buff_len = Part
  BY DEF FirstWindow
<1>2. dma.cnt \in Int
  BY DEF IInv, TypeOK
<1>3. Part \in Nat /\ Part <= Room /\ Part <= Size
  BY HeadersInWindow
<1>4. Room \in Int /\ Size \in Int
  BY WindowTypes
<1>5. n <= dma.cnt /\ rd + n <= Room /\ rd + n <= Size
  BY <1>1, <1>2, <1>3, <1>4
<1>. QED
  BY <1>1, <1>5, ReadBeforeWrap

\* process_eth reads the first bytes of the frame.
LEMMA EthWindow == IInv /\ WindowInv /\ ProcessEth => WindowInv'
<1> SUFFICES ASSUME IInv, WindowInv, ProcessEth PROVE WindowInv'
  OBVIOUS
<1>1. pc = "eth" /\ pc' = "ip" /\ Reading /\ FirstWindow
  BY DEF ProcessEth, WindowInv, Reading
<1>2. rd = 0 /\ rd' = EthLen /\ rx_off = 0 /\ rx_off' = EthLen
  BY <1>1 DEF ProcessEth, ReadPort, FirstWindow, HeadersRead, EthLen
<1>3. HoldsFrame(EthLen, rd)
  BY <1>1, <1>2, HeadersInWindow, ReadInWindow DEF EthLen, IpUdpLen
<1>4. BytesIntact'
  BY <1>3 DEF ProcessEth, ReadPort, WindowInv, BytesIntact
<1>5. FirstWindow'
  <2>1. UNCHANGED <<cur, rx_buff_len, rx_buff2_len, Base, Size, Room>>
    BY DEF ProcessEth, Base, Size, Room
  <2>2. dma'.addr = dma.addr + EthLen /\ dma'.cnt = dma.cnt - EthLen
    BY DEF ProcessEth
  <2>3. Base \in Int /\ dma.cnt \in Int /\ rx_buff_len \in Int
    BY <1>1, WindowTypes DEF IInv, TypeOK
  <2>. QED
    BY <1>1, <1>2, <2>1, <2>2, <2>3 DEF FirstWindow, Part, HeadersRead, EthLen
<1>. QED
  BY <1>1, <1>4, <1>5 DEF WindowInv, PasteComplete

\* decode_ip_udp reads the ones behind them.
LEMMA DecodeWindow == IInv /\ WindowInv /\ DecodeIpUdp => WindowInv'
<1> SUFFICES ASSUME IInv, WindowInv, DecodeIpUdp PROVE WindowInv'
  OBVIOUS
<1>1. pc = "ip" /\ pc' = "udp" /\ Reading /\ FirstWindow
  BY DEF DecodeIpUdp, WindowInv, Reading
<1>2. /\ rd = EthLen /\ rd' = EthLen + IpUdpLen
      /\ rx_off = EthLen /\ rx_off' = EthLen + IpUdpLen
  BY <1>1 DEF DecodeIpUdp, ReadPort, FirstWindow, HeadersRead
<1>3. HoldsFrame(IpUdpLen, rd)
  BY <1>1, <1>2, HeadersInWindow, ReadInWindow DEF EthLen, IpUdpLen
<1>4. BytesIntact'
  BY <1>3 DEF DecodeIpUdp, ReadPort, WindowInv, BytesIntact
<1>5. FirstWindow'
  <2>1. UNCHANGED <<cur, rx_buff_len, rx_buff2_len, Base, Size, Room>>
    BY DEF DecodeIpUdp, Base, Size, Room
  <2>2. dma'.addr = dma.addr + IpUdpLen /\ dma'.cnt = dma.cnt - IpUdpLen
    BY DEF DecodeIpUdp
  <2>3. Base \in Int /\ dma.cnt \in Int /\ rx_buff_len \in Int
    BY <1>1, WindowTypes DEF IInv, TypeOK
  <2>. QED
    BY <1>1, <1>2, <2>1, <2>2, <2>3 DEF FirstWindow, Part, HeadersRead, EthLen, IpUdpLen
<1>. QED
  BY <1>1, <1>4, <1>5 DEF WindowInv, PasteComplete

\* The second insw of paste_restpacket reads on at the first page of the ring.
LEMMA RestWindow == IInv /\ WindowInv /\ PasteRest => WindowInv'
<1> SUFFICES ASSUME IInv, WindowInv, PasteRest PROVE WindowInv'
  OBVIOUS
<1>1. pc = "rest" /\ pc' = "end" /\ Reading /\ SecondWindow
  BY DEF PasteRest, WindowInv, Reading
<1> DEFINE n == InswCount(len, flip)
<1>2. n \in Nat /\ n <= len /\ (~flip => n = len)
  BY <1>1 DEF SecondWindow, InswCount
<1>3. n = 0 \/ HoldsFrame(n, rd)
  <2>1. CASE rd = Room
    <3>1. dma.cnt \in Int /\ Size \in Int /\ Room \in Int
      BY <1>1, WindowTypes DEF IInv, TypeOK
    <3>2. n <= dma.cnt /\ n <= Size - Room /\ dma.addr = At(RxStart)
      <4>. HIDE DEF n
      <4>. QED
        BY <1>1, <1>2, <3>1 DEF SecondWindow
    <3>3. HoldsFrame(n, Room)
      <4>. HIDE DEF n
      <4>. QED
        BY <1>1, <1>2, <3>2, ReadAfterWrap
    <3>. QED
      BY <2>1, <3>3
  <2>2. CASE n = 0
    BY <2>2
  <2>. QED
    BY <1>1, <2>1, <2>2 DEF SecondWindow
<1>4. BytesIntact'
  BY <1>3 DEF PasteRest, ReadPort, WindowInv, BytesIntact
<1>5. PasteComplete'
  <2>1. flip' = flip /\ want' = want /\ (placed = off => placed' = placed + n)
    BY DEF PasteRest, copy
  <2>. QED
    BY <1>1, <1>2, <2>1 DEF SecondWindow, PasteComplete
<1>. QED
  BY <1>1, <1>4, <1>5 DEF WindowInv

\* What the first insw of paste_restpacket moves, and what is left for the second
\* one: an odd flipped part leaves an odd rest.
LEMMA InswSplit ==
  ASSUME NEW l \in Nat, NEW h \in Nat, NEW f \in BOOLEAN, f => l % 2 = 0
  PROVE  LET n == InswCount(IF l > h THEN h ELSE l, f)
         IN  /\ n \in Nat /\ n <= l /\ n <= h
             /\ ~f => n = IF l > h THEN h ELSE l
             /\ l > h => n = h \/ InswCount(l - h, f) = 0
BY DEF InswCount

\* The command bytes and the first insw stay in the first window, and what
\* read_prepare sets up for the second one is the rest of the frame.
LEMMA PasteWindow == IInv /\ WindowInv /\ Paste => WindowInv'
<1> SUFFICES ASSUME IInv, WindowInv, Paste PROVE WindowInv'
  OBVIOUS
<1>1. pc = "udp" /\ Reading /\ FirstWindow /\ rd = EthLen + IpUdpLen
  BY DEF Paste, WindowInv, Reading, FirstWindow, HeadersRead
<1>2. PICK k \in Commands, pad \in Paddings, flipped \in Flips :
        /\ rd + k + pad <= Size
        /\ flipped => (Size - rd - k - pad) % 2 = 0
        /\ PasteHead(k, Size - rd - k - pad, flipped)
  BY DEF Paste, Size
<1>3. UNCHANGED <<Base, Size, Room>>
  BY DEF Paste, Base, Size, Room
<1> DEFINE l == Size - rd - k - pad
           h == Part - rd - k
           n == InswCount(IF l > h THEN h ELSE l, flipped)
<1>4. /\ Part \in Nat /\ Part <= Room /\ Part <= Size /\ Size \in Int /\ Room \in Int
      /\ k \in Nat /\ pad \in Nat /\ flipped \in BOOLEAN /\ rd \in Nat
      /\ rd + k <= Room
  BY <1>1, HeadersInWindow, WindowTypes, SizeAssumption DEF EthLen, IpUdpLen
<1>5. l \in Nat /\ h \in Nat /\ l <= Size - rd - k
  BY <1>2, <1>4 DEF Part
<1>6. flipped => l % 2 = 0
  BY <1>2
<1>7. rx_buff_len = Part /\ rx_off = rd /\ rx_buff_len - (rx_off + k) = h
      /\ (Size > Room => rx_buff2_len = Size - Room)
  BY <1>1, <1>4 DEF FirstWindow, Part
<1>8. /\ flip' = flipped /\ want' = l /\ placed' = n
      /\ intact' = (intact /\ (k + n = 0 \/ HoldsFrame(k + n, rd))) /\ rd' = rd + (k + n)
      /\ IF l > h
           THEN /\ off' = h /\ len' = l - h /\ UNCHANGED rx_buff2_len
                /\ ReadPrepare(rx_off + k + h, rx_buff_len, rx_pkt_off)
                /\ pc' = "rest"
           ELSE pc' = "end"
  BY <1>2, <1>7 DEF PasteHead, ReadPort
<1>9. /\ n \in Nat /\ n <= l /\ n <= h
      /\ ~flipped => n = IF l > h THEN h ELSE l
      /\ l > h => n = h \/ InswCount(l - h, flipped) = 0
  <2>. HIDE DEF l, h
  <2>. QED
    BY <1>4, <1>5, <1>6, InswSplit DEF n
<1>10. h = Part - rd - k
  OBVIOUS
<1>11. l > h => Size > Room /\ Part = Room /\ l - h <= Size - Room
  BY <1>4, <1>5 DEF Part
<1>. HIDE DEF n, h, l
<1>12. BytesIntact'
  <2>1. k + n \in Nat /\ rd + (k + n) <= Part
    BY <1>4, <1>5, <1>9, <1>10
  <2>2. HoldsFrame(k + n, rd)
    BY <1>1, <1>4, <2>1, ReadInWindow
  <2>. QED
    BY <1>8, <2>2 DEF WindowInv, BytesIntact
<1>13. CASE l > h
  <2>1. /\ pc' = "rest" /\ off' = h /\ len' = l - h /\ rx_buff2_len' = Size - Room
        /\ ReadPrepare(rx_off + k + h, rx_buff_len, rx_pkt_off)
    BY <1>7, <1>8, <1>11, <1>13
  <2>2. rx_off + k + h >= rx_buff_len
    BY <1>4, <1>5, <1>7, <1>10
  <2>3. dma' = [addr |-> RxStart * PageSize,
                cnt |-> (Size - Room) + ((Size - Room) % 2)]
    BY <2>1, <2>2 DEF ReadPrepare
  <2>4. len' \in Nat /\ len' <= Size - Room
    BY <1>5, <1>11, <1>13, <2>1
  <2>5. len' <= dma'.cnt
    <3>1. dma'.cnt = (Size - Room) + ((Size - Room) % 2)
      BY <2>3
    <3>. QED
      BY <1>4, <2>4, <3>1
  <2>6. rd' = Room \/ InswCount(len', flip') = 0
    <3>1. n = h => rd' = Room
      BY <1>4, <1>8, <1>10, <1>11, <1>13
    <3>. QED
      BY <1>8, <1>9, <1>13, <2>1, <3>1
  <2>7. ~flip' => placed' = off' /\ off' + len' = want'
    BY <1>5, <1>8, <1>9, <1>13, <2>1
  <2>8. dma'.addr = At(RxStart)
    BY <2>3 DEF At
  <2>9. SecondWindow'
    BY <1>3, <2>4, <2>5, <2>6, <2>7, <2>8 DEF SecondWindow, At, InswCount
  <2>. QED
    BY <1>12, <2>1, <2>9 DEF WindowInv, PasteComplete
<1>14. CASE ~(l > h)
  <2>1. pc' = "end" /\ (~flip' => placed' = want')
    BY <1>8, <1>9, <1>14
  <2>. QED
    BY <1>12, <2>1 DEF WindowInv, PasteComplete
<1>. QED
  BY <1>13, <1>14

\* start_recv sets the first window up.
LEMMA HeaderWindow == IInv /\ WindowInv /\ StartRecvHeader => WindowInv'
<1> SUFFICES ASSUME IInv, WindowInv, StartRecvHeader PROVE WindowInv'
  OBVIOUS
<1> DEFINE count == hdr[next].count
<1>1. next \in Pages /\ count \in Nat
  <2>1. next \in Pages /\ hdr[next] \in [next : Pages, count : Counts \cup {0}]
    BY DEF IInv, TypeOK
  <2>2. count \in Counts \cup {0}
    BY <2>1
  <2>. QED
    BY <2>1, <2>2, CountIsNat
<1>2. /\ MinCount <= count /\ pc' = "eth" /\ rd' = 0 /\ intact' = intact
      /\ cur'.count = count /\ cur'.page = next
  BY <1>1, SizeAssumption DEF StartRecvHeader, LegalCount
<1>3. Base' = At(next) + HdrSize /\ Size' = count - CrcSize /\ Room' = At(RxStop) - Base'
      /\ Base' = next * PageSize + HdrSize /\ Room' = Frag(Base')
  BY <1>2 DEF Base, Size, Room, Frag, At
<1>4. Base' \in Int /\ Room' \in Int /\ PageSize - HdrSize <= Room'
  BY <1>1, <1>3, RoomForPage, SizeAssumption
<1>5. Size' \in Int /\ Size' > 0 /\ Room' > 0
  BY <1>1, <1>2, <1>3, <1>4, SizeAssumption, WindowAssumption DEF EthLen, IpUdpLen
<1>6. /\ rx_buff2_len' = IF Size' > Room' THEN Size' - Room' ELSE rx_buff2_len
      /\ ReadPrepare(0, IF Size' > Room' THEN Room' ELSE Size', Base')
  BY <1>3 DEF StartRecvHeader
<1> DEFINE part == IF Size' > Room' THEN Room' ELSE Size'
<1>7. part \in Int /\ part > 0
  BY <1>4, <1>5
<1>8. /\ rx_off' = 0 /\ rx_buff_len' = part
      /\ dma' = [addr |-> Base', cnt |-> part + (part % 2)]
  <2>. HIDE DEF part
  <2>. QED
    BY <1>6, <1>7 DEF ReadPrepare, part
<1>9. FirstWindow'
  <2>1. dma'.addr = Base' /\ dma'.cnt = part + (part % 2)
    BY <1>8
  <2>2. part <= dma'.cnt
    <3>. HIDE DEF part
    <3>. QED
      BY <1>7, <2>1
  <2>3. part - 0 <= dma'.cnt /\ dma'.addr = Base' + 0
    <3>. HIDE DEF part
    <3>1. part - 0 = part
      BY <1>7
    <3>2. \A b \in Int : b + 0 = b
      OBVIOUS
    <3>3. Base' + 0 = Base'
      BY <1>4, <3>2, Zenon
    <3>. QED
      BY <2>1, <2>2, <3>1, <3>3
  <2>. QED
    BY <1>2, <1>4, <1>6, <1>8, <2>3 DEF FirstWindow, Part, HeadersRead
<1>. QED
  BY <1>2, <1>9 DEF WindowInv, BytesIntact, PasteComplete

\* The card and the ends of a handler leave the window alone.
LEMMA StepWindow == IInv /\ WindowInv /\ [Next]_vars => WindowInv'
<1> SUFFICES ASSUME IInv, WindowInv, [Next]_vars PROVE WindowInv'
  OBVIOUS
<1>1. ASSUME UNCHANGED <<dma, pc, cur, handling>> PROVE WindowInv'
  BY <1>1 DEF WindowInv, BytesIntact, PasteComplete, FirstWindow, SecondWindow,
              Part, HeadersRead, Base, Size, Room, Frag, InswCount, handling, window, copy
<1>2. CASE Nic
  BY <1>1, <1>2 DEF Nic, NicBegin, NicStorePage, NicOverrun, NicCommit, driver
<1>3. CASE StartRecvEmpty \/ UNCHANGED vars
  BY <1>1, <1>3 DEF StartRecvEmpty, vars, driver
<1>4. CASE StartRecvPoll \/ StartRecvReject \/ RecvEnd \/ RecvEndAgain
  <2>1. pc' \in {"idle", "header", "again"} /\ intact' = intact
    BY <1>4 DEF StartRecvPoll, StartRecvReject, RecvEnd, RecvEndAgain, handling
  <2>. QED
    BY <2>1 DEF WindowInv, BytesIntact, PasteComplete
<1>5. CASE StartRecvHeader
  BY <1>5, HeaderWindow
<1>6. CASE ProcessEth \/ DecodeIpUdp
  BY <1>6, EthWindow, DecodeWindow
<1>7. CASE Paste \/ PasteRest
  BY <1>7, PasteWindow, RestWindow
<1>. QED
  BY <1>2, <1>3, <1>4, <1>5, <1>6, <1>7 DEF Next, Driver

\* At every stage of a handler the DMA address, the driver's window and its
\* position in the frame agree, on both sides of the ring's end.
LEMMA WindowCorrect == Spec => []WindowInv
<1>1. Init => WindowInv
  BY DEF Init, WindowInv, BytesIntact, PasteComplete
<1>. QED
  BY <1>1, InvCorrect, StepWindow, PTL DEF Spec

\* Every byte a handler takes from the DMA port is the byte of the frame that comes
\* next, wherever the frame lies in the ring and whatever the card stores meanwhile
\* (start_recv, process_eth, decode_ip_udp, paste_restpacket).
THEOREM BytesRight == Spec => []BytesIntact
<1>1. WindowInv => BytesIntact
  BY DEF WindowInv
<1>. QED
  BY <1>1, WindowCorrect, PTL

\* paste_restpacket returns with the whole payload in the buffer, on either side of
\* the ring's end, when it copies words in their order.
THEOREM PasteRight == Spec => []PasteComplete
<1>1. WindowInv => PasteComplete
  BY DEF WindowInv
<1>. QED
  BY <1>1, WindowCorrect, PTL

-------------------------------------------------------------------------------
(* The refused frame *)

\* A frame that is being handled is not one start_recv refuses.
HandledIsLegal == Reading => ~Refused

\* Whether the first frame is refused changes only when it is released.
LEMMA RefusedStays ==
  ASSUME IInv, queue # << >>, Nic \/ UNCHANGED queue
  PROVE  Refused' <=> Refused
<1>1. CASE UNCHANGED queue
  BY <1>1 DEF Refused
<1>2. CASE Nic /\ queue' # queue
  <2>1. queue' = Append(queue, [id |-> nrx + 1, count |-> rxcount, page |-> curr])
    BY <1>2 DEF Nic, NicBegin, NicStorePage, NicOverrun, NicCommit, history
  <2>2. queue \in Seq(FrameSet)
    BY DEF IInv, TypeOK
  <2>3. queue' # << >> /\ queue'[1] = queue[1]
    BY <2>1, <2>2
  <2>. QED
    BY <2>3 DEF Refused
<1>. QED
  BY <1>1, <1>2

\* start_recv reads the byte count of the first frame before it goes on.
LEMMA HeaderLegal == IInv /\ StartRecvHeader => ~Refused
<1> SUFFICES ASSUME IInv, StartRecvHeader PROVE ~Refused
  OBVIOUS
<1>1. queue # << >> /\ next = queue[1].page
  BY DEF StartRecvHeader, IInv, RingInv, DriverOK
<1>2. 1 \in 1 .. Len(queue) /\ queue[1] \in FrameSet
  BY <1>1, QueueHead DEF IInv
<1>3. hdr[next].count = queue[1].count
  <2>1. hdr[next] = [next |-> FrameEnd(1), count |-> queue[1].count]
    BY <1>1, <1>2 DEF IInv, RingInv, ChainOK
  <2>. QED
    BY <2>1
<1>4. queue[1].count \in Nat
  BY <1>2, CountAssumption DEF FrameSet
<1>. QED
  BY <1>3, <1>4, SizeAssumption DEF StartRecvHeader, LegalCount, Refused

LEMMA StepLegal == IInv /\ HandledIsLegal /\ [Next]_vars => HandledIsLegal'
<1> SUFFICES ASSUME IInv, HandledIsLegal, [Next]_vars, Reading' PROVE ~Refused'
  BY DEF HandledIsLegal
<1>1. CASE Nic
  <2>1. Reading
    BY <1>1 DEF Reading, Nic, NicBegin, NicStorePage, NicOverrun, NicCommit, driver
  <2>2. queue # << >>
    BY <2>1 DEF IInv, RingInv, DriverOK
  <2>. QED
    BY <1>1, <2>1, <2>2, RefusedStays DEF HandledIsLegal
<1>2. CASE StartRecvEmpty \/ UNCHANGED vars
  BY <1>2 DEF StartRecvEmpty, vars, driver, history, HandledIsLegal, Reading, Refused
<1>3. CASE StartRecvPoll \/ StartRecvReject \/ RecvEnd \/ RecvEndAgain
  BY <1>3 DEF StartRecvPoll, StartRecvReject, RecvEnd, RecvEndAgain, Reading
<1>4. CASE StartRecvHeader
  BY <1>4, HeaderLegal DEF StartRecvHeader, history, Refused
<1>5. CASE ProcessEth \/ DecodeIpUdp \/ Paste \/ PasteRest
  BY <1>5 DEF ProcessEth, DecodeIpUdp, Paste, PasteRest, history,
              HandledIsLegal, Reading, Refused
<1>. QED
  BY <1>1, <1>2, <1>3, <1>4, <1>5 DEF Next, Driver

\* Before a refused frame the driver can only poll and refuse it again.
LEMMA RefusedBlocks ==
  IInv /\ HandledIsLegal /\ [Next]_vars
    => [Blocked => Blocked' /\ UNCHANGED <<bnry, taken>>]_vars
<1> SUFFICES ASSUME IInv, HandledIsLegal, [Next]_vars, Blocked
             PROVE  Blocked' /\ UNCHANGED <<bnry, taken>>
  OBVIOUS
<1>1. Refused /\ ~Reading /\ pc # "again" /\ queue # << >>
  BY DEF Blocked, HandledIsLegal, Refused
<1>2. CASE Nic
  <2>1. pc' = pc /\ UNCHANGED <<bnry, taken>>
    BY <1>2 DEF Nic, NicBegin, NicStorePage, NicOverrun, NicCommit, driver, history
  <2>. QED
    BY <1>1, <1>2, <2>1, RefusedStays DEF Blocked
<1>3. CASE StartRecvEmpty \/ UNCHANGED vars
  BY <1>1, <1>3 DEF StartRecvEmpty, vars, driver, history, Blocked, Refused
<1>4. CASE StartRecvPoll \/ StartRecvReject
  BY <1>1, <1>4 DEF StartRecvPoll, StartRecvReject, history, Blocked, Refused
<1>5. ~(StartRecvHeader \/ RecvEndAgain \/ ProcessEth \/ DecodeIpUdp \/ Paste
        \/ PasteRest \/ RecvEnd)
  BY <1>1, HeaderLegal DEF RecvEndAgain, ProcessEth, DecodeIpUdp, Paste, PasteRest,
                           RecvEnd, Reading
<1>. QED
  BY <1>2, <1>3, <1>4, <1>5 DEF Next, Driver

\* Nothing behind a frame whose byte count start_recv refuses is ever handled: it
\* returns false without moving BNRY, and no step of the card helps.
THEOREM RefusedBlocksRing == Spec => RejectedFrameBlocksRing
<1>1. Init => HandledIsLegal
  BY DEF Init, HandledIsLegal, Reading
<1>2. Spec => []HandledIsLegal
  BY <1>1, StepLegal, InvCorrect, PTL DEF Spec
<1>. QED
  BY <1>2, RefusedBlocks, InvCorrect, PTL DEF Spec, RejectedFrameBlocksRing
===============================================================================

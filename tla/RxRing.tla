-------------------------------- MODULE RxRing --------------------------------
(***************************************************************************)
(* The receive ring shared by the DP8390 and the driver in eth.c.          *)
(*                                                                         *)
(* The card stores every incoming frame in consecutive 256-byte pages of   *)
(* [RxStart, RxStop), starting at CURR and wrapping at RxStop, and writes  *)
(* a 4-byte header (status, next page, byte count) in front of it.  The    *)
(* driver reads frames at page BNRY+1 through the remote DMA port and      *)
(* frees them by moving BNRY.  The two run concurrently: the card may be   *)
(* storing a page between any two steps of the driver.                     *)
(*                                                                         *)
(* Data is abstract: mem says which frame a page belongs to and which of   *)
(* its pages it is, and a read of n bytes is right when every page it      *)
(* touches holds the bytes the handler is waiting for.  Addresses, byte    *)
(* counts and the arithmetic on them are those of the code.                *)
(***************************************************************************)
EXTENDS Integers, Sequences

CONSTANTS
  PageSize,      \* ED_PAGE_SIZE
  HdrSize,       \* bytes of the header the card writes before a frame
  CrcSize,       \* trailing CRC, counted by the card, dropped by the driver
  MinCount,      \* start_recv rejects a smaller byte count
  MaxCount,      \* start_recv rejects a larger byte count
  RxStart,       \* rx_page_start
  RxStop,        \* rx_page_stop
  Counts,        \* byte counts of the frames on the wire
  Commands,      \* bytes between the UDP header and the payload a handler copies
  Paddings,      \* bytes after that payload: Ethernet padding
  Flips,         \* which copy routines are used: a subset of BOOLEAN
  MaxFrames      \* bound: frames accepted in a behaviour

EthLen == 14     \* bytes process_eth reads
IpUdpLen == 28   \* bytes decode_ip_udp reads

\* Pages a frame of c bytes (CRC included) occupies, header included.
PagesFor(c) == (c + HdrSize + PageSize - 1) \div PageSize

Pages == RxStart .. RxStop - 1
RingSize == RxStop - RxStart

ASSUME RingAssumption ==
  /\ RxStart \in Nat \ {0}
  /\ RxStop \in Nat
  /\ RxStart < RxStop

\* The largest frame leaves at least one page of an empty ring unused (6 pages
\* of 26): eth_initialize divides the buffer so.
ASSUME CountAssumption ==
  /\ Counts \subseteq Nat \ {0}
  /\ \A c \in Counts : PagesFor(c) \in 1 .. RingSize - 1

ASSUME SizeAssumption ==
  /\ PageSize \in Nat \ {0} /\ HdrSize \in Nat /\ CrcSize \in Nat
  /\ MinCount \in Nat /\ MaxCount \in Nat
  /\ MaxFrames \in Nat
  /\ Commands \subseteq Nat /\ Paddings \subseteq Nat
  /\ Flips \subseteq BOOLEAN

\* What a handler reads before it pastes a payload fits into one page behind the
\* header (at most 4 + 42 + 7 bytes of 256), and the protocol headers into the
\* shortest frame accepted (42 + 4 bytes of 64).
ASSUME WindowAssumption ==
  /\ EthLen + IpUdpLen + CrcSize <= MinCount
  /\ HdrSize + EthLen + IpUdpLen <= PageSize
  /\ \A k \in Commands : HdrSize + EthLen + IpUdpLen + k <= PageSize

VARIABLES
  (* the card *)
  bnry,          \* ED_P0_BNRY
  curr,          \* ED_P1_CURR
  prx,           \* ISR bit PRX
  rst,           \* ISR bit RST, set by a ring overrun
  mem,           \* page -> the frame it belongs to and its place in that frame
  hdr,           \* page -> the header the card wrote there
  rxcount,       \* byte count of the frame being stored, 0 when there is none
  rxpages,       \* pages of it already stored
  nrx,           \* frames accepted so far; the next one gets number nrx + 1
  dma,           \* remote DMA: address (RSAR) and remaining count (RBCR)
  (* the driver *)
  pc,            \* which call of the receive path runs next
  next,          \* local of start_recv: first page of the frame being read
  cur,           \* the frame being handled: its number, byte count, first page
  next_pkt, rx_pkt_off, rx_buff_len, rx_buff2_len, rx_off,
  flip,          \* paste_restpacket_flipped rather than paste_restpacket
  len, off,      \* its len and off
  (* history *)
  want,          \* bytes the handler asked paste_restpacket for
  placed,        \* how many of them are in its buffer
  rd,            \* bytes of the frame consumed from the DMA port
  intact,        \* every byte read so far was the byte the handler expected
  queue,         \* accepted frames the driver has not released
  taken          \* frames released

card == <<curr, prx, mem, hdr, rxcount, rxpages, nrx>>
window == <<rx_pkt_off, rx_buff_len, rx_buff2_len, rx_off>>
copy == <<flip, len, off, want, placed>>
handling == <<window, copy, rd, intact>>
history == <<queue, taken>>
driver == <<bnry, rst, dma, pc, next, cur, next_pkt, handling>>
vars == <<card, driver, history>>

-------------------------------------------------------------------------------
\* The page k pages after p in the ring (k <= RingSize).
Adv(p, k) == IF p + k >= RxStop THEN p + k - RingSize ELSE p + k

\* Pages from p up to q, walking forward through the ring.
Gap(p, q) == IF q >= p THEN q - p ELSE q - p + RingSize

NoFrame == [id |-> 0, count |-> 0, page |-> RxStart]
Blank == [frame |-> 0, chunk |-> 0]

\* eth_initialize: BNRY one page behind PSTART, CURR at PSTART, ISR cleared.
Init ==
  /\ bnry = RxStop - 1 /\ curr = RxStart /\ prx = FALSE /\ rst = FALSE
  /\ mem = [p \in Pages |-> Blank]
  /\ hdr = [p \in Pages |-> [next |-> RxStart, count |-> 0]]
  /\ rxcount = 0 /\ rxpages = 0 /\ nrx = 0
  /\ dma = [addr |-> 0, cnt |-> 0]
  /\ pc = "idle" /\ next = RxStart /\ cur = NoFrame /\ next_pkt = RxStart
  /\ rx_pkt_off = 0 /\ rx_buff_len = 0 /\ rx_buff2_len = 0 /\ rx_off = 0
  /\ flip = FALSE /\ len = 0 /\ off = 0
  /\ want = 0 /\ placed = 0 /\ rd = 0 /\ intact = TRUE
  /\ queue = << >> /\ taken = << >>

-------------------------------------------------------------------------------
(* The card.  It receives without help of the driver. *)

NicBegin(c) ==
  /\ rxcount = 0 /\ ~rst /\ nrx < MaxFrames
  /\ rxcount' = c /\ rxpages' = 0
  /\ UNCHANGED <<curr, prx, mem, hdr, nrx, driver, history>>

\* The card never writes into the page BNRY points at.
NicStorePage ==
  /\ rxcount # 0 /\ rxpages < PagesFor(rxcount)
  /\ Adv(curr, rxpages) # bnry
  /\ mem' = [mem EXCEPT ![Adv(curr, rxpages)] =
                          [frame |-> nrx + 1, chunk |-> rxpages]]
  /\ rxpages' = rxpages + 1
  /\ UNCHANGED <<curr, prx, hdr, rxcount, nrx, driver, history>>

\* Ring overrun: the frame is dropped and the card holds off further ones
\* until the driver has removed a packet.
NicOverrun ==
  /\ rxcount # 0 /\ rxpages < PagesFor(rxcount)
  /\ Adv(curr, rxpages) = bnry
  /\ rxcount' = 0 /\ rxpages' = 0 /\ rst' = TRUE
  /\ UNCHANGED <<curr, prx, mem, hdr, nrx, history,
                 bnry, dma, pc, next, cur, next_pkt, handling>>

NicCommit ==
  /\ rxcount # 0 /\ rxpages = PagesFor(rxcount)
  /\ hdr' = [hdr EXCEPT ![curr] = [next  |-> Adv(curr, rxpages),
                                   count |-> rxcount]]
  /\ curr' = Adv(curr, rxpages)
  /\ prx' = TRUE
  /\ nrx' = nrx + 1
  /\ queue' = Append(queue, [id |-> nrx + 1, count |-> rxcount, page |-> curr])
  /\ rxcount' = 0 /\ rxpages' = 0
  /\ UNCHANGED <<mem, driver, taken>>

Nic == (\E c \in Counts : NicBegin(c)) \/ NicStorePage \/ NicOverrun \/ NicCommit

-------------------------------------------------------------------------------
(* Reading the remote DMA port. *)

\* The n bytes at the DMA address are bytes o, o+1, ... of the current frame.
HoldsFrame(n, o) ==
  LET last == dma.addr + n
  IN  /\ n <= dma.cnt
      /\ dma.addr >= RxStart * PageSize /\ last <= RxStop * PageSize
      /\ \A p \in Pages :
           p * PageSize < last /\ (p + 1) * PageSize > dma.addr =>
             /\ mem[p].frame = cur.id
             /\ mem[p].chunk * PageSize - HdrSize - o = p * PageSize - dma.addr

\* Reads n bytes where the handler expects the frame from byte o on.
ReadPort(n, o) ==
  /\ intact' = (intact /\ (n = 0 \/ HoldsFrame(n, o)))
  /\ rd' = rd + n

\* read_prepare with these values of rx_off, rx_buff_len and rx_pkt_off.
ReadPrepare(roff, rlen, pkt) ==
  LET wrap == roff >= rlen
      newlen == IF wrap THEN rx_buff2_len' ELSE rlen
      newpkt == IF wrap THEN RxStart * PageSize ELSE pkt
  IN  /\ rx_off' = IF wrap THEN 0 ELSE roff
      /\ rx_pkt_off' = newpkt
      /\ rx_buff_len' = newlen
      /\ dma' = [addr |-> newpkt, cnt |-> newlen + (newlen % 2)]

\* Mutant: insw transfers whole words only.
InswWords(n, flipped) == n - (n % 2)

\* insw reads n bytes; inswf returns at once when n is odd.
InswCount(n, flipped) == IF flipped /\ n % 2 = 1 THEN 0 ELSE n

-------------------------------------------------------------------------------
(* start_recv *)

\* The first page after BNRY, and CURR, as start_recv corrects them.
NextPage == IF bnry + 1 >= RxStop THEN RxStart ELSE bnry + 1
CurrPage == IF curr >= RxStop THEN RxStart ELSE curr

\* No packet: start_recv returns false before it changes anything.
StartRecvEmpty ==
  /\ pc = "idle"
  /\ ~prx \/ CurrPage = NextPage
  /\ UNCHANGED vars

StartRecvPoll ==
  /\ pc = "idle"
  /\ prx /\ CurrPage # NextPage
  /\ next' = NextPage
  /\ pc' = "header"
  /\ UNCHANGED <<card, bnry, rst, dma, cur, next_pkt, handling, history>>

\* Mutant: the limits are applied to the length without the CRC.
LegalWithoutCrc(c) == ~(c - CrcSize < MinCount \/ c - CrcSize > MaxCount)

\* Mutant: the upper limit is the one of an Ethernet payload.
LegalPayload(c) == ~(c < MinCount \/ c > MaxCount - EthLen - CrcSize)

\* The byte counts start_recv accepts.
LegalCount(c) == ~(c < MinCount \/ c > MaxCount)

\* Mutant: a rejected frame is released.
StartRecvRejectReleases ==
  /\ pc = "header"
  /\ next_pkt' = hdr[next].next
  /\ ~LegalCount(hdr[next].count)
  /\ dma' = [addr |-> next * PageSize + HdrSize, cnt |-> 0]
  /\ bnry' = IF next_pkt' = RxStart THEN RxStop - 1 ELSE next_pkt' - 1
  /\ pc' = "idle"
  /\ UNCHANGED <<card, rst, next, cur, handling, history>>

\* A rejected frame: false is returned, nothing is released.
StartRecvReject ==
  /\ pc = "header"
  /\ next_pkt' = hdr[next].next
  /\ ~LegalCount(hdr[next].count)
  /\ dma' = [addr |-> next * PageSize + HdrSize, cnt |-> 0]
  /\ pc' = "idle"
  /\ UNCHANGED <<card, bnry, rst, next, cur, handling, history>>

\* Mutant: the fragment is measured from the header.
FragWithHeader(pkt) == RxStop * PageSize - (pkt - HdrSize)

\* Bytes between the start of the frame and the end of the ring.
Frag(pkt) == RxStop * PageSize - pkt

StartRecvHeader ==
  /\ pc = "header"
  /\ next_pkt' = hdr[next].next
  /\ LegalCount(hdr[next].count)
  /\ LET pkt == next * PageSize + HdrSize
         data == hdr[next].count - CrcSize
         split == data > Frag(pkt)
     IN  /\ rx_buff2_len' = IF split THEN data - Frag(pkt) ELSE rx_buff2_len
         /\ ReadPrepare(0, IF split THEN Frag(pkt) ELSE data, pkt)
  /\ cur' = [id |-> mem[next].frame, count |-> hdr[next].count, page |-> next]
  /\ rd' = 0
  /\ pc' = "eth"
  /\ UNCHANGED <<card, bnry, rst, next, copy, intact, history>>

-------------------------------------------------------------------------------
(* The handlers: main.c, dhcp_poll and process_arp. *)

ProcessEth ==
  /\ pc = "eth"
  /\ ReadPort(EthLen, rd)
  /\ dma' = [addr |-> dma.addr + EthLen, cnt |-> dma.cnt - EthLen]
  /\ rx_off' = rx_off + EthLen
  /\ pc' = "ip"
  /\ UNCHANGED <<card, bnry, rst, next, cur, next_pkt, history,
                 rx_pkt_off, rx_buff_len, rx_buff2_len, copy>>

DecodeIpUdp ==
  /\ pc = "ip"
  /\ ReadPort(IpUdpLen, rd)
  /\ dma' = [addr |-> dma.addr + IpUdpLen, cnt |-> dma.cnt - IpUdpLen]
  /\ rx_off' = rx_off + IpUdpLen
  /\ pc' = "udp"
  /\ UNCHANGED <<card, bnry, rst, next, cur, next_pkt, history,
                 rx_pkt_off, rx_buff_len, rx_buff2_len, copy>>

\* paste_restpacket(buff, l): what of it happens before the second insw, for
\* a handler that has read k bytes of command.
PasteHead(k, l, flipped) ==
  LET roff == rx_off + k
      head == rx_buff_len - roff
      n == InswCount(IF l > head THEN head ELSE l, flipped)
  IN  /\ flip' = flipped
      /\ want' = l
      /\ placed' = n
      /\ ReadPort(k + n, rd)
      /\ IF l > head
           THEN /\ off' = head /\ len' = l - head
                /\ UNCHANGED rx_buff2_len
                /\ ReadPrepare(roff + head, rx_buff_len, rx_pkt_off)
                /\ pc' = "rest"
           ELSE /\ off' = 0 /\ len' = l
                /\ rx_off' = roff
                /\ dma' = [addr |-> dma.addr + k + n, cnt |-> dma.cnt - k - n]
                /\ UNCHANGED <<rx_pkt_off, rx_buff_len, rx_buff2_len>>
                /\ pc' = "end"

\* A handler that copies a payload: dhcp_poll, ping, putmem, putmem_flipped.
Paste ==
  /\ pc = "udp"
  /\ \E k \in Commands, pad \in Paddings, flipped \in Flips :
       /\ rd + k + pad <= cur.count - CrcSize
       /\ flipped => (cur.count - CrcSize - rd - k - pad) % 2 = 0
       /\ PasteHead(k, cur.count - CrcSize - rd - k - pad, flipped)
  /\ UNCHANGED <<card, bnry, rst, next, cur, next_pkt, history>>

\* The second insw of paste_restpacket.
PasteRest ==
  /\ pc = "rest"
  /\ LET n == InswCount(len, flip)
     IN  /\ ReadPort(n, rd)
         /\ placed' = IF placed = off THEN placed + n ELSE placed
         /\ dma' = [addr |-> dma.addr + n, cnt |-> dma.cnt - n]
  /\ pc' = "end"
  /\ UNCHANGED <<card, bnry, rst, next, cur, next_pkt, history,
                 window, flip, len, off, want>>

-------------------------------------------------------------------------------
(* recv_end *)

\* Mutant: BNRY is set to next_pkt.
ReleasedOneMore == next_pkt + 1

\* The value recv_end gives next_pkt before it writes next_pkt - 1 to BNRY.
Released == IF next_pkt = RxStart THEN RxStop ELSE next_pkt

\* Reached with the payload copied, or from a handler that wants nothing more
\* of the frame: other ethertype, ARP, a packet decode_ip_udp refuses, a
\* command without payload.  The nop command calls recv_end a second time.
RecvEnd ==
  /\ pc \in {"ip", "udp", "end"}
  /\ next_pkt' = Released
  /\ bnry' = Released - 1
  /\ rst' = FALSE
  /\ taken' = Append(taken, cur)
  /\ queue' = Tail(queue)
  /\ pc' \in IF pc = "udp" THEN {"idle", "again"} ELSE {"idle"}
  /\ UNCHANGED <<card, dma, next, cur, handling>>

RecvEndAgain ==
  /\ pc = "again"
  /\ next_pkt' = Released
  /\ bnry' = Released - 1
  /\ rst' = FALSE
  /\ pc' = "idle"
  /\ UNCHANGED <<card, dma, next, cur, handling, history>>

Driver ==
  \/ StartRecvEmpty \/ StartRecvPoll \/ StartRecvReject \/ StartRecvHeader
  \/ ProcessEth \/ DecodeIpUdp \/ Paste \/ PasteRest
  \/ RecvEnd \/ RecvEndAgain

Next == Nic \/ Driver

Spec == Init /\ [][Next]_vars

\* start() polls in a loop without exit; nothing is assumed of the wire.
FairSpec == Spec /\ WF_vars(Driver)

-------------------------------------------------------------------------------
(* Properties *)

FrameSet == [id : 1 .. MaxFrames, count : Counts, page : Pages]

\* Types.  DMA addresses stay below the end of the ring's buffer memory, which
\* is an address the code can hold in its 16-bit variables.
TypeOK ==
  /\ bnry \in Pages /\ curr \in Pages /\ prx \in BOOLEAN /\ rst \in BOOLEAN
  /\ mem \in [Pages -> [frame : 0 .. MaxFrames, chunk : Nat]]
  /\ hdr \in [Pages -> [next : Pages, count : Counts \cup {0}]]
  /\ rxcount \in Counts \cup {0} /\ rxpages \in Nat /\ nrx \in 0 .. MaxFrames
  /\ dma \in [addr : Int, cnt : Int]
  /\ pc \in {"idle", "header", "eth", "ip", "udp", "rest", "end", "again"}
  /\ next \in Pages
  /\ cur \in [id : 0 .. MaxFrames, count : Counts \cup {0}, page : Pages]
  /\ next_pkt \in RxStart .. RxStop
  /\ rx_pkt_off \in Int /\ rx_off \in Int
  /\ rx_buff_len \in Int /\ rx_buff2_len \in Int
  /\ flip \in BOOLEAN /\ intact \in BOOLEAN
  /\ len \in Int /\ off \in Int
  /\ want \in Int /\ placed \in Int /\ rd \in Int
  /\ queue \in Seq(FrameSet)
  /\ taken \in Seq([id : 0 .. MaxFrames, count : Counts \cup {0}, page : Pages])

First == Adv(bnry, 1)
FrameEnd(i) == IF i = Len(queue) THEN curr ELSE queue[i + 1].page

\* The unreleased frames fill the ring from the page behind BNRY to CURR, end to
\* end, and the header in front of each leads to the one after it.
ChainOK ==
  /\ IF queue = << >> THEN curr = First ELSE queue[1].page = First
  /\ \A i \in 1 .. Len(queue) :
       /\ Gap(First, queue[i].page) + PagesFor(queue[i].count)
            = Gap(First, FrameEnd(i))
       /\ Gap(First, FrameEnd(i)) <= Gap(First, curr)
       /\ \A k \in i + 1 .. Len(queue) :
            Gap(First, FrameEnd(i)) <= Gap(First, queue[k].page)
       /\ hdr[queue[i].page] = [next |-> FrameEnd(i), count |-> queue[i].count]

\* What the card stored of the unreleased frames, and of the frame arriving, is
\* still there.
StoredOK ==
  /\ \A i \in 1 .. Len(queue) : \A j \in 0 .. PagesFor(queue[i].count) - 1 :
       mem[Adv(queue[i].page, j)] = [frame |-> queue[i].id, chunk |-> j]
  /\ Gap(First, curr) + rxpages <= RingSize - 1
  /\ \A j \in 0 .. rxpages - 1 :
       mem[Adv(curr, j)] = [frame |-> nrx + 1, chunk |-> j]

\* The frame being stored is within the bound; between frames nothing is stored.
CardOK == IF rxcount = 0 THEN rxpages = 0 ELSE nrx < MaxFrames

\* Where the driver is: what it took from BNRY and the header is still so.
Reading == pc \in {"eth", "ip", "udp", "rest", "end"}
DriverOK ==
  /\ queue # << >> => prx
  /\ pc = "header" \/ Reading => queue # << >> /\ next = queue[1].page
  /\ Reading => /\ cur = queue[1]
                /\ next_pkt = FrameEnd(1)
  /\ pc = "again" => Released - 1 = bnry

\* The ring invariant: at every step of the driver and of the card, the pages
\* between BNRY and CURR are the accepted frames, complete, in order, and the
\* driver looks at the first of them (start_recv, recv_end).
RingInv == ChainOK /\ StoredOK /\ CardOK /\ DriverOK

\* Every byte a handler takes from the DMA port (process_eth, decode_ip_udp,
\* its command bytes, paste_restpacket on both sides of the wrap) is the byte
\* of the frame that comes next.
BytesIntact == intact

\* When paste_restpacket returns, the whole payload is in the buffer.
PasteComplete == pc = "end" /\ ~flip => placed = want

\* scripts/monitor.py asks of a flipped transfer only that its length is even
\* ("flipped needs len % 2"): then putmem_flipped, which acknowledges the
\* command, has stored all of it.
FlippedComplete == pc = "end" /\ flip => placed = want

\* The receive path is a queue of frames, each handled once, in order.
FQ == INSTANCE FrameQueue WITH Frame <- FrameSet
DeliversInOrder == FQ!Spec

\* A frame whose byte count start_recv refuses is at the head of the ring.
Refused == queue # << >> /\ queue[1].count \notin MinCount .. MaxCount

\* ... and every accepted frame with no refused one before it is eventually handled.
DeliversAll == WF_(FQ!vars)(FQ!Take /\ ~Refused)

\* After a ring overrun the card receives again once the driver has released a
\* frame, and the driver always gets that far, unless it is stuck at a refused one.
OverrunRecovers == rst ~> ~rst \/ Refused

\* The driver is not about to repeat the recv_end of the frame before.
Blocked == Refused /\ pc # "again"

\* start_recv returns false for such a frame without moving BNRY: no later step
\* of the driver ever gets past it, and nothing behind it is handled.
RejectedFrameBlocksRing == [][Blocked => Blocked' /\ UNCHANGED <<bnry, taken>>]_vars
===============================================================================

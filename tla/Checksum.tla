------------------------------- MODULE Checksum -------------------------------
(***************************************************************************)
(* The IPv4 header of start_send_udp and its checksum.  A host that gets   *)
(* the packet adds the ten words of the header, carries included, and      *)
(* drops the packet silently unless the result is 0xffff (RFC 1071).       *)
(* Words are in network order, which is what swap_16 makes of them.        *)
(***************************************************************************)
EXTENDS Integers

CONSTANTS
  Hosts,         \* IPv4 addresses, as pairs of words
  IpLens         \* total lengths of the packets: len + 28

MaxWord == 65535

Word == 0 .. MaxWord

\* What the addresses and lengths of packets are.
ChecksumAssumption == Hosts \subseteq Word \X Word /\ IpLens \subseteq Word

VARIABLES
  pc,            \* "idle", "sum", "fold" or "sent"
  ip_hdr,        \* its ten words
  chksum         \* uint32_t

vars == <<pc, ip_hdr, chksum>>

Headers ==
  [version : Word, length : Word, id : Word, fragment : Word, ttl : Word,
   check : Word, src1 : Word, src2 : Word, dst1 : Word, dst2 : Word]

\* What is added: the words of the header.
Total(h) ==
  h.version + h.length + h.id + h.fragment + h.ttl + h.check + h.src1 + h.src2
    + h.dst1 + h.dst2

\* Version and header length, the length of the packet, no ID, flags or offset, a TTL
\* of 250 and UDP, and the addresses.
IpHeader(ip_len, local, remote) ==
  [version |-> 17664, length |-> ip_len, id |-> 0, fragment |-> 0, ttl |-> 64017,
   check |-> 0, src1 |-> local[1], src2 |-> local[2], dst1 |-> remote[1],
   dst2 |-> remote[2]]

Init == pc = "idle" /\ ip_hdr = IpHeader(0, <<0, 0>>, <<0, 0>>) /\ chksum = 0

StartSend(ip_len, local, remote) ==
  /\ pc \in {"idle", "sent"}
  /\ ip_hdr' = IpHeader(ip_len, local, remote)
  /\ chksum' = Total(ip_hdr')
  /\ pc' = "sum"

FoldOnce ==
  /\ pc = "sum" /\ pc' = "fold"
  /\ chksum' = (chksum % 65536) + (chksum \div 65536)
  /\ UNCHANGED ip_hdr

\* chksum & 0xffff + (chksum >> 16) is chksum & (0xffff + (chksum >> 16)).  The carry
\* is 0 or 1 here: with the mask 0xffff the sum stays, and of the mask 0x10000 nothing
\* is left in a uint16_t.
FoldedAgain == IF chksum \div 65536 = 0 THEN chksum % 65536 ELSE 0

\* The complement goes into the header, and the packet to the card.
Send ==
  /\ pc = "fold" /\ pc' = "sent"
  /\ ip_hdr' = [ip_hdr EXCEPT !.check = 65535 - FoldedAgain]
  /\ UNCHANGED chksum

Next ==
  \/ FoldOnce \/ Send
  \/ \E ip_len \in IpLens, local, remote \in Hosts : StartSend(ip_len, local, remote)

Spec == Init /\ [][Next]_vars

-------------------------------------------------------------------------------
(* Properties *)

\* The sum with end-around carry of a header that is not all zeroes is 0xffff.
Accepted == Total(ip_hdr) % 65535 = 0

\* The checksum makes the other host accept every header the program sends.
HeaderAccepted == pc = "sent" => Accepted

\* It does whenever adding the carries once leaves no carry.
HeaderAcceptedUnlessCarry == pc = "sent" /\ chksum < 65536 => Accepted
===============================================================================

---------------------------- MODULE ChecksumProofs ----------------------------
(* When the checksum is right, for all addresses and lengths.                  *)
EXTENDS Checksum, TLAPS

\* The header under construction, what has been added up, and what was sent.
SumInv ==
  /\ ip_hdr \in Headers
  /\ chksum \in Nat
  /\ pc \in {"sum", "fold"} => ip_hdr.check = 0
  /\ pc = "sum" => chksum = Total(ip_hdr)
  /\ pc = "fold" => chksum = (Total(ip_hdr) % 65536) + (Total(ip_hdr) \div 65536)
  /\ HeaderAcceptedUnlessCarry

\* A number in the range of a word is one.
LEMMA IntWord ==
  ASSUME NEW n \in Int, 0 <= n, n <= 65535
  PROVE  n \in Word
<1>1. MaxWord \in Int /\ n <= MaxWord
  BY SMT DEF MaxWord
<1> QED
  BY <1>1, SMT DEF Word

\* A word is a number in that range.
LEMMA WordInt ==
  ASSUME NEW n \in Word
  PROVE  n \in Int /\ 0 <= n /\ n <= 65535
<1>1. MaxWord = 65535
  BY SMT DEF MaxWord
<1>2. n \in Int /\ 0 <= n /\ n <= MaxWord
  <2>1. MaxWord \in Int
    BY <1>1, SMT
  <2> QED
    BY <2>1, SMT DEF Word
<1> QED
  BY <1>1, <1>2, SMT

\* A header the program builds consists of words.
LEMMA HeaderWords ==
  ASSUME NEW n \in Word, NEW l \in Word \X Word, NEW r \in Word \X Word
  PROVE  IpHeader(n, l, r) \in Headers /\ IpHeader(n, l, r).check = 0
<1>1. /\ 0 \in Word /\ 17664 \in Word /\ 64017 \in Word
      /\ l[1] \in Word /\ l[2] \in Word /\ r[1] \in Word /\ r[2] \in Word
  BY IntWord, WordInt, SMT
<1> QED
  BY <1>1, SMT DEF IpHeader, Headers

\* The sum of ten words.
LEMMA TotalNat ==
  ASSUME NEW h \in Headers
  PROVE  Total(h) \in Int /\ 0 <= Total(h) /\ Total(h) <= 655350
<1>1. /\ h.version \in Word /\ h.length \in Word /\ h.id \in Word
      /\ h.fragment \in Word /\ h.ttl \in Word /\ h.check \in Word
      /\ h.src1 \in Word /\ h.src2 \in Word /\ h.dst1 \in Word /\ h.dst2 \in Word
  BY SMT DEF Headers
<1> QED
  BY <1>1, IntWord, WordInt, SMT DEF Total

\* A sum plus the complement of its fold is a multiple of 0xffff.
LEMMA FoldComplement ==
  ASSUME NEW s \in Int, 0 <= s
  PROVE  (s + (65535 - ((s % 65536) + (s \div 65536)))) % 65535 = 0
<1> DEFINE q == s \div 65536
<1>1. q \in Int /\ s = (65536 * q) + (s % 65536) /\ s % 65536 \in Int
  BY Z3
<1>2. s + (65535 - ((s % 65536) + q)) = 65535 * (q + 1)
  BY <1>1, Z3
<1>3. (65535 * (q + 1)) % 65535 = 0
  BY <1>1, Z3
<1> QED
  BY <1>2, <1>3, Z3

\* Every step keeps the invariant.
LEMMA SumStep == ChecksumAssumption /\ SumInv /\ [Next]_vars => SumInv'
<1> SUFFICES ASSUME ChecksumAssumption, SumInv, [Next]_vars PROVE SumInv'
  BY SMT
<1> USE DEF SumInv, HeaderAcceptedUnlessCarry, Accepted
<1>1. ASSUME NEW n \in IpLens, NEW l \in Hosts, NEW r \in Hosts, StartSend(n, l, r)
      PROVE  SumInv'
  <2>1. n \in Word /\ l \in Word \X Word /\ r \in Word \X Word
    BY SMT DEF ChecksumAssumption
  <2>2. ip_hdr' \in Headers /\ ip_hdr'.check = 0
    BY <1>1, <2>1, HeaderWords, SMT DEF StartSend
  <2>3. Total(ip_hdr') \in Nat
    BY <2>2, TotalNat, SMT
  <2> QED
    BY <1>1, <2>2, <2>3, SMT DEF StartSend
<1>2. CASE FoldOnce
  <2>1. chksum' \in Nat
    BY <1>2, SMT DEF FoldOnce
  <2>2. Total(ip_hdr') = Total(ip_hdr)
    BY <1>2, SMT DEF FoldOnce
  <2> QED
    BY <1>2, <2>1, <2>2, SMT DEF FoldOnce
<1>3. CASE Send
  <2>1. FoldedAgain \in Word
    <3>1. FoldedAgain \in Int /\ 0 <= FoldedAgain /\ FoldedAgain <= 65535
      BY SMT DEF FoldedAgain
    <3> QED
      BY <3>1, IntWord, SMT
  <2>2. ip_hdr' \in Headers
    <3>1. 65535 - FoldedAgain \in Word
      BY <2>1, IntWord, WordInt, SMT
    <3> QED
      BY <1>3, <3>1, SMT DEF Send, Headers
  <2>3. ASSUME chksum < 65536 PROVE Total(ip_hdr') % 65535 = 0
    <3>1. FoldedAgain = chksum
      BY <2>3, SMT DEF FoldedAgain
    <3>2. Total(ip_hdr') = Total(ip_hdr) + (65535 - chksum)
      <4>1. /\ ip_hdr.version \in Int /\ ip_hdr.length \in Int /\ ip_hdr.id \in Int
            /\ ip_hdr.fragment \in Int /\ ip_hdr.ttl \in Int /\ ip_hdr.check \in Int
            /\ ip_hdr.src1 \in Int /\ ip_hdr.src2 \in Int
            /\ ip_hdr.dst1 \in Int /\ ip_hdr.dst2 \in Int
        BY IntWord, WordInt, SMT DEF Headers
      <4>2. ip_hdr' = [ip_hdr EXCEPT !.check = 65535 - chksum] /\ ip_hdr.check = 0
        BY <1>3, <3>1, SMT DEF Send
      <4>3. ip_hdr'.check = 65535 - chksum
        BY <4>2, SMT DEF Headers
      <4>4. /\ ip_hdr'.version = ip_hdr.version /\ ip_hdr'.length = ip_hdr.length
            /\ ip_hdr'.id = ip_hdr.id /\ ip_hdr'.fragment = ip_hdr.fragment
            /\ ip_hdr'.ttl = ip_hdr.ttl /\ ip_hdr'.src1 = ip_hdr.src1
            /\ ip_hdr'.src2 = ip_hdr.src2 /\ ip_hdr'.dst1 = ip_hdr.dst1
            /\ ip_hdr'.dst2 = ip_hdr.dst2
        BY <4>2, SMT DEF Headers
      <4> QED
        BY <4>1, <4>2, <4>3, <4>4, SMT DEF Total
    <3>3. chksum = (Total(ip_hdr) % 65536) + (Total(ip_hdr) \div 65536)
      BY <1>3, SMT DEF Send
    <3> QED
      BY <3>2, <3>3, TotalNat, FoldComplement, SMT
  <2> QED
    BY <1>3, <2>2, <2>3, SMT DEF Send
<1>4. CASE UNCHANGED vars
  BY <1>4, SMT DEF vars, Total
<1> QED
  BY <1>1, <1>2, <1>3, <1>4, SMT DEF Next

\* Whatever the addresses and the length, the header is accepted unless the sum still
\* has a carry after the first fold (eth.c:293-298).
THEOREM ChecksumRight ==
  ASSUME ChecksumAssumption PROVE Spec => []HeaderAcceptedUnlessCarry
<1>1. Init => SumInv
  <2>1. 0 \in Word /\ <<0, 0>> \in Word \X Word
    BY IntWord, WordInt, SMT
  <2> QED
    BY <2>1, HeaderWords, SMT DEF Init, SumInv, HeaderAcceptedUnlessCarry
<1>2. SumInv => HeaderAcceptedUnlessCarry
  BY SMT DEF SumInv
<1>3. SumInv /\ [Next]_vars => SumInv'
  BY SumStep
<1> QED
  BY <1>1, <1>2, <1>3, PTL DEF Spec
===============================================================================

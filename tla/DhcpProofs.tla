------------------------------ MODULE DhcpProofs ------------------------------
(***************************************************************************)
(* What Dhcp guarantees for any servers and addresses and any number of    *)
(* polls, changed offers, restarts and neighbours: types, and that the     *)
(* program uses no address that was not acknowledged by a server.          *)
(***************************************************************************)
EXTENDS Dhcp, TLAPS

\* Somebody was promised the address: the program, or another client.
Promised(s, a) == <<s, a>> \in leases \/ a \in foreign

\* Every ACK under way, however old, was preceded by the commitment it reports.
AcksBacked == \A m \in down : m.type = "ack" => Promised(m.from, m.ip)

\* The program has its address from such an ACK.
Bound == pc = "iprecv" => \E s \in Servers : Promised(s, local_ip)

\* A poll is one of those of its round.
InRound == pc = "poll" => i < Polls

IInv == TypeOK /\ InRound /\ AcksBacked /\ Bound

-------------------------------------------------------------------------------
\* The invariant holds at the start.
LEMMA InitInv == Init => IInv
<1> SUFFICES ASSUME Init PROVE IInv
  OBVIOUS
<1>1. TypeOK
  <2>1. /\ 0 \in 0 .. Polls /\ 0 \in 0 .. MaxChanges /\ 0 \in 0 .. MaxForeign
        /\ 0 \in 0 .. MaxReboots
    BY DhcpAssumption
  <2>. QED
    BY <2>1 DEF Init, TypeOK
<1>2. InRound /\ AcksBacked /\ Bound
  BY DEF Init, InRound, AcksBacked, Bound
<1>. QED
  BY <1>1, <1>2 DEF IInv

\* The count of polls stays in its range.
LEMMA PollCount ==
  ASSUME TypeOK, InRound, pc = "poll", PollAgain
  PROVE  i' \in 0 .. Polls /\ pc' \in {"discover", "poll"} /\ InRound'
<1>1. i \in Nat /\ Polls \in Nat /\ i < Polls
  BY DhcpAssumption DEF TypeOK, InRound
<1>2. i' = i + 1 /\ pc' = IF i + 1 < Polls THEN "poll" ELSE "discover"
  BY DEF PollAgain
<1>. QED
  BY <1>1, <1>2 DEF InRound

\* A poll that takes an OFFER, something else, or nothing.
LEMMA PollInv ==
  ASSUME IInv,
         \/ PollNothing
         \/ \E m \in Downs : PollIgnores(m) \/ \E reaches \in BOOLEAN : PollOffer(m, reaches)
  PROVE  IInv'
<1>1. /\ pc = "poll" /\ PollAgain /\ down' \subseteq down
      /\ UNCHANGED <<local_ip, server, reboots>>
  BY DEF PollNothing, PollIgnores, PollOffer
<1>2. /\ offered' \in BOOLEAN /\ assigned_ip' \in Addrs \cup {None} /\ up' \subseteq Ups
  <2>1. CASE UNCHANGED <<offered, assigned_ip, up>>
    BY <2>1 DEF IInv, TypeOK
  <2>2. CASE \E m \in Downs, reaches \in BOOLEAN : PollOffer(m, reaches)
    <3>1. PICK m \in Downs, reaches \in BOOLEAN : PollOffer(m, reaches)
      BY <2>2
    <3>2. m.from \in Servers /\ m.ip \in Addrs
      BY DEF Downs
    <3>3. RequestFor(m) \in Ups
      BY <3>2 DEF RequestFor, Ups
    <3>. QED
      BY <3>1, <3>2, <3>3 DEF PollOffer, IInv, TypeOK
  <2>. QED
    BY <2>1, <2>2 DEF PollNothing, PollIgnores
<1>3. i' \in 0 .. Polls /\ pc' \in {"discover", "poll"} /\ InRound'
  BY <1>1, PollCount DEF IInv
<1>4. TypeOK'
  BY <1>1, <1>2, <1>3 DEF IInv, TypeOK, server
<1>5. AcksBacked'
  BY <1>1 DEF IInv, AcksBacked, Promised, server
<1>6. Bound'
  BY <1>3 DEF Bound
<1>. QED
  BY <1>3, <1>4, <1>5, <1>6 DEF IInv

\* The start of a round, and a restart.
LEMMA RoundInv ==
  ASSUME IInv, Reboot \/ \E reached \in SUBSET Servers : Discover(reached)
  PROVE  IInv'
<1>1. /\ i' = 0 /\ pc' \in {"poll", "discover"} /\ down' \subseteq down
      /\ assigned_ip' = None /\ local_ip' \in {None, local_ip} /\ UNCHANGED server
      /\ offered' \in BOOLEAN
  BY DEF Reboot, Discover, Forgets
<1>2. up' \subseteq Ups
  <2>1. CASE Reboot
    BY <2>1 DEF Reboot, IInv, TypeOK
  <2>2. CASE \E reached \in SUBSET Servers : Discover(reached)
    <3>1. \A s \in Servers : [type |-> "discover", to |-> s, ip |-> None] \in Ups
      BY DEF Ups
    <3>. QED
      BY <2>2, <3>1 DEF Discover, IInv, TypeOK
  <2>. QED
    BY <2>1, <2>2
<1>3. reboots' \in 0 .. MaxReboots
  BY DhcpAssumption DEF Reboot, Discover, IInv, TypeOK
<1>4. 0 \in 0 .. Polls /\ 0 < Polls
  BY DhcpAssumption
<1>5. TypeOK'
  BY <1>1, <1>2, <1>3, <1>4 DEF IInv, TypeOK, server
<1>6. AcksBacked' /\ Bound' /\ InRound'
  BY <1>1, <1>4 DEF IInv, AcksBacked, Promised, Bound, InRound, server
<1>. QED
  BY <1>5, <1>6 DEF IInv

\* The ACK that gives the program its address.
LEMMA AckInv ==
  ASSUME IInv, NEW m \in Downs, PollAck(m)
  PROVE  IInv'
<1>1. /\ m \in down /\ m.type = "ack" /\ local_ip' = m.ip /\ pc' = "iprecv"
      /\ down' \subseteq down
      /\ UNCHANGED <<i, offered, assigned_ip, up, server, reboots>>
  BY DEF PollAck, Grants
<1>2. m.from \in Servers /\ m.ip \in Addrs
  BY DEF Downs
<1>3. TypeOK'
  BY <1>1, <1>2 DEF IInv, TypeOK, server
<1>4. AcksBacked' /\ InRound'
  BY <1>1 DEF IInv, AcksBacked, Promised, InRound, server
<1>5. Bound'
  BY <1>1, <1>2 DEF IInv, AcksBacked, Bound, Promised, server
<1>. QED
  BY <1>3, <1>4, <1>5 DEF IInv

-------------------------------------------------------------------------------
(* The servers *)

\* An answer is a packet for the program, and no ACK but the one answered.
LEMMA AnswerAdds ==
  ASSUME NEW s \in Servers, NEW t \in {"offer", "ack", "nak"}, NEW a \in Addrs,
         NEW reaches \in BOOLEAN, Answer(s, t, a, reaches), TypeOK
  PROVE  /\ down' \subseteq Downs
         /\ \A m \in down' : m \in down \/ (m.type = t /\ m.from = s /\ m.ip = a)
<1>1. [type |-> t, from |-> s, ip |-> a] \in Downs
  BY DEF Downs
<1>. QED
  BY <1>1 DEF Answer, TypeOK

\* A server that answers, whatever it answers.
LEMMA AnswerInv ==
  ASSUME IInv, NEW s \in Servers, NEW reaches \in BOOLEAN,
         ServerOffers(s, reaches) \/ ServerRefuses(s, reaches)
  PROVE  IInv'
<1>1. UNCHANGED <<client, server, reboots>> /\ up' \subseteq up
  BY DEF ServerOffers, ServerRefuses
<1>2. /\ down' \subseteq Downs
      /\ \A m \in down' : m \in down \/ m.type # "ack"
  <2>1. CASE ServerOffers(s, reaches)
    <3>1. offer[s] \in Addrs /\ TypeOK
      BY DEF IInv, TypeOK
    <3>. QED
      BY <2>1, <3>1, AnswerAdds DEF ServerOffers
  <2>2. CASE ServerRefuses(s, reaches)
    <3>1. PICK m \in up : m.ip \in Addrs /\ Answer(s, "nak", m.ip, reaches)
      BY <2>2 DEF ServerRefuses
    <3>. QED
      BY <3>1, AnswerAdds DEF IInv
  <2>. QED
    BY <2>1, <2>2
<1>3. TypeOK'
  BY <1>1, <1>2 DEF IInv, TypeOK, client, server
<1>4. AcksBacked' /\ Bound' /\ InRound'
  BY <1>1, <1>2 DEF IInv, AcksBacked, Promised, Bound, InRound, client, server
<1>. QED
  BY <1>3, <1>4 DEF IInv

\* The commitment comes before the ACK.
LEMMA CommitInv ==
  ASSUME IInv, NEW s \in Servers, NEW reaches \in BOOLEAN, ServerCommits(s, reaches)
  PROVE  IInv'
<1>1. /\ leases' = leases \cup {<<s, offer[s]>>} /\ up' \subseteq up
      /\ Answer(s, "ack", offer[s], reaches)
      /\ UNCHANGED <<client, offer, foreign, changes, strays, reboots>>
  BY DEF ServerCommits
<1>2. offer[s] \in Addrs /\ TypeOK
  BY DEF IInv, TypeOK
<1>3. /\ down' \subseteq Downs
      /\ \A m \in down' : m \in down \/ (m.from = s /\ m.ip = offer[s])
  BY <1>1, <1>2, AnswerAdds
<1>4. TypeOK'
  BY <1>1, <1>2, <1>3 DEF TypeOK, client
<1>5. \A q \in Servers, a \in Addrs : Promised(q, a) => Promised(q, a)'
  BY <1>1 DEF Promised
<1>6. AcksBacked'
  <2>1. Promised(s, offer[s])'
    BY <1>1 DEF Promised
  <2>2. \A m \in down : m.from \in Servers /\ m.ip \in Addrs
    BY <1>2 DEF TypeOK, Downs
  <2>3. ASSUME NEW m \in down', m.type = "ack"
        PROVE  Promised(m.from, m.ip)'
    <3>1. CASE m \in down
      BY <1>5, <2>2, <2>3, <3>1 DEF IInv, AcksBacked
    <3>2. CASE m.from = s /\ m.ip = offer[s]
      BY <1>1, <3>2 DEF Promised
    <3>. QED
      BY <1>3, <3>1, <3>2
  <2>. QED
    BY <2>3 DEF AcksBacked
<1>7. Bound' /\ InRound'
  BY <1>1 DEF IInv, Bound, Promised, InRound, client
<1>. QED
  BY <1>4, <1>6, <1>7 DEF IInv

\* A server that changes its offer, and one that serves another client.
LEMMA OthersInv ==
  ASSUME IInv, NEW s \in Servers, ServerChanges(s) \/ ForeignAnswer(s)
  PROVE  IInv'
<1>1. CASE ServerChanges(s)
  <2>1. /\ UNCHANGED <<client, up, down, leases, foreign, strays, reboots>>
        /\ changes < MaxChanges /\ changes' = changes + 1
        /\ \E a \in Addrs : offer' = [offer EXCEPT ![s] = a]
    BY <1>1 DEF ServerChanges
  <2>2. changes' \in 0 .. MaxChanges
    BY <2>1, DhcpAssumption DEF IInv, TypeOK
  <2>3. TypeOK'
    BY <2>1, <2>2 DEF IInv, TypeOK, client
  <2>4. AcksBacked' /\ Bound' /\ InRound'
    BY <2>1 DEF IInv, AcksBacked, Promised, Bound, InRound, client
  <2>. QED
    BY <2>3, <2>4 DEF IInv
<1>2. CASE ForeignAnswer(s)
  <2>1. PICK a \in Addrs, t \in {"offer", "ack"} :
          /\ foreign' = IF t = "ack" THEN foreign \cup {a} ELSE foreign
          /\ Answer(s, t, a, TRUE)
    BY <1>2 DEF ForeignAnswer
  <2>2. /\ strays < MaxForeign /\ strays' = strays + 1
        /\ UNCHANGED <<client, up, offer, leases, changes, reboots>>
    BY <1>2 DEF ForeignAnswer
  <2>3. strays' \in 0 .. MaxForeign /\ MaxForeign # 0
    BY <2>2, DhcpAssumption DEF IInv, TypeOK
  <2>4. /\ down' \subseteq Downs
        /\ \A m \in down' : m \in down \/ (m.type = t /\ m.from = s /\ m.ip = a)
    <3>1. down' = down \cup {[type |-> t, from |-> s, ip |-> a]}
      BY <2>1 DEF Answer
    <3>2. [type |-> t, from |-> s, ip |-> a] \in Downs
      BY DEF Downs
    <3>. QED
      BY <3>1, <3>2 DEF IInv, TypeOK
  <2>5. foreign' \subseteq Addrs /\ foreign \subseteq foreign' /\ (t = "ack" => a \in foreign')
    BY <2>1 DEF IInv, TypeOK
  <2>6. TypeOK'
    BY <2>2, <2>3, <2>4, <2>5 DEF IInv, TypeOK, client
  <2>7. AcksBacked'
    BY <2>2, <2>4, <2>5 DEF IInv, AcksBacked, Promised
  <2>8. Bound' /\ InRound'
    BY <2>2, <2>3, <2>5 DEF IInv, Bound, Promised, InRound, client
  <2>. QED
    BY <2>6, <2>7, <2>8 DEF IInv
<1>. QED
  BY <1>1, <1>2

-------------------------------------------------------------------------------
(* The theorems *)

\* Every step keeps the invariant.
LEMMA NextInv == IInv /\ [Next]_vars => IInv'
<1> SUFFICES ASSUME IInv, [Next]_vars PROVE IInv'
  OBVIOUS
<1>1. CASE UNCHANGED vars
  BY <1>1 DEF vars, client, server, IInv, TypeOK, InRound, AcksBacked, Bound,
              Promised
<1>2. CASE Reboot \/ \E reached \in SUBSET Servers : Discover(reached)
  BY <1>2, RoundInv
<1>3. CASE \/ PollNothing
           \/ \E m \in Downs : PollIgnores(m) \/ \E reaches \in BOOLEAN : PollOffer(m, reaches)
  BY <1>3, PollInv
<1>4. CASE \E m \in Downs : PollAck(m)
  BY <1>4, AckInv
<1>5. CASE \E s \in Servers, reaches \in BOOLEAN :
             ServerOffers(s, reaches) \/ ServerRefuses(s, reaches)
  BY <1>5, AnswerInv
<1>6. CASE \E s \in Servers, reaches \in BOOLEAN : ServerCommits(s, reaches)
  BY <1>6, CommitInv
<1>7. CASE \E s \in Servers : ServerChanges(s) \/ ForeignAnswer(s)
  BY <1>7, OthersInv
<1>. QED
  BY <1>1, <1>2, <1>3, <1>4, <1>5, <1>6, <1>7 DEF Next, Program, Network

\* The invariant holds in every reachable state.
THEOREM Invariant == Spec => []IInv
<1>. QED
  BY InitInv, NextInv, PTL DEF Spec

\* Every variable keeps its type: a REQUEST always carries an address, and the polls of
\* a round are counted up to their limit.
THEOREM TypeCorrect == Spec => []TypeOK
<1>1. IInv => TypeOK
  BY DEF IInv
<1>. QED
  BY <1>1, Invariant, PTL

\* dhcp_poll compares no transaction id; still the address the program uses was
\* acknowledged by a server, to the program or to another client.
THEOREM AddressPromised == Spec => []GrantedToSomebody
<1>1. IInv => GrantedToSomebody
  BY DEF IInv, Bound, Promised, GrantedToSomebody
<1>. QED
  BY <1>1, Invariant, PTL

\* Unless another client's ACK was broadcast, it was acknowledged to the program, though
\* the ACK may belong to an earlier round or to the time before a restart.
THEOREM AddressGranted == Spec => []Granted
<1>1. IInv => Granted
  BY DEF IInv, Bound, Promised, Granted
<1>. QED
  BY <1>1, Invariant, PTL
===============================================================================

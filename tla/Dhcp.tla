--------------------------------- MODULE Dhcp ---------------------------------
(***************************************************************************)
(* How the program obtains its address: send_dhcp_discover, dhcp_poll and  *)
(* the loop at the beginning of start, against any number of servers.      *)
(*                                                                         *)
(* All packets carry the same transaction id and dhcp_poll looks at none,  *)
(* nor at the hardware address or at what it sent itself: it takes the     *)
(* first OFFER of a round, and any ACK.  Datagrams may be lost, delayed    *)
(* beyond the round or a restart of the machine, and reordered, and other  *)
(* clients' answers may be broadcast on the same network.                  *)
(***************************************************************************)
EXTENDS Naturals

CONSTANTS
  Servers,       \* the DHCP servers
  Addrs,         \* the addresses they have
  None,          \* 0.0.0.0
  Polls,         \* calls of dhcp_poll in a round: PIT_MSC(5000)
  MaxChanges,    \* bound: how often servers change their offer
  MaxForeign,    \* bound: answers to other clients that are broadcast
  MaxReboots     \* bound: restarts of the machine

ASSUME DhcpAssumption ==
  /\ None \notin Addrs
  /\ Polls \in Nat \ {0}
  /\ MaxChanges \in Nat /\ MaxForeign \in Nat /\ MaxReboots \in Nat

VARIABLES
  (* the program *)
  pc,            \* "discover", "poll" or "iprecv"
  i,             \* polls done in this round
  offered, assigned_ip, local_ip,
  (* the network and the servers *)
  up,            \* datagrams on their way to a server
  down,          \* datagrams on their way to the program, or in its receive ring
  offer,         \* what each server holds for the program, or None
  leases,        \* <<server, address>> acknowledged to the program
  foreign,       \* addresses acknowledged to other clients
  changes, strays, reboots

client == <<pc, i, offered, assigned_ip, local_ip>>
server == <<offer, leases, foreign, changes, strays>>
vars == <<client, up, down, server, reboots>>

\* What the servers see of a packet, and what dhcp_poll sees of one.
Ups == [type : {"discover"}, to : Servers, ip : {None}]
         \cup [type : {"request"}, to : Servers, ip : Addrs]
Downs == [type : {"offer", "ack", "nak"}, from : Servers, ip : Addrs]

-------------------------------------------------------------------------------
Init ==
  /\ pc = "discover" /\ i = 0
  /\ offered = FALSE /\ assigned_ip = None /\ local_ip = None
  /\ up = {} /\ down = {}
  /\ offer \in [Servers -> Addrs] /\ leases = {} /\ foreign = {}
  /\ changes = 0 /\ strays = 0 /\ reboots = 0

\* Mutant: a new round does not forget that the last one had an offer.
ForgetsNot == offered

\* offered at the beginning of a round.
Forgets == FALSE

\* send_dhcp_discover: DISCOVER is broadcast and reaches some of the servers.
Discover(reached) ==
  /\ pc = "discover"
  /\ offered' = Forgets /\ assigned_ip' = None
  /\ up' = up \cup {[type |-> "discover", to |-> s, ip |-> None] : s \in reached}
  /\ i' = 0 /\ pc' = "poll"
  /\ UNCHANGED <<local_ip, down, server, reboots>>

\* dhcp_poll returned false: delay_spin and the end of the for loop.
PollAgain ==
  /\ i' = i + 1
  /\ pc' = IF i + 1 < Polls THEN "poll" ELSE "discover"

\* dhcp_poll: nothing for port 68 has arrived.
PollNothing ==
  /\ pc = "poll"
  /\ PollAgain
  /\ UNCHANGED <<offered, assigned_ip, local_ip, up, down, server, reboots>>

\* The REQUEST for an offer: it names the server and, in ciaddr, the address.
RequestFor(m) == [type |-> "request", to |-> m.from, ip |-> m.ip]

\* dhcp_poll: the first OFFER of the round; the REQUEST may get lost.
PollOffer(m, reaches) ==
  /\ pc = "poll" /\ m \in down /\ down' = down \ {m}
  /\ m.type = "offer" /\ ~offered
  /\ offered' = TRUE /\ assigned_ip' = m.ip
  /\ up' = IF reaches THEN up \cup {RequestFor(m)} ELSE up
  /\ PollAgain
  /\ UNCHANGED <<local_ip, server, reboots>>

\* Mutant: an offer is as good as an ACK.
GrantsOffer(m) == m.type \in {"offer", "ack"}

Grants(m) == m.type = "ack"

\* dhcp_poll: an ACK, whoever asked for it; start goes on to iprecv.
PollAck(m) ==
  /\ pc = "poll" /\ m \in down /\ down' = down \ {m}
  /\ Grants(m)
  /\ local_ip' = m.ip /\ pc' = "iprecv"
  /\ UNCHANGED <<i, offered, assigned_ip, up, server, reboots>>

\* dhcp_poll: any other packet.
PollIgnores(m) ==
  /\ pc = "poll" /\ m \in down /\ down' = down \ {m}
  /\ ~Grants(m) /\ (m.type = "offer" => offered)
  /\ PollAgain
  /\ UNCHANGED <<offered, assigned_ip, local_ip, up, server, reboots>>

Program ==
  \/ \E reached \in SUBSET Servers : Discover(reached)
  \/ PollNothing
  \/ \E m \in Downs : \/ \E reaches \in BOOLEAN : PollOffer(m, reaches)
                      \/ PollAck(m)
                      \/ PollIgnores(m)

\* The machine starts again; what is in the receive ring is lost, the rest is not.
Reboot ==
  /\ reboots < MaxReboots /\ reboots' = reboots + 1
  /\ pc' = "discover" /\ i' = 0
  /\ offered' = FALSE /\ assigned_ip' = None /\ local_ip' = None
  /\ down' \in SUBSET down
  /\ UNCHANGED <<up, server>>

-------------------------------------------------------------------------------
(* The servers and the network *)

\* Bound: what the servers do once nothing brings the program back is left out.
Watched == pc # "iprecv" \/ reboots < MaxReboots

\* An answer, which may get lost.
Answer(s, t, ip, reaches) ==
  down' = IF reaches THEN down \cup {[type |-> t, from |-> s, ip |-> ip]} ELSE down

ServerOffers(s, reaches) ==
  /\ Watched
  /\ \E m \in up : m.type = "discover" /\ m.to = s /\ up' = up \ {m}
  /\ Answer(s, "offer", offer[s], reaches)
  /\ UNCHANGED <<client, server, reboots>>

\* The server commits the address it holds.
ServerCommits(s, reaches) ==
  /\ Watched
  /\ \E m \in up : m.type = "request" /\ m.to = s /\ m.ip = offer[s] /\ up' = up \ {m}
  /\ leases' = leases \cup {<<s, offer[s]>>}
  /\ Answer(s, "ack", offer[s], reaches)
  /\ UNCHANGED <<client, offer, foreign, changes, strays, reboots>>

\* The server refuses any other.
ServerRefuses(s, reaches) ==
  /\ Watched
  /\ \E m \in up :
       /\ m.type = "request" /\ m.to = s /\ m.ip # offer[s] /\ up' = up \ {m}
       /\ m.ip \in Addrs /\ Answer(s, "nak", m.ip, reaches)
  /\ UNCHANGED <<client, server, reboots>>

\* An offer that was not accepted expires; the next one is another.
ServerChanges(s) ==
  /\ Watched /\ changes < MaxChanges /\ changes' = changes + 1
  /\ \A l \in leases : l[1] # s
  /\ \E a \in Addrs : a # offer[s] /\ offer' = [offer EXCEPT ![s] = a]
  /\ UNCHANGED <<client, up, down, leases, foreign, strays, reboots>>

\* A server broadcasts its answer to another client.
ForeignAnswer(s) ==
  /\ Watched /\ strays < MaxForeign /\ strays' = strays + 1
  /\ \E a \in Addrs, t \in {"offer", "ack"} :
       /\ a # offer[s] /\ a \notin foreign
       /\ foreign' = IF t = "ack" THEN foreign \cup {a} ELSE foreign
       /\ Answer(s, t, a, TRUE)
  /\ UNCHANGED <<client, up, offer, leases, changes, reboots>>

Network ==
  \E s \in Servers :
    \/ \E reaches \in BOOLEAN :
         ServerOffers(s, reaches) \/ ServerCommits(s, reaches) \/ ServerRefuses(s, reaches)
    \/ ServerChanges(s) \/ ForeignAnswer(s)

Next == Program \/ Reboot \/ Network

Spec == Init /\ [][Next]_vars

\* The loop of start runs; of the packets it sends and causes again and again, each
\* kind gets through in the end, to or from some server.
Fairness ==
  /\ WF_vars(Program)
  /\ SF_vars(\E reached \in SUBSET Servers \ {{}} : Discover(reached))
  /\ SF_vars(\E s \in Servers : ServerOffers(s, TRUE))
  /\ SF_vars(\E m \in Downs : PollOffer(m, TRUE))
  /\ SF_vars(\E s \in Servers : ServerCommits(s, TRUE))
  /\ SF_vars(\E m \in Downs : PollAck(m))

FairSpec == Spec /\ Fairness

-------------------------------------------------------------------------------
(* Properties *)

TypeOK ==
  /\ pc \in {"discover", "poll", "iprecv"} /\ i \in 0 .. Polls
  /\ offered \in BOOLEAN
  /\ assigned_ip \in Addrs \cup {None} /\ local_ip \in Addrs \cup {None}
  /\ up \subseteq Ups /\ down \subseteq Downs
  /\ offer \in [Servers -> Addrs]
  /\ leases \subseteq Servers \X Addrs /\ foreign \subseteq Addrs
  /\ changes \in 0 .. MaxChanges /\ strays \in 0 .. MaxForeign
  /\ reboots \in 0 .. MaxReboots

\* Unless another client's ACK was broadcast, the address the program uses was committed
\* to it by a server, whatever was late, lost or left over from before a restart.
Granted ==
  pc = "iprecv" /\ foreign = {} => \E s \in Servers : <<s, local_ip>> \in leases

\* If one was, the address was at least committed to somebody: dhcp_poll's missing
\* comparison of the transaction id costs no more than that.
GrantedToSomebody ==
  pc = "iprecv" => (\E s \in Servers : <<s, local_ip>> \in leases) \/ local_ip \in foreign

\* The retries of start end with an address, though servers compete, one changes its offer
\* and refuses the REQUEST for the old one, and packets of the round are lost or come in the
\* next one.
ObtainsAddress == pc # "iprecv" ~> pc = "iprecv"
===============================================================================

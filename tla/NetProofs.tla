------------------------------- MODULE NetProofs -------------------------------
(***************************************************************************)
(* The network stack, for any number of stations and servers, any leases,  *)
(* and any frames of other machines: the interface (InterfaceCorrect), the *)
(* ways of packets (PathsCorrect), and that a machine with one server and  *)
(* a calm link never stops (AloneCorrect).                                 *)
(*                                                                         *)
(* The invariant says of every frame on its way, in both directions, what  *)
(* it is and who made it (ToHostSound, FromHostSound), since a lost, late  *)
(* or repeated frame is taken in whatever state the machine is in by then. *)
(* From it follows what the DHCP client (ConfigSound), the table of        *)
(* hardware addresses (ArpSound, Announced) and the sockets (SocketSound)  *)
(* can hold.  On a calm link at most one frame of DHCP is on its way, and  *)
(* it is the one the client waits for (OneMessage).                        *)
(***************************************************************************)
EXTENDS Net, NaturalsInduction, WellFoundedInduction, FiniteSetTheorems, TLAPS

-------------------------------------------------------------------------------
(* The inductive invariant.                                                *)

OnTheLink == {StationAddr[t] : t \in Stations}
Configs == [addr : SUBSET Bits, netmask : SUBSET Bits, gateway : SUBSET Bits]

Faults == [loss : Nat, dup : Nat, early : Nat, quit : Nat, noise : Nat,
           bad : Nat, odd : Nat, replace : Nat]

Discovery == pc \in {"dhcp_top", "dhcp_rx"}
Transfer == pc \in {"op_top", "op_rx", "op_tick"}

\* The types of what the parts below read.
Typed ==
    /\ pc \in {"dhcp_top", "dhcp_rx", "idle", "op_top", "op_rx", "op_tick", "stopped", "hung"}
    /\ (failed = "no") <=> (pc \notin {"stopped", "hung"})
    /\ left \in 0 .. MaxPackets
    /\ config \in Configs
    /\ dhcp \in [state : {"wait_for_offer", "wait_for_ack", "finished"}, config : Configs]
    /\ DOMAIN arp \subseteq SUBSET Bits
    /\ op \in [port : Nat, answered : BOOLEAN, count : Nat]
    /\ faults \in Faults
    /\ servers \subseteq Servers
    /\ DOMAIN station = Stations
    /\ \A s \in Stations : station[s] \in {<<s, 1>>, <<s, 2>>}
    /\ IsABag(toHost) /\ IsABag(fromHost)

\* Frames of the DHCP protocol.
Discover == Ipv4(mac_broadcast, "udp", inaddr_any, inaddr_broadcast,
                 Udp(dhcp_src_port, 67, Dhcp("discover", inaddr_any, inaddr_any, <<>>)))
Request(addr, server) == Ipv4(mac_broadcast, "udp", inaddr_any, inaddr_broadcast,
                 Udp(dhcp_src_port, 67, Dhcp("request", addr, server, <<>>)))
Reply(s, message, addr, options) == Ipv4(mac_broadcast, "udp", StationAddr[s], inaddr_broadcast,
                 Udp(67, dhcp_src_port, Dhcp(message, addr, StationAddr[s], options)))

\* An ARP frame says what is so: the sender is the station with the address,
\* or answers for an address of nobody.
Truthful(f) ==
    /\ f.type = "arp" /\ f.spa \in SUBSET Bits
    /\ \E s \in Stations : /\ f.sha = station[s]
                           /\ f.spa = StationAddr[s] \/ f.spa \notin OnTheLink

OfNoise(f) == f \in Noise /\ f.type # "arp"

\* What the server of a transfer sends.
Answer(f) == /\ f.type = "ipv4" /\ f.protocol = "udp" /\ f.dst = my_mac
             /\ f.body.dst_port = first_port

Offers(s, f) ==
    LET o == f.body.data.options
    IN  /\ f = Reply(s, "offer", Leases[s].addr, o)
        /\ o \in DhcpOptions
        /\ faults.odd = 0 => o = Leases[s].options

Acknowledges(s, f) ==
    LET o == f.body.data.options
        a == f.body.data.yiaddr
    IN  /\ f = Reply(s, "ack", a, o)
        /\ <<s, a>> \in granted
        /\ faults.odd = 0 => a = Leases[s].addr /\ o = Leases[s].options

DhcpReply(f) ==
    /\ f.type = "ipv4" /\ f.protocol = "udp" /\ f.dst = mac_broadcast
    /\ \E s \in servers : Offers(s, f) \/ Acknowledges(s, f)

FrameSound(f) == Truthful(f) \/ OfNoise(f) \/ Answer(f) \/ DhcpReply(f)

ToHostSound == \A f \in DOMAIN toHost : FrameSound(f)

\* An ARP frame of the machine that a station takes.
Asks(s, f) ==
    /\ f.type = "arp"
    /\ f.tpa \in SUBSET Bits
    /\ f.tpa = StationAddr[s] \/ f.tpa \notin OnTheLink

\* A packet of the machine to one other, as Routed says.
Unicast(s, f) ==
    /\ f.type = "ipv4" /\ f.dst # mac_broadcast
    /\ config.addr # inaddr_any
    /\ f.protocol = "udp" => f.body.src_port = first_port
    /\ faults.odd = 0 => StationAddr[s] = IF f.dstip \in OnTheLink THEN f.dstip ELSE config.gateway

Requests(f) ==
    /\ f = Request(f.body.data.yiaddr, f.body.data.server)
    /\ f.body.data.yiaddr \in Assignable
    /\ faults.odd = 0 => \E t \in servers : f = Request(Leases[t].addr, StationAddr[t])

SentSound(s, f) ==
    /\ s \in Stations
    /\ Asks(s, f) \/ Unicast(s, f) \/ (s \in servers /\ (f = Discover \/ Requests(f)))

FromHostSound == \A sf \in DOMAIN fromHost : sf = <<sf[1], sf[2]>> /\ SentSound(sf[1], sf[2])

\* What the client has been told, and what it takes.
ConfigSound ==
    /\ Discovery => config = ipv4_net_config_none
    /\ config.addr = inaddr_any => config = ipv4_net_config_none /\ DOMAIN arp = {}
    /\ dhcp.state # "wait_for_offer" => dhcp.config.addr \in Assignable
    /\ faults.odd = 0 =>
         /\ dhcp.state = "wait_for_ack" => \E s \in servers : dhcp.config = Lease(s)
         /\ dhcp.state = "finished" =>
              \E s \in servers : dhcp.config = Lease(s) /\ <<s, dhcp.config.addr>> \in granted
         /\ config.addr # inaddr_any =>
              \E s \in servers : config = Lease(s) /\ <<s, config.addr>> \in granted

\* The sockets, and the way of a transfer.
DhcpSockets == <<[addr |-> inaddr_any, port |-> dhcp_src_port, owner |-> "dhcp"]>>
OpSockets(addr) == <<[addr |-> addr, port |-> first_port, owner |-> "op"]>>

SocketSound ==
    /\ Discovery => sockets = DhcpSockets
    /\ pc = "idle" => sockets = <<>>
    /\ Transfer => sockets = OpSockets(config.addr)
    /\ Transfer => op.port = first_port /\ ~NoRoute(tftp_address)
    /\ \A i \in DOMAIN sockets : sockets[i].port \in {dhcp_src_port, first_port} /\ sockets[i].owner \in {"dhcp", "op"}

\* Hardware addresses are of the station that has the address, or of one that
\* answers for it.
ArpSound ==
    \A a \in DOMAIN arp : \E s \in Stations :
        /\ arp[a] \in {<<s, 1>>, <<s, 2>>}
        /\ a = StationAddr[s] \/ a \notin OnTheLink

\* An entry that is not current is about to be corrected.
Announced ==
    faults.loss = 0 /\ failed = "no" =>
      \A s \in Stations : StationAddr[s] \in DOMAIN arp =>
        \/ arp[StationAddr[s]] = station[s]
        \/ \E f \in DOMAIN toHost : f.type = "arp" /\ f.spa = StationAddr[s]

\* The link of AloneNeverStops.
Calm == Cardinality(servers) = 1 /\ faults.dup + faults.early + faults.bad + faults.odd = 0

\* The DHCP frames on their way, in both directions.
Arriving == {f \in DOMAIN toHost : f.type = "ipv4" /\ f.protocol = "udp" /\ f.dst = mac_broadcast}
Leaving == {sf \in DOMAIN fromHost : sf[2].type = "ipv4"}

\* At most one frame is on its way between client and server, once, and it is
\* the one that the client's state calls for.
OneMessage ==
    /\ \A f \in Arriving : toHost[f] = 1 /\ Leaving = {}
    /\ \A f, g \in Arriving : f = g
    /\ \A sf \in Leaving : fromHost[sf] = 1
    /\ \A sf, sg \in Leaving : sf = sg
    /\ dhcp.state = "wait_for_offer" =>
         /\ \A f \in Arriving : f.body.data.message = "offer"
         /\ \A sf \in Leaving : sf[2].body.data.message = "discover"
    /\ dhcp.state = "wait_for_ack" =>
         /\ \A f \in Arriving : f.body.data.message = "ack"
         /\ \A sf \in Leaving : sf[2].body.data.message = "request"

CalmSound ==
    Calm => /\ failed = "no"
            /\ \A f \in DOMAIN toHost : ~FatalHere(f)
            /\ Discovery => OneMessage

IInv == /\ Typed /\ ToHostSound /\ FromHostSound /\ ConfigSound /\ SocketSound
        /\ ArpSound /\ Announced /\ CalmSound

-------------------------------------------------------------------------------
(* Bags of frames.                                                         *)

\* What is put into a bag: the rest is as often there as before.
LEMMA BagAdded ==
    ASSUME NEW B, IsABag(B), NEW S
    PROVE  LET C == B (+) SetToBag(S)
           IN  /\ IsABag(C) /\ DOMAIN C = DOMAIN B \cup S
               /\ \A e \in DOMAIN B \ S : C[e] = B[e]
               /\ \A e \in S \ DOMAIN B : C[e] = 1
BY DEF IsABag, (+), SetToBag

LEMMA OneAdded ==
    ASSUME NEW B, IsABag(B), NEW x, x \notin DOMAIN B
    PROVE  LET C == B (+) SetToBag({x})
           IN  IsABag(C) /\ DOMAIN C = DOMAIN B \cup {x} /\ C[x] = 1
<1> DEFINE C == B (+) SetToBag({x})
<1>1. IsABag(C) /\ DOMAIN C = DOMAIN B \cup {x} /\ \A e \in {x} \ DOMAIN B : C[e] = 1
  BY BagAdded
<1> HIDE DEF C
<1>2. C[x] = 1
  BY <1>1
<1> QED
  BY <1>1, <1>2 DEF C

LEMMA NothingAdded ==
    ASSUME NEW B, IsABag(B)
    PROVE  B (+) SetToBag({}) = B
BY DEF IsABag, (+), SetToBag

\* One copy is taken out of a bag.
LEMMA BagTaken ==
    ASSUME NEW B, IsABag(B), NEW x \in DOMAIN B
    PROVE  LET C == B (-) SetToBag({x})
           IN  /\ IsABag(C) /\ DOMAIN C \subseteq DOMAIN B
               /\ DOMAIN B \ {x} \subseteq DOMAIN C
               /\ B[x] = 1 => x \notin DOMAIN C
               /\ \A e \in DOMAIN C \ {x} : C[e] = B[e]
<1> DEFINE C == B (-) SetToBag({x})
           D == [e \in DOMAIN B |-> IF e \in {x} THEN B[e] - 1 ELSE B[e]]
<1>1. C = [e \in {d \in DOMAIN B : D[d] > 0} |-> D[e]]
  BY DEF (-), SetToBag
<1>2. \A e \in DOMAIN B : B[e] \in Nat /\ B[e] > 0
  BY DEF IsABag
<1>3. DOMAIN C = {d \in DOMAIN B : D[d] > 0} /\ \A e \in DOMAIN C : C[e] = D[e]
  BY <1>1
<1> HIDE DEF C
<1>4. IsABag(C)
  <2>1. C = [e \in DOMAIN C |-> D[e]]
    BY <1>1, <1>3
  <2>2. \A e \in DOMAIN C : D[e] \in {n \in Nat : n > 0}
    BY <1>2, <1>3
  <2> QED
    BY <2>1, <2>2 DEF IsABag
<1>5. DOMAIN C \subseteq DOMAIN B /\ DOMAIN B \ {x} \subseteq DOMAIN C
  BY <1>2, <1>3
<1>6. B[x] = 1 => x \notin DOMAIN C
  BY <1>3
<1>7. \A e \in DOMAIN C \ {x} : C[e] = B[e]
  BY <1>3
<1> QED
  BY <1>4, <1>5, <1>6, <1>7 DEF C

\* A bag with nothing in it is the empty bag.
LEMMA EmptyBagElements == IsABag(EmptyBag) /\ DOMAIN EmptyBag = {}
BY DEF IsABag, EmptyBag, SetToBag

-------------------------------------------------------------------------------
(* Options.                                                                *)

\* A non-empty set of naturals has a least element.
LEMMA LeastElement ==
    ASSUME NEW S \in SUBSET Nat, S # {}
    PROVE  \E m \in S : \A x \in S : m <= x
<1> DEFINE R == OpToRel(<, Nat)
<1>1. IsWellFoundedOn(R, Nat)
  BY NatLessThanWellFounded
<1>2. \A x, y \in Nat : x < y => <<x, y>> \in R
  BY DEF OpToRel
<1> HIDE DEF R
<1>3. PICK m \in S : \A y \in Nat : <<y, m>> \in R => y \notin S
  BY <1>1, WFMin
<1>4. \A x \in S : x \in Nat /\ ~(x < m)
  BY <1>2, <1>3
<1>5. \A x \in S : m <= x
  BY <1>4
<1> QED
  BY <1>5

\* A non-empty set of naturals with an upper bound has a greatest element.
LEMMA GreatestElement ==
    ASSUME NEW b \in Nat, NEW S \in SUBSET (0 .. b), S # {}
    PROVE  \E m \in S : \A x \in S : x <= m
<1> DEFINE T == {b - x : x \in S}
<1>1. T \in SUBSET Nat
  <2>1. \A x \in S : b - x \in Nat
    OBVIOUS
  <2> QED
    BY <2>1
<1>2. PICK t \in T : \A y \in T : t <= y
  BY <1>1, LeastElement, T # {}
<1>3. PICK m \in S : t = b - m
  BY <1>2
<1>4. \A x \in S : b - m <= b - x
  BY <1>2, <1>3
<1>5. \A x \in S : x <= m
  BY <1>4
<1> QED
  BY <1>5

\* The value that the options leave in a field.
LEMMA LastValueTyped ==
    ASSUME NEW o \in DhcpOptions, NEW types
    PROVE  LastValue(o, types) \in SUBSET Bits
<1> DEFINE At == {i \in DOMAIN o : o[i].type \in types}
<1>1. DOMAIN o = 1 .. Len(o) /\ Len(o) \in Nat
  BY DEF DhcpOptions
<1>2. CASE At = {}
  BY <1>2 DEF LastValue, inaddr_any
<1>3. CASE At # {}
  <2>1. At \in SUBSET (0 .. Len(o))
    BY <1>1
  <2>2. \E i \in At : \A j \in At : j <= i
    BY <1>3, <2>1, <1>1, GreatestElement
  <2>3. (CHOOSE i \in At : \A j \in At : j <= i) \in DOMAIN o
    BY <2>2
  <2>4. \A i \in DOMAIN o : o[i].val \in SUBSET Bits
    <3>1. \A i \in DOMAIN o : o[i] \in DhcpOption
      BY <1>1 DEF DhcpOptions
    <3>2. \A x \in DhcpOption : x.val \in SUBSET Bits
      BY DEF DhcpOption
    <3> QED
      BY <3>1, <3>2
  <2>5. LastValue(o, types) = o[CHOOSE i \in At : \A j \in At : j <= i].val
    BY <1>3 DEF LastValue
  <2> QED
    BY <2>3, <2>4, <2>5
<1> QED
  BY <1>2, <1>3

\* What an offer configures.
LEMMA OfferedTyped ==
    ASSUME NEW m, m.options \in DhcpOptions, m.yiaddr \in SUBSET Bits
    PROVE  Offered(m) \in Configs
<1>1. parse_reply(m).netmask \in SUBSET Bits /\ parse_reply(m).router \in SUBSET Bits
  BY LastValueTyped DEF parse_reply
<1> QED
  BY <1>1, NetAssumption DEF Offered, Configs

LEMMA LeaseTyped ==
    ASSUME NEW s \in Servers
    PROVE  /\ Lease(s) \in Configs /\ Lease(s).addr = Leases[s].addr
           /\ Leases[s].addr \in Assignable /\ Leases[s].options \in DhcpOptions
           /\ s \in Stations /\ StationAddr[s] \in Assignable
<1>1. Leases[s].addr \in Assignable /\ Leases[s].options \in DhcpOptions
  BY LeaseAssumption
<1> DEFINE m == Dhcp("offer", Leases[s].addr, StationAddr[s], Leases[s].options)
<1>2. m.options \in DhcpOptions /\ m.yiaddr \in SUBSET Bits /\ m.yiaddr = Leases[s].addr
  BY <1>1 DEF Dhcp, Assignable
<1> HIDE DEF m
<1>3. Offered(m) \in Configs /\ Offered(m).addr = Leases[s].addr
  BY <1>2, OfferedTyped DEF Offered
<1> QED
  BY <1>1, <1>3, NetAssumption DEF Lease, m

\* The other networks' addresses are behind the gateway.
LEMMA Routes ==
    ASSUME NEW s \in Servers
    PROVE  LET c == Lease(s)
               Within(a) == a \cap c.netmask = c.addr \cap c.netmask
           IN  /\ c.gateway \in OnTheLink \cup {inaddr_any}
               /\ \A a \in Contacts(c.addr) : Within(a) <=> a \in OnTheLink
               /\ Within(tftp_server(c.addr)) \/ c.gateway # inaddr_any
BY RouteAssumption DEF OnTheLink

-------------------------------------------------------------------------------
(* Frames.                                                                 *)

LEMMA MacsDiffer ==
    /\ my_mac # mac_broadcast
    /\ \A s : <<s, 1>> # mac_broadcast /\ <<s, 2>> # mac_broadcast
           /\ <<s, 1>> # my_mac /\ <<s, 2>> # my_mac
BY DEF my_mac, mac_broadcast

\* A hardware address has one owner at most.
LEMMA OneOwner ==
    ASSUME Typed, NEW s \in Stations, NEW t \in Owners(<<s, 1>>) \cup Owners(<<s, 2>>)
    PROVE  t = s
BY DEF Typed, Owners

LEMMA NextHopTyped ==
    ASSUME Typed, NEW dst \in SUBSET Bits
    PROVE  NextHop(dst) \in SUBSET Bits
<1>1. config \in Configs
  BY DEF Typed
<1>2. \A c \in Configs : c.gateway \in SUBSET Bits
  BY DEF Configs
<1> QED
  BY <1>1, <1>2 DEF NextHop

\* A packet of the machine, or the ARP request sent in its place.
LEMMA OutSound ==
    ASSUME Typed, ArpSound, ConfigSound,
           NEW protocol, NEW src, NEW dst \in Assignable, NEW body,
           protocol = "udp" => body.src_port = first_port,
           config.addr # inaddr_any /\ faults.odd = 0
             => dst \in Contacts(config.addr) /\ ~NoRoute(dst),
           NEW s \in Takers(ipv4_out(protocol, src, dst, body))
    PROVE  LET f == ipv4_out(protocol, src, dst, body)
           IN  s \in Stations /\ (Asks(s, f) \/ Unicast(s, f))
<1> DEFINE f == ipv4_out(protocol, src, dst, body)
<1>1. dst # inaddr_broadcast
  BY DEF Assignable
<1>2. NextHop(dst) \in SUBSET Bits
  BY NextHopTyped DEF Assignable
<1>3. CASE NextHop(dst) \notin DOMAIN arp
  <2>1. f = Arp(mac_broadcast, "request", my_mac, config.addr, mac_broadcast, NextHop(dst))
    BY <1>1, <1>3 DEF ipv4_out, send_arp
  <2>2. f.type = "arp" /\ f.oper = "request" /\ f.tpa = NextHop(dst)
    BY <2>1 DEF Arp
  <2>3. s \in Stations /\ (StationAddr[s] = f.tpa \/ f.tpa \notin OnTheLink)
    BY <2>2, NetAssumption DEF Takers, OnTheLink
  <2> QED
    BY <1>2, <2>2, <2>3 DEF Asks
<1>4. CASE NextHop(dst) \in DOMAIN arp
  <2>1. f = Ipv4(arp[NextHop(dst)], protocol, src, dst, body)
    BY <1>1, <1>4 DEF ipv4_out
  <2>2. /\ f.type = "ipv4" /\ f.dst = arp[NextHop(dst)] /\ f.protocol = protocol
        /\ f.dstip = dst /\ f.body = body
    BY <2>1 DEF Ipv4
  <2>3. PICK t \in Stations : /\ f.dst \in {<<t, 1>>, <<t, 2>>}
                              /\ NextHop(dst) = StationAddr[t] \/ NextHop(dst) \notin OnTheLink
    BY <1>4, <2>2 DEF ArpSound
  <2>4. f.dst # mac_broadcast
    BY <2>3, MacsDiffer
  <2>5. s \in Owners(f.dst)
    BY <2>2, <2>4 DEF Takers
  <2>6. s = t
    BY <2>3, <2>5, OneOwner
  <2>7. config.addr # inaddr_any
    BY <1>4 DEF ConfigSound
  <2>8. ASSUME faults.odd = 0
        PROVE  StationAddr[s] = IF dst \in OnTheLink THEN dst ELSE config.gateway
    <3>1. PICK v \in servers : config = Lease(v)
      BY <2>7, <2>8 DEF ConfigSound
    <3>2. v \in Servers /\ dst \in Contacts(Lease(v).addr) /\ ~NoRoute(dst)
      BY <2>7, <2>8, <3>1 DEF Typed
    <3>3. /\ OnLink(dst) <=> dst \in OnTheLink
          /\ config.gateway \in OnTheLink \cup {inaddr_any}
      BY <3>1, <3>2, Routes DEF OnLink
    <3>4. CASE OnLink(dst)
      BY <2>3, <2>6, <3>3, <3>4 DEF NextHop
    <3>5. CASE ~OnLink(dst)
      <4>1. config.gateway # inaddr_any
        BY <1>1, <3>2, <3>5 DEF NoRoute
      <4> QED
        BY <2>3, <2>6, <3>3, <3>5, <4>1 DEF NextHop
    <3> QED
      BY <3>4, <3>5
  <2> QED
    BY <2>2, <2>4, <2>6, <2>7, <2>8 DEF Unicast
<1> QED
  BY <1>3, <1>4

-------------------------------------------------------------------------------
(* What the steps leave alone.                                             *)

\* The budget of interference is used one at a time.
LEMMA Spent ==
    ASSUME Typed, NEW k \in {"loss", "dup", "early", "quit", "noise", "bad", "odd", "replace"},
           faults' = [faults EXCEPT ![k] = @ + 1]
    PROVE  /\ faults' \in Faults
           /\ faults'.loss = IF k = "loss" THEN faults.loss + 1 ELSE faults.loss
           /\ faults'.dup = IF k = "dup" THEN faults.dup + 1 ELSE faults.dup
           /\ faults'.early = IF k = "early" THEN faults.early + 1 ELSE faults.early
           /\ faults'.bad = IF k = "bad" THEN faults.bad + 1 ELSE faults.bad
           /\ faults'.odd = IF k = "odd" THEN faults.odd + 1 ELSE faults.odd
BY DEF Typed, Faults

LEMMA HostFrame ==
    ASSUME Typed, HostNext
    PROVE  /\ station' = station /\ granted' = granted /\ servers' = servers
           /\ faults' \in Faults
           /\ faults'.loss = faults.loss /\ faults'.dup = faults.dup
           /\ faults'.bad = faults.bad /\ faults'.odd = faults.odd
           /\ faults'.early >= faults.early
<1> DEFINE Kept == /\ faults' \in Faults
                   /\ faults'.loss = faults.loss /\ faults'.dup = faults.dup
                   /\ faults'.bad = faults.bad /\ faults'.odd = faults.odd
                   /\ faults'.early >= faults.early
<1>1. faults.early \in Nat /\ faults \in Faults
  BY DEF Typed, Faults
<1>2. faults' = faults => Kept
  BY <1>1
<1>3. Spend("early") => Kept
  BY <1>1, Spent DEF Spend
<1>4. Spend("quit") => Kept
  BY <1>1, Spent DEF Spend
<1>5. Expires => Kept
  BY <1>2, <1>3 DEF Expires
<1> HIDE DEF Kept
<1>6. CASE DhcpQuit \/ DhcpFinished \/ DhcpTick \/ RxDone
  BY <1>2, <1>4, <1>6 DEF DhcpQuit, DhcpFinished, DhcpTick, RxDone, linkVars, Kept
<1>7. CASE DhcpTimeout
  BY <1>5, <1>7 DEF DhcpTimeout, linkVars, Kept
<1>8. CASE Receive
  BY <1>2, <1>8 DEF Receive, linkVars, Kept
<1>9. CASE OpStart
  BY <1>2, <1>9 DEF OpStart, linkVars, Kept
<1>10. CASE OpQuit \/ OpTop \/ OpDone \/ OpTick
  BY <1>2, <1>4, <1>10 DEF OpQuit, OpTop, OpDone, OpTick, linkVars, Kept
<1>11. CASE OpTimeout
  BY <1>5, <1>11 DEF OpTimeout, linkVars, Kept
<1> QED
  BY <1>6, <1>7, <1>8, <1>9, <1>10, <1>11 DEF HostNext

LEMMA LinkFrame ==
    ASSUME Typed, LinkNext
    PROVE  /\ UNCHANGED hostVars /\ servers' = servers
           /\ granted \subseteq granted'
           /\ faults' \in Faults
           /\ faults'.loss >= faults.loss /\ faults'.dup >= faults.dup
           /\ faults'.bad >= faults.bad /\ faults'.odd >= faults.odd
           /\ faults'.early >= faults.early
<1> DEFINE Grown == /\ faults' \in Faults
                    /\ faults'.loss >= faults.loss /\ faults'.dup >= faults.dup
                    /\ faults'.bad >= faults.bad /\ faults'.odd >= faults.odd
                    /\ faults'.early >= faults.early
<1>1. /\ faults.loss \in Nat /\ faults.dup \in Nat /\ faults.early \in Nat
      /\ faults.bad \in Nat /\ faults.odd \in Nat /\ faults.noise \in Nat /\ faults \in Faults
  BY DEF Typed, Faults
<1>2. faults' = faults => Grown
  BY <1>1
<1>3. Spend("loss") \/ Spend("dup") \/ Spend("odd") \/ Spend("replace") => Grown
  BY <1>1, Spent DEF Spend
<1>4. OthersSend => Grown
  <2> SUFFICES ASSUME OthersSend PROVE Grown
    OBVIOUS
  <2>1. PICK f \in Noise : faults' = [faults EXCEPT !.noise = @ + 1, !.bad = IF FatalHere(f) THEN @ + 1 ELSE @]
    BY DEF OthersSend
  <2> DEFINE n == faults.noise + 1
             b == IF FatalHere(f) THEN faults.bad + 1 ELSE faults.bad
  <2>2. faults' = [faults EXCEPT !.noise = n, !.bad = b] /\ n \in Nat /\ b \in Nat /\ b >= faults.bad
    BY <1>1, <2>1
  <2> HIDE DEF n, b
  <2>3. faults' \in Faults /\ faults'.loss = faults.loss /\ faults'.dup = faults.dup
        /\ faults'.early = faults.early /\ faults'.odd = faults.odd /\ faults'.bad = b
    BY <1>1, <2>2 DEF Faults
  <2> QED
    BY <1>1, <2>2, <2>3
<1> HIDE DEF Grown
<1>5. CASE StationAnswers
  BY <1>2, <1>3, <1>5 DEF StationAnswers, Grown
<1>6. CASE Lose \/ Duplicate
  BY <1>3, <1>6 DEF Lose, Duplicate, linkVars, Grown
<1>7. CASE OthersSend
  BY <1>4, <1>7 DEF OthersSend, linkVars, Grown
<1>8. CASE \E s \in Stations : Replace(s)
  BY <1>3, <1>8 DEF Replace, Grown
<1> QED
  BY <1>5, <1>6, <1>7, <1>8 DEF LinkNext

-------------------------------------------------------------------------------
(* What comes of a frame.                                                  *)

\* In either loop there is one socket.
LEMMA OneSocket ==
    ASSUME Typed, SocketSound, pc \in {"dhcp_rx", "op_rx"}, NEW addr, NEW port, Matching(addr, port) # {}
    PROVE  /\ find_open_udp_socket(addr, port) = 1
           /\ port = IF pc = "dhcp_rx" THEN dhcp_src_port ELSE first_port
           /\ sockets[1].owner = IF pc = "dhcp_rx" THEN "dhcp" ELSE "op"
           /\ pc = "op_rx" => sockets[1].addr = config.addr
<1>2. /\ DOMAIN sockets = {1}
      /\ sockets[1].port = IF pc = "dhcp_rx" THEN dhcp_src_port ELSE first_port
      /\ sockets[1].owner = IF pc = "dhcp_rx" THEN "dhcp" ELSE "op"
      /\ pc = "op_rx" => sockets[1].addr = config.addr
  <2>1. CASE pc = "dhcp_rx"
    <3>1. sockets = DhcpSockets
      BY <2>1 DEF SocketSound, Discovery
    <3> QED
      BY <2>1, <3>1 DEF DhcpSockets
  <2>2. CASE pc = "op_rx"
    <3>1. sockets = OpSockets(config.addr)
      BY <2>2 DEF SocketSound, Transfer
    <3> QED
      BY <2>2, <3>1 DEF OpSockets
  <2> QED
    BY <2>1, <2>2
<1>3. Matching(addr, port) = {1} /\ port = sockets[1].port
  BY <1>2 DEF Matching
<1>4. find_open_udp_socket(addr, port) = 1
  BY <1>3 DEF find_open_udp_socket
<1> QED
  BY <1>2, <1>3, <1>4

\* The frame f is taken from the ring.
Taken(f) ==
    /\ pc \in {"dhcp_rx", "op_rx"} /\ left > 0 /\ left' = left - 1
    /\ f \in DOMAIN toHost /\ toHost' = toHost (-) SetToBag({f})

\* The frame stops the machine: it is of an unknown kind, a ping that cannot be
\* answered, or an answer that the DHCP client does not expect.
Stops(f) ==
    /\ pc' \in {"stopped", "hung"} /\ failed' # "no"
    /\ UNCHANGED <<config, arp, sockets, dhcp, op, fromHost>>
    /\ \/ f.type \notin {"ipv4", "arp", "ipv6"}
       \/ f.type = "ipv4" /\ f.protocol \notin {"icmp", "igmp", "tcp", "udp"}
       \/ /\ f.type = "ipv4" /\ f.protocol = "icmp" /\ config.addr # inaddr_any
          /\ f.dstip = config.addr /\ NoRoute(f.srcip)
       \/ /\ pc = "dhcp_rx" /\ DhcpReply(f)
          /\ \/ dhcp.state = "wait_for_offer" /\ ~Accepted(f.body.data, "offer", Assignable)
             \/ dhcp.state = "wait_for_ack" /\ ~Accepted(f.body.data, "ack", {dhcp.config.addr})

\* It is an offer, and is taken.
TakesOffer(f) ==
    /\ pc = "dhcp_rx" /\ DhcpReply(f) /\ dhcp.state = "wait_for_offer"
    /\ Accepted(f.body.data, "offer", Assignable)
    /\ dhcp' = [state |-> "wait_for_ack", config |-> Offered(f.body.data)]
    /\ fromHost' = fromHost (+) Sent(Request(f.body.data.yiaddr, parse_reply(f.body.data).server_id))
    /\ UNCHANGED <<pc, failed, config, arp, sockets, op>>

\* It is the acknowledgement of the offer taken.
TakesAck(f) ==
    /\ pc = "dhcp_rx" /\ DhcpReply(f) /\ dhcp.state = "wait_for_ack"
    /\ Accepted(f.body.data, "ack", {dhcp.config.addr})
    /\ dhcp' = [dhcp EXCEPT !.state = "finished"]
    /\ UNCHANGED <<pc, failed, config, arp, sockets, op, fromHost>>

\* It is for the transfer.
TakesAnswer(f) ==
    /\ pc = "op_rx" /\ f.type # "arp"
    /\ op' = [op EXCEPT !.answered = TRUE]
    /\ UNCHANGED <<pc, failed, config, arp, sockets, dhcp, fromHost>>

\* It is a ping.
Echoes(f) ==
    /\ OfNoise(f) /\ f.type = "ipv4" /\ f.dstip = config.addr /\ f.srcip \in Assignable
    /\ config.addr # inaddr_any /\ ~NoRoute(f.srcip)
    /\ \E b : fromHost' = fromHost (+) Sent(ipv4_out("icmp", f.dstip, f.srcip, b))
    /\ UNCHANGED <<pc, failed, config, arp, sockets, dhcp, op>>

\* It is an ARP frame.
Learns(f) ==
    /\ Truthful(f) /\ config.addr # inaddr_any
    /\ arp' = Learned(f)
    /\ fromHost' = fromHost
    /\ UNCHANGED <<pc, failed, config, sockets, dhcp, op>>

\* It is not for this machine: of ARP frames, when there is no address.
Ignores(f) == Ignore /\ (f.type = "arp" => config.addr = inaddr_any)

Outcome(f) == Ignores(f) \/ Stops(f) \/ TakesOffer(f) \/ TakesAck(f) \/ TakesAnswer(f) \/ Echoes(f) \/ Learns(f)

\* A failed REQUIRE, or the loop that never ends.
LEMMA FailStops ==
    /\ \A why \in {"no_route", "protocol", "ethertype"} : Fail(why) =>
          /\ pc' \in {"stopped", "hung"} /\ failed' # "no"
          /\ UNCHANGED <<config, arp, sockets, dhcp, op, fromHost>>
    /\ \A m, expected, addrs : Rejected(m, expected, addrs) =>
          /\ ~Accepted(m, expected, addrs)
          /\ pc' \in {"stopped", "hung"} /\ failed' # "no"
          /\ UNCHANGED <<config, arp, sockets, dhcp, op, fromHost>>
BY DEF Fail, Hang, Rejected, Accepted

LEMMA ArpCases ==
    ASSUME Typed, NEW f, Truthful(f), arp_in(f)
    PROVE  Ignores(f) \/ Learns(f)
<1>1. CASE ~ArpConcerns(f)
  BY <1>1 DEF arp_in, ArpConcerns, Ignores
<1>2. CASE ArpConcerns(f)
  <2>1. /\ arp' = Learned(f)
        /\ fromHost' = IF config.addr = f.tpa /\ f.oper = "request"
                       THEN fromHost (+) Sent(send_arp("reply", f.tpa, f.sha, f.spa))
                       ELSE fromHost
        /\ UNCHANGED <<pc, failed, config, sockets, dhcp, op>>
    BY <1>2 DEF arp_in
  <2>2. Sent(send_arp("reply", f.tpa, f.sha, f.spa)) = SetToBag({})
    <3> DEFINE g == send_arp("reply", f.tpa, f.sha, f.spa)
    <3>1. g.type = "arp" /\ g.oper = "reply"
      BY DEF send_arp, Arp
    <3>2. Takers(g) = {}
      BY <3>1 DEF Takers
    <3> QED
      BY <3>2 DEF Sent
  <2>3. fromHost' = fromHost
    BY <2>1, <2>2, NothingAdded DEF Typed
  <2> QED
    BY <1>2, <2>1, <2>3 DEF Learns, ArpConcerns
<1> QED
  BY <1>1, <1>2

LEMMA DhcpCases ==
    ASSUME Typed, NEW f, DhcpReply(f), pc = "dhcp_rx", dhcp_in(f.body.data)
    PROVE  Ignores(f) \/ Stops(f) \/ TakesOffer(f) \/ TakesAck(f)
<1> DEFINE m == f.body.data
<1>1. CASE dhcp.state = "wait_for_offer" /\ DhcpOffer(m)
  <2>1. CASE Rejected(m, "offer", Assignable)
    BY <1>1, <2>1, FailStops DEF Stops
  <2>2. CASE /\ Accepted(m, "offer", Assignable)
             /\ dhcp' = [state |-> "wait_for_ack", config |-> Offered(m)]
             /\ DhcpOut("request", m.yiaddr, parse_reply(m).server_id)
             /\ UNCHANGED <<pc, failed, config, arp, sockets, op>>
    <3>1. fromHost' = fromHost (+) Sent(Request(m.yiaddr, parse_reply(m).server_id))
      BY <2>2 DEF DhcpOut, ipv4_out, Request
    <3> QED
      BY <1>1, <2>2, <3>1 DEF TakesOffer
  <2> QED
    BY <1>1, <2>1, <2>2 DEF DhcpOffer
<1>2. CASE dhcp.state = "wait_for_ack" /\ DhcpAck(m)
  <2>1. CASE Rejected(m, "ack", {dhcp.config.addr})
    BY <1>2, <2>1, FailStops DEF Stops
  <2>2. CASE ~Rejected(m, "ack", {dhcp.config.addr})
    BY <1>2, <2>2 DEF DhcpAck, TakesAck
  <2> QED
    BY <2>1, <2>2
<1> QED
  BY <1>1, <1>2 DEF dhcp_in, DhcpReply, Ignores

LEMMA UdpCases ==
    ASSUME Typed, SocketSound, pc \in {"dhcp_rx", "op_rx"}, NEW f, Answer(f) \/ DhcpReply(f), udp_in(f)
    PROVE  Outcome(f)
<1>0. f.type # "arp"
  BY DEF Answer, DhcpReply
<1>1. CASE Matching(f.dstip, f.body.dst_port) = {}
  BY <1>0, <1>1 DEF udp_in, Ignores, Outcome
<1>2. CASE Matching(f.dstip, f.body.dst_port) # {}
  <2> DEFINE s == sockets[find_open_udp_socket(f.dstip, f.body.dst_port)]
  <2>1. /\ f.body.dst_port = IF pc = "dhcp_rx" THEN dhcp_src_port ELSE first_port
        /\ s.owner = IF pc = "dhcp_rx" THEN "dhcp" ELSE "op"
    BY <1>2, OneSocket
  <2>2. \/ s.owner = "dhcp" /\ dhcp_in(f.body.data)
        \/ s.owner = "op" /\ tftp_in
    BY <1>2 DEF udp_in
  <2> HIDE DEF s
  <2>3. CASE pc = "dhcp_rx"
    <3>1. ~Answer(f)
      BY <2>1, <2>3 DEF Answer, dhcp_src_port, first_port
    <3> QED
      BY <2>1, <2>2, <2>3, <3>1, DhcpCases DEF Outcome
  <2>4. CASE pc = "op_rx"
    BY <1>0, <2>1, <2>2, <2>4 DEF tftp_in, Outcome, TakesAnswer
  <2> QED
    BY <2>3, <2>4
<1> QED
  BY <1>1, <1>2

LEMMA IcmpCases ==
    ASSUME NEW f, OfNoise(f), f.type = "ipv4", f.protocol = "icmp", icmp_in(f)
    PROVE  Outcome(f)
<1> DEFINE Mine == f.dstip # inaddr_any /\ f.dstip = config.addr /\ f.body.icmp = "echo_request"
<1>1. CASE ~Mine
  BY <1>1 DEF icmp_in, Ignores, Outcome
<1>2. CASE Mine /\ NoRoute(f.srcip)
  <2>1. Fail("no_route")
    BY <1>2 DEF icmp_in
  <2> QED
    BY <1>2, <2>1, FailStops DEF Stops, Outcome
<1>3. CASE Mine /\ ~NoRoute(f.srcip)
  <2>1. /\ Out("icmp", f.dstip, f.srcip, [icmp |-> "echo_reply", rest |-> f.body.rest])
        /\ UNCHANGED <<pc, failed, config, arp, sockets, dhcp, op>>
    BY <1>3 DEF icmp_in
  <2>2. f.srcip \in Assignable
    BY NoiseAssumption DEF OfNoise
  <2> QED
    BY <1>3, <2>1, <2>2 DEF Out, Echoes, Outcome
<1> QED
  BY <1>1, <1>2, <1>3

LEMMA Ipv4Cases ==
    ASSUME Typed, SocketSound, pc \in {"dhcp_rx", "op_rx"}, NEW f, f.type = "ipv4",
           OfNoise(f) \/ Answer(f) \/ DhcpReply(f), ipv4_in(f)
    PROVE  Outcome(f)
<1>1. CASE f.protocol = "icmp"
  <2>1. OfNoise(f)
    BY <1>1 DEF Answer, DhcpReply
  <2>2. icmp_in(f)
    BY <1>1 DEF ipv4_in
  <2> QED
    BY <1>1, <2>1, <2>2, IcmpCases
<1>2. CASE f.protocol \in {"igmp", "tcp"}
  <2>1. Ignore
    BY <1>2 DEF ipv4_in
  <2> QED
    BY <2>1 DEF Ignores, Outcome
<1>3. CASE f.protocol = "udp"
  <2>1. Answer(f) \/ DhcpReply(f)
    BY <1>3, NoiseAssumption DEF OfNoise
  <2>2. udp_in(f)
    BY <1>3 DEF ipv4_in
  <2> QED
    BY <2>1, <2>2, UdpCases
<1>4. CASE f.protocol \notin {"icmp", "igmp", "tcp", "udp"}
  <2>1. Fail("protocol")
    BY <1>4 DEF ipv4_in
  <2>2. Stops(f)
    BY <1>4, <2>1, FailStops DEF Stops
  <2> QED
    BY <2>2 DEF Outcome
<1> QED
  BY <1>1, <1>2, <1>3, <1>4

LEMMA FrameCases ==
    ASSUME Typed, SocketSound, pc \in {"dhcp_rx", "op_rx"}, NEW f,
           Truthful(f) \/ OfNoise(f) \/ Answer(f) \/ DhcpReply(f), eth_in(f)
    PROVE  Outcome(f)
<1>1. CASE f.type = "ipv4"
  <2>1. OfNoise(f) \/ Answer(f) \/ DhcpReply(f)
    BY <1>1 DEF Truthful
  <2>2. ipv4_in(f)
    BY <1>1 DEF eth_in
  <2> QED
    BY <1>1, <2>1, <2>2, Ipv4Cases
<1>2. CASE f.type = "arp"
  <2>1. Truthful(f)
    BY <1>2 DEF OfNoise, Answer, DhcpReply
  <2>2. arp_in(f)
    BY <1>2 DEF eth_in
  <2> QED
    BY <2>1, <2>2, ArpCases DEF Outcome
<1>3. CASE f.type = "ipv6"
  <2>1. Ignore
    BY <1>3 DEF eth_in
  <2> QED
    BY <1>3, <2>1 DEF Ignores, Outcome
<1>4. CASE f.type \notin {"ipv4", "arp", "ipv6"}
  <2>1. Fail("ethertype")
    BY <1>4 DEF eth_in
  <2>2. Stops(f)
    BY <1>4, <2>1, FailStops DEF Stops
  <2> QED
    BY <2>2 DEF Outcome
<1> QED
  BY <1>1, <1>2, <1>3, <1>4

LEMMA ReceiveCases ==
    ASSUME Typed, ToHostSound, SocketSound, Receive
    PROVE  \E f : Taken(f) /\ Outcome(f)
<1>1. PICK f \in DOMAIN toHost : toHost' = toHost (-) SetToBag({f}) /\ eth_in(f)
  BY DEF Receive, BagToSet
<1>2. pc \in {"dhcp_rx", "op_rx"}
  BY DEF Receive
<1>3. Taken(f)
  BY <1>1 DEF Receive, Taken
<1>4. Truthful(f) \/ OfNoise(f) \/ Answer(f) \/ DhcpReply(f)
  BY <1>1 DEF ToHostSound, FrameSound
<1>5. Outcome(f)
  BY <1>1, <1>2, <1>4, FrameCases
<1> QED
  BY <1>3, <1>5

-------------------------------------------------------------------------------
(* Frames on their way to the machine.                                     *)

LEMMA FrameKept ==
    ASSUME NEW f, FrameSound(f), station' = station, servers' = servers,
           granted \subseteq granted', faults'.odd = 0 => faults.odd = 0
    PROVE  FrameSound(f)'
<1>1. Truthful(f) => Truthful(f)'
  BY DEF Truthful
<1>2. OfNoise(f) => OfNoise(f)'
  BY DEF OfNoise
<1>3. Answer(f) => Answer(f)'
  BY DEF Answer
<1>4. ASSUME NEW s, Offers(s, f) PROVE Offers(s, f)'
  BY <1>4 DEF Offers, Reply
<1>5. ASSUME NEW s, Acknowledges(s, f) PROVE Acknowledges(s, f)'
  BY <1>5 DEF Acknowledges, Reply
<1>6. DhcpReply(f) => DhcpReply(f)'
  BY <1>4, <1>5 DEF DhcpReply
<1> QED
  BY <1>1, <1>2, <1>3, <1>6 DEF FrameSound

\* What a station answers to each kind of frame.
LEMMA AnswerKinds ==
    ASSUME NEW s \in Stations, NEW f, NEW o
    PROVE  /\ Asks(s, f) => Answers(s, f, o) = {Arp(my_mac, "reply", station[s], f.tpa, my_mac, f.spa)}
           /\ Unicast(s, f) => \A a \in Answers(s, f, o) : Answer(a)
           /\ s \in servers => Answers(s, Discover, o) = {Reply(s, "offer", Leases[s].addr, o)}
           /\ s \in servers /\ Requests(f) => Answers(s, f, o) =
                IF f.body.data.server = StationAddr[s] THEN {Reply(s, "ack", f.body.data.yiaddr, o)} ELSE {}
<1>1. ASSUME Asks(s, f)
      PROVE  Answers(s, f, o) = {Arp(my_mac, "reply", station[s], f.tpa, my_mac, f.spa)}
  BY <1>1 DEF Asks, Answers
<1>2. ASSUME Unicast(s, f), NEW a \in Answers(s, f, o)
      PROVE  Answer(a)
  <2>1. f.protocol = "udp" /\ a = Ipv4(my_mac, "udp", f.dstip, f.srcip, Udp(69, f.body.src_port, "answer"))
    BY <1>2 DEF Unicast, Answers
  <2>2. /\ a.type = "ipv4" /\ a.protocol = "udp" /\ a.dst = my_mac
        /\ a.body = Udp(69, f.body.src_port, "answer")
    BY <2>1 DEF Ipv4
  <2>3. a.body.dst_port = f.body.src_port
    BY <2>2 DEF Udp
  <2> QED
    BY <1>2, <2>1, <2>2, <2>3 DEF Answer, Unicast
<1>3. ASSUME s \in servers
      PROVE  Answers(s, Discover, o) = {Reply(s, "offer", Leases[s].addr, o)}
  <2>1. /\ Discover.type = "ipv4" /\ Discover.protocol = "udp" /\ Discover.dst = mac_broadcast
        /\ Discover.body.data.message = "discover"
    BY DEF Discover, Ipv4, Udp, Dhcp
  <2> QED
    BY <1>3, <2>1 DEF Answers, Reply
<1>4. ASSUME s \in servers, Requests(f)
      PROVE  Answers(s, f, o) =
                IF f.body.data.server = StationAddr[s] THEN {Reply(s, "ack", f.body.data.yiaddr, o)} ELSE {}
  <2>1. PICK a, i : f = Request(a, i)
    BY <1>4 DEF Requests
  <2>2. /\ f.type = "ipv4" /\ f.protocol = "udp" /\ f.dst = mac_broadcast
        /\ f.body.data.message = "request"
    BY <2>1 DEF Request, Ipv4, Udp, Dhcp
  <2> QED
    BY <1>4, <2>2 DEF Answers, Reply
<1> QED
  BY <1>1, <1>2, <1>3, <1>4

\* Fields of the frames of DHCP.
LEMMA ReplyFields ==
    ASSUME NEW s, NEW message, NEW a, NEW o
    PROVE  LET f == Reply(s, message, a, o)
           IN  /\ f.type = "ipv4" /\ f.protocol = "udp" /\ f.dst = mac_broadcast
               /\ f.dstip = inaddr_broadcast /\ f.body.dst_port = dhcp_src_port
               /\ f.body.data = Dhcp(message, a, StationAddr[s], o)
               /\ f.body.data.message = message /\ f.body.data.yiaddr = a
               /\ f.body.data.server = StationAddr[s] /\ f.body.data.options = o
BY DEF Reply, Ipv4, Udp, Dhcp

LEMMA RequestFields ==
    ASSUME NEW a, NEW i
    PROVE  LET f == Request(a, i)
           IN  /\ f.type = "ipv4" /\ f.protocol = "udp" /\ f.dst = mac_broadcast
               /\ f.body.dst_port = 67
               /\ f.body.data.message = "request"
               /\ f.body.data.yiaddr = a /\ f.body.data.server = i
BY DEF Request, Ipv4, Udp, Dhcp

LEMMA DiscoverFields ==
    /\ Discover.type = "ipv4" /\ Discover.protocol = "udp" /\ Discover.dst = mac_broadcast
    /\ Discover.body.dst_port = 67 /\ Discover.body.data.message = "discover"
BY DEF Discover, Ipv4, Udp, Dhcp

\* A station takes the frame f of the machine and answers with the options o.
Answering(s, f, o) ==
    /\ <<s, f>> \in DOMAIN fromHost /\ SentSound(s, f)
    /\ fromHost' = fromHost (-) SetToBag({<<s, f>>})
    /\ toHost' = toHost (+) SetToBag(Answers(s, f, o))
    /\ s \in servers => /\ o \in DhcpOptions
                        /\ faults'.odd = 0 => o = Leases[s].options
    /\ station' = station
    /\ s \in servers /\ Requests(f) /\ f.body.data.server = StationAddr[s]
           => <<s, f.body.data.yiaddr>> \in granted'

LEMMA AnsweringCases ==
    ASSUME Typed, FromHostSound, StationAnswers
    PROVE  \E s, f, o : Answering(s, f, o)
<1>1. PICK sf \in DOMAIN fromHost :
        LET s == sf[1]  f == sf[2]
            Plain == IF s \in servers THEN Leases[s].options ELSE <<>>
        IN
        /\ fromHost' = fromHost (-) SetToBag({sf})
        /\ \/ /\ toHost' = toHost (+) SetToBag(Answers(s, f, Plain))
              /\ UNCHANGED faults
           \/ /\ Spend("odd")
              /\ \E o \in OddOptions : toHost' = toHost (+) SetToBag(Answers(s, f, Append(Plain, o)))
        /\ granted' = granted \cup
              {<<s, a.body.data.yiaddr>> : a \in {b \in Answers(s, f, <<>>) :
                  b.dst = mac_broadcast /\ b.body.data.message = "ack"}}
        /\ station' = station
  BY DEF StationAnswers, BagToSet
<1> DEFINE s == sf[1]
           f == sf[2]
           Plain == IF s \in servers THEN Leases[s].options ELSE <<>>
<1>2. sf = <<s, f>> /\ SentSound(s, f)
  BY DEF FromHostSound
<1>3. \E o : /\ toHost' = toHost (+) SetToBag(Answers(s, f, o))
             /\ s \in servers => /\ o \in DhcpOptions
                                 /\ faults'.odd = 0 => o = Leases[s].options
  <2>1. s \in servers => Plain = Leases[s].options /\ Plain \in DhcpOptions
    BY LeaseTyped DEF Typed
  <2>2. CASE toHost' = toHost (+) SetToBag(Answers(s, f, Plain)) /\ UNCHANGED faults
    BY <2>1, <2>2
  <2>3. CASE /\ Spend("odd")
             /\ \E o \in OddOptions : toHost' = toHost (+) SetToBag(Answers(s, f, Append(Plain, o)))
    <3>1. PICK o \in OddOptions : toHost' = toHost (+) SetToBag(Answers(s, f, Append(Plain, o)))
      BY <2>3
    <3>2. faults'.odd # 0
      <4>1. faults'.odd = faults.odd + 1 /\ faults.odd \in Nat
        BY <2>3, Spent DEF Spend, Typed, Faults
      <4> QED
        BY <4>1
    <3>3. s \in servers => Append(Plain, o) \in DhcpOptions
      <4>1. o \in DhcpOption
        BY LeaseAssumption
      <4> QED
        BY <2>1, <4>1 DEF DhcpOptions
    <3> QED
      BY <3>1, <3>2, <3>3
  <2> QED
    BY <1>1, <2>2, <2>3
<1>4. ASSUME s \in servers, Requests(f), f.body.data.server = StationAddr[s]
      PROVE  <<s, f.body.data.yiaddr>> \in granted'
  <2>1. Answers(s, f, <<>>) = {Reply(s, "ack", f.body.data.yiaddr, <<>>)}
    BY <1>2, <1>4, AnswerKinds DEF SentSound
  <2> DEFINE b == Reply(s, "ack", f.body.data.yiaddr, <<>>)
  <2>2. b.dst = mac_broadcast /\ b.body.data.message = "ack" /\ b.body.data.yiaddr = f.body.data.yiaddr
    BY ReplyFields
  <2>3. b \in Answers(s, f, <<>>)
    BY <2>1
  <2> HIDE DEF b, s, f
  <2>4. <<s, b.body.data.yiaddr>> \in {<<s, a.body.data.yiaddr>> : a \in {c \in Answers(s, f, <<>>) :
                  c.dst = mac_broadcast /\ c.body.data.message = "ack"}}
    BY <2>2, <2>3
  <2> QED
    BY <1>1, <2>2, <2>4 DEF s, f
<1>5. PICK o : /\ toHost' = toHost (+) SetToBag(Answers(s, f, o))
               /\ s \in servers => /\ o \in DhcpOptions
                                   /\ faults'.odd = 0 => o = Leases[s].options
  BY <1>3
<1>6. Answering(s, f, o)
  <2>1. fromHost' = fromHost (-) SetToBag({<<s, f>>}) /\ <<s, f>> \in DOMAIN fromHost /\ station' = station
    BY <1>1, <1>2
  <2> HIDE DEF s, f
  <2> QED
    BY <1>2, <1>4, <1>5, <2>1 DEF Answering
<1> QED
  BY <1>6

\* What a station answers is sound.
LEMMA AnswersSound ==
    ASSUME Typed, servers' = servers, faults'.odd = 0 => faults.odd = 0,
           NEW s, NEW f, NEW o, Answering(s, f, o), NEW a \in Answers(s, f, o)
    PROVE  FrameSound(a)'
<1>0. s \in Stations /\ station' = station
  BY DEF Answering, SentSound
<1>1. CASE Asks(s, f)
  <2>1. a = Arp(my_mac, "reply", station[s], f.tpa, my_mac, f.spa)
    BY <1>0, <1>1, AnswerKinds
  <2>2. a.type = "arp" /\ a.sha = station[s] /\ a.spa = f.tpa
    BY <2>1 DEF Arp
  <2>3. f.tpa \in SUBSET Bits /\ (f.tpa = StationAddr[s] \/ f.tpa \notin OnTheLink)
    BY <1>1 DEF Asks
  <2> QED
    BY <1>0, <2>2, <2>3 DEF Truthful, FrameSound
<1>2. CASE Unicast(s, f)
  <2>1. Answer(a)
    BY <1>0, <1>2, AnswerKinds
  <2> QED
    BY <2>1 DEF Answer, FrameSound
<1>3. CASE s \in servers /\ f = Discover
  <2>1. a = Reply(s, "offer", Leases[s].addr, o)
    BY <1>0, <1>3, AnswerKinds
  <2>2. a.body.data.options = o /\ a.type = "ipv4" /\ a.protocol = "udp" /\ a.dst = mac_broadcast
    BY <2>1, ReplyFields
  <2>3. Offers(s, a)'
    BY <1>3, <2>1, <2>2 DEF Offers, Answering, Reply
  <2> QED
    BY <1>3, <2>2, <2>3 DEF DhcpReply, FrameSound
<1>4. CASE s \in servers /\ Requests(f)
  <2> DEFINE y == f.body.data.yiaddr
  <2>1. f.body.data.server = StationAddr[s] /\ a = Reply(s, "ack", y, o)
    BY <1>0, <1>4, AnswerKinds
  <2>2. /\ a.body.data.options = o /\ a.body.data.yiaddr = y
        /\ a.type = "ipv4" /\ a.protocol = "udp" /\ a.dst = mac_broadcast
    BY <2>1, ReplyFields
  <2>3. <<s, y>> \in granted'
    BY <1>4, <2>1 DEF Answering
  <2>4. ASSUME faults'.odd = 0
        PROVE  y = Leases[s].addr
    <3>1. PICK t \in servers : f = Request(Leases[t].addr, StationAddr[t])
      BY <1>4, <2>4 DEF Requests
    <3>2. f.body.data.server = StationAddr[t] /\ y = Leases[t].addr
      BY <3>1, RequestFields
    <3>3. t = s
      BY <1>0, <2>1, <3>2, NetAssumption DEF Typed
    <3> QED
      BY <3>2, <3>3
  <2> HIDE DEF y
  <2>5. Acknowledges(s, a)'
    BY <1>4, <2>1, <2>2, <2>3, <2>4 DEF Acknowledges, Answering, Reply
  <2> QED
    BY <1>4, <2>2, <2>5 DEF DhcpReply, FrameSound
<1> QED
  BY <1>1, <1>2, <1>3, <1>4 DEF Answering, SentSound

\* The machine takes frames from the ring and puts none there.
LEMMA HostTakes ==
    ASSUME Typed, HostNext
    PROVE  \/ toHost' = toHost /\ ~Receive
           \/ \E f : Receive /\ f \in DOMAIN toHost /\ toHost' = toHost (-) SetToBag({f})
<1>1. CASE Receive
  BY <1>1 DEF Receive, BagToSet
<1>2. CASE ~Receive
  <2>1. toHost' = toHost
    BY <1>2 DEF HostNext, DhcpQuit, DhcpFinished, DhcpTick, RxDone, DhcpTimeout, OpStart, OpQuit,
                OpTop, OpDone, OpTick, OpTimeout
  <2> QED
    BY <1>2, <2>1
<1> QED
  BY <1>1, <1>2

\* What another machine sends is sound.
LEMMA NoiseSound ==
    ASSUME Typed, NEW f \in Noise, f.type = "arp" => Owners(f.sha) # {}
    PROVE  Truthful(f) \/ OfNoise(f)
<1>1. CASE f.type = "arp"
  <2>1. PICK s \in Stations : f.sha \in {<<s, 1>>, <<s, 2>>} /\ f.spa = StationAddr[s]
    BY <1>1, NoiseAssumption
  <2>2. PICK t \in Owners(f.sha) : TRUE
    BY <1>1
  <2>3. t = s
    BY <2>1, <2>2, OneOwner
  <2>4. f.sha = station[s]
    BY <2>2, <2>3 DEF Owners
  <2>5. f.spa \in SUBSET Bits
    BY <2>1, NetAssumption DEF Assignable
  <2> QED
    BY <1>1, <2>1, <2>4, <2>5 DEF Truthful
<1> QED
  BY <1>1 DEF OfNoise

\* A new card is announced on an empty link.
LEMMA ReplaceFrames ==
    ASSUME Typed, NEW s \in Stations, Replace(s)
    PROVE  LET f == Arp(mac_broadcast, "request", <<s, 2>>, StationAddr[s], mac_broadcast, StationAddr[s])
           IN  /\ toHost = EmptyBag /\ DOMAIN toHost' = {f} /\ toHost'[f] = 1 /\ IsABag(toHost')
               /\ Truthful(f)' /\ f.type = "arp" /\ f.spa = StationAddr[s] /\ f.sha = <<s, 2>>
<1> DEFINE f == Arp(mac_broadcast, "request", <<s, 2>>, StationAddr[s], mac_broadcast, StationAddr[s])
<1>1. f.type = "arp" /\ f.spa = StationAddr[s] /\ f.sha = <<s, 2>>
  BY DEF Arp
<1>2. toHost = EmptyBag /\ toHost' = EmptyBag (+) SetToBag({f})
  BY DEF Replace
<1>3. station'[s] = <<s, 2>> /\ StationAddr[s] \in SUBSET Bits
  BY NetAssumption DEF Replace, Typed, Assignable
<1> HIDE DEF f
<1>4. IsABag(toHost') /\ DOMAIN toHost' = {f} /\ toHost'[f] = 1
  <2>1. IsABag(EmptyBag) /\ DOMAIN EmptyBag = {}
    BY EmptyBagElements
  <2> DEFINE B == EmptyBag
  <2> HIDE DEF B
  <2>2. toHost' = B (+) SetToBag({f}) /\ IsABag(B) /\ DOMAIN B = {}
    BY <1>2, <2>1 DEF B
  <2>3. IsABag(toHost') /\ DOMAIN toHost' = DOMAIN B \cup {f} /\ toHost'[f] = 1
    BY <2>2, OneAdded
  <2>4. DOMAIN B \cup {f} = {f}
    BY <2>2
  <2> QED
    BY <2>3, <2>4
<1>5. Truthful(f)'
  BY <1>1, <1>3 DEF Truthful
<1> QED
  BY <1>1, <1>2, <1>4, <1>5 DEF f

\* A frame is sound in the next state if it was, or a station has made it.
LEMMA ToHostSoundKept ==
    ASSUME IInv, [Next]_vars
    PROVE  ToHostSound'
<1> USE DEF IInv
<1>0. \A f : f \in DOMAIN toHost => FrameSound(f)
  BY DEF ToHostSound
<1>1. CASE UNCHANGED vars
  <2>1. \A f : FrameSound(f) => FrameSound(f)'
    BY <1>1, FrameKept DEF vars, linkVars
  <2> QED
    BY <1>0, <1>1, <2>1 DEF ToHostSound, vars
<1>2. CASE HostNext
  <2>1. \A f : FrameSound(f) => FrameSound(f)'
    BY <1>2, HostFrame, FrameKept
  <2>2. DOMAIN toHost' \subseteq DOMAIN toHost
    <3>1. IsABag(toHost)
      BY DEF Typed
    <3> QED
      BY <1>2, <3>1, HostTakes, BagTaken
  <2> QED
    BY <1>0, <2>1, <2>2 DEF ToHostSound
<1>3. CASE LinkNext
  <2>0. servers' = servers /\ granted \subseteq granted' /\ (faults'.odd = 0 => faults.odd = 0)
    BY <1>3, LinkFrame DEF Typed, Faults
  <2>1. IsABag(toHost)
    BY DEF Typed
  <2>2. CASE station' = station
    <3>1. \A f : FrameSound(f) => FrameSound(f)'
      BY <2>0, <2>2, FrameKept
    <3>2. CASE StationAnswers
      <4>1. PICK s, f, o : Answering(s, f, o)
        BY <3>2, AnsweringCases
      <4>2. DOMAIN toHost' = DOMAIN toHost \cup Answers(s, f, o)
        BY <2>1, <4>1, BagAdded DEF Answering
      <4>3. \A a \in Answers(s, f, o) : FrameSound(a)'
        BY <2>0, <4>1, AnswersSound
      <4> QED
        BY <1>0, <3>1, <4>2, <4>3 DEF ToHostSound
    <3>3. CASE Lose
      <4>1. DOMAIN toHost' \subseteq DOMAIN toHost
        BY <2>1, <3>3, BagTaken DEF Lose, BagToSet
      <4> QED
        BY <1>0, <3>1, <4>1 DEF ToHostSound
    <3>4. CASE Duplicate
      <4>1. PICK f \in DOMAIN toHost : toHost' = toHost (+) SetToBag({f})
        BY <3>4 DEF Duplicate, BagToSet
      <4>2. DOMAIN toHost' = DOMAIN toHost \cup {f}
        BY <2>1, <4>1, BagAdded
      <4> QED
        BY <1>0, <3>1, <4>2 DEF ToHostSound
    <3>5. CASE OthersSend
      <4>1. PICK f \in Noise : (f.type = "arp" => Owners(f.sha) # {}) /\ toHost' = toHost (+) SetToBag({f})
        BY <3>5 DEF OthersSend
      <4>2. DOMAIN toHost' = DOMAIN toHost \cup {f}
        BY <2>1, <4>1, BagAdded
      <4>3. FrameSound(f)
        BY <4>1, NoiseSound DEF FrameSound
      <4> QED
        BY <1>0, <3>1, <4>2, <4>3 DEF ToHostSound
    <3>6. CASE \E s \in Stations : Replace(s)
      BY <3>6, ReplaceFrames DEF ToHostSound, FrameSound
    <3> QED
      BY <1>3, <3>2, <3>3, <3>4, <3>5, <3>6 DEF LinkNext
  <2>3. CASE \E s \in Stations : Replace(s)
    BY <2>3, ReplaceFrames DEF ToHostSound, FrameSound
  <2> QED
    BY <1>3, <2>2, <2>3 DEF LinkNext, StationAnswers, Lose, Duplicate, OthersSend, linkVars
<1> QED
  BY <1>1, <1>2, <1>3 DEF Next, Ended

-------------------------------------------------------------------------------
(* Frames on their way from the machine.                                   *)

\* Without sockets the search for a port ends at the first.
LEMMA FirstOfRange ==
    ASSUME NEW a \in Int, NEW b \in Int, a <= b
    PROVE  a \in a .. b /\ \A p \in a .. b : (\A q \in a .. (p - 1) : FALSE) <=> p = a
<1>1. a \in a .. b
  OBVIOUS
<1>2. ASSUME NEW p \in a .. b, \A q \in a .. (p - 1) : FALSE
      PROVE  p = a
  <2>1. a \in a .. (p - 1) => FALSE
    BY <1>2
  <2>2. ~(a <= p - 1)
    BY <2>1
  <2> QED
    BY <2>2
<1>3. \A q \in a .. (a - 1) : FALSE
  OBVIOUS
<1> QED
  BY <1>1, <1>2, <1>3

LEMMA FreePortOfNone ==
    ASSUME NEW addr, sockets = <<>>
    PROVE  FreePort(addr) = first_port
<1>1. first_port \in Int /\ last_port \in Int /\ first_port <= last_port
  BY DEF first_port, last_port
<1>2. \A p : Matching(addr, p) = {}
  BY DEF Matching
<1>3. \A p \in first_port .. last_port :
        (/\ Matching(addr, p) = {}
         /\ \A q \in first_port .. (p - 1) : Matching(addr, q) # {}) <=> p = first_port
  <2>1. \A p \in first_port .. last_port : (\A q \in first_port .. (p - 1) : FALSE) <=> p = first_port
    BY <1>1, FirstOfRange
  <2> QED
    BY <1>2, <2>1
<1>4. first_port \in first_port .. last_port
  BY <1>1, FirstOfRange
<1> QED
  BY <1>3, <1>4 DEF FreePort

\* The client's broadcasts, and who takes them.
LEMMA BroadcastTakers ==
    /\ Takers(Discover) = servers
    /\ \A a, i : Takers(Request(a, i)) = servers
<1>1. Takers(Discover) = servers
  BY DiscoverFields DEF Takers
<1>2. ASSUME NEW a, NEW i PROVE Takers(Request(a, i)) = servers
  <2>1. Request(a, i).type = "ipv4" /\ Request(a, i).dst = mac_broadcast
    BY RequestFields
  <2> QED
    BY <2>1 DEF Takers
<1> QED
  BY <1>1, <1>2

\* An offer that is accepted, when no server adds to its options.
LEMMA OfferTaken ==
    ASSUME Typed, NEW f, DhcpReply(f), Accepted(f.body.data, "offer", Assignable), faults.odd = 0
    PROVE  \E s \in servers : /\ Offers(s, f)
                              /\ f.body.data = Dhcp("offer", Leases[s].addr, StationAddr[s], Leases[s].options)
                              /\ f.body.data.yiaddr = Leases[s].addr
                              /\ parse_reply(f.body.data).server_id = StationAddr[s]
<1>1. PICK s \in servers : Offers(s, f) \/ Acknowledges(s, f)
  BY DEF DhcpReply
<1>2. f.body.data.message = "offer"
  BY DEF Accepted
<1>3. ~Acknowledges(s, f)
  <2>1. \A a, o : Reply(s, "ack", a, o).body.data.message = "ack"
    BY ReplyFields
  <2> QED
    BY <1>2, <2>1 DEF Acknowledges
<1>4. f = Reply(s, "offer", Leases[s].addr, Leases[s].options)
  BY <1>1, <1>3 DEF Offers
<1>5. /\ f.body.data = Dhcp("offer", Leases[s].addr, StationAddr[s], Leases[s].options)
      /\ f.body.data.yiaddr = Leases[s].addr /\ f.body.data.server = StationAddr[s]
      /\ f.body.data.options = Leases[s].options
  BY <1>4, ReplyFields
<1>6. LastValue(Leases[s].options, {"server_identifier"}) \in {inaddr_any, StationAddr[s]}
  BY LeaseAssumption DEF Typed
<1>7. parse_reply(f.body.data).server_id = StationAddr[s]
  BY <1>5, <1>6 DEF parse_reply
<1> QED
  BY <1>1, <1>3, <1>5, <1>7

\* The request that answers an offer.
LEMMA RequestSound ==
    ASSUME Typed, NEW f, TakesOffer(f)
    PROVE  Requests(Request(f.body.data.yiaddr, parse_reply(f.body.data).server_id))
<1> DEFINE y == f.body.data.yiaddr
           i == parse_reply(f.body.data).server_id
           g == Request(y, i)
<1>1. g.body.data.yiaddr = y /\ g.body.data.server = i
  BY RequestFields
<1>2. y \in Assignable
  BY DEF TakesOffer, Accepted
<1>3. ASSUME faults.odd = 0 PROVE \E t \in servers : g = Request(Leases[t].addr, StationAddr[t])
  BY <1>3, OfferTaken DEF TakesOffer
<1> QED
  BY <1>1, <1>2, <1>3 DEF Requests

\* What the machine sends in one step, if anything.
Sends(g) ==
    /\ fromHost' = fromHost (+) Sent(g) /\ config' = config
    /\ \A s \in Takers(g) : SentSound(s, g)

\* A packet to the server of the transfer.
LEMMA QuerySends ==
    ASSUME Typed, ArpSound, ConfigSound, OpSend(first_port), ~NoRoute(tftp_address), config' = config
    PROVE  \E g : Sends(g)
<1> DEFINE b == Udp(first_port, 69, "query")
           g == ipv4_out("udp", config.addr, tftp_address, b)
<1>1. b.src_port = first_port
  BY DEF Udp
<1>2. tftp_address \in Assignable /\ tftp_address \in Contacts(config.addr)
  BY NetAssumption DEF tftp_address, tftp_server, Contacts
<1>3. fromHost' = fromHost (+) Sent(g)
  BY DEF OpSend, Out
<1> HIDE DEF b
<1>4. \A s \in Takers(g) : s \in Stations /\ (Asks(s, g) \/ Unicast(s, g))
  BY <1>1, <1>2, OutSound
<1> QED
  BY <1>3, <1>4 DEF Sends, SentSound

LEMMA ReceiveSends ==
    ASSUME IInv, Receive
    PROVE  fromHost' = fromHost \/ \E g : Sends(g)
<1> USE DEF IInv
<1>1. PICK f : Taken(f) /\ Outcome(f)
  BY ReceiveCases
<1>2. CASE TakesOffer(f)
  <2> DEFINE g == Request(f.body.data.yiaddr, parse_reply(f.body.data).server_id)
  <2>1. fromHost' = fromHost (+) Sent(g) /\ config' = config
    BY <1>2 DEF TakesOffer
  <2>2. Requests(g) /\ Takers(g) = servers
    BY <1>2, RequestSound, BroadcastTakers
  <2>3. servers \subseteq Stations
    BY NetAssumption DEF Typed
  <2> HIDE DEF g
  <2> QED
    BY <2>1, <2>2, <2>3 DEF Sends, SentSound
<1>3. CASE Echoes(f)
  <2>1. PICK b : fromHost' = fromHost (+) Sent(ipv4_out("icmp", f.dstip, f.srcip, b))
    BY <1>3 DEF Echoes
  <2>2. f.srcip \in Assignable /\ ~NoRoute(f.srcip) /\ f.srcip \in Contacts(config.addr) /\ config' = config
    BY <1>3 DEF Echoes, Contacts, OfNoise
  <2> DEFINE g == ipv4_out("icmp", f.dstip, f.srcip, b)
  <2>3. \A s \in Takers(g) : s \in Stations /\ (Asks(s, g) \/ Unicast(s, g))
    BY <2>2, OutSound
  <2> QED
    BY <2>1, <2>2, <2>3 DEF Sends, SentSound
<1>4. CASE ~TakesOffer(f) /\ ~Echoes(f)
  BY <1>1, <1>4 DEF Outcome, Ignores, Ignore, Stops, TakesAck, TakesAnswer, Learns
<1> QED
  BY <1>2, <1>3, <1>4

LEMMA HostSends ==
    ASSUME IInv, HostNext
    PROVE  fromHost' = fromHost \/ \E g : Sends(g)
<1> USE DEF IInv
<1>1. CASE DhcpTimeout
  <2>1. fromHost' = fromHost (+) Sent(Discover) /\ config' = config
    BY <1>1 DEF DhcpTimeout, send_dhcp_discover, DhcpOut, ipv4_out, Discover
  <2>2. servers \subseteq Stations
    BY NetAssumption DEF Typed
  <2>3. Sends(Discover)
    BY <2>1, <2>2, BroadcastTakers DEF Sends, SentSound
  <2> QED
    BY <2>3
<1>2. CASE Receive
  BY <1>2, ReceiveSends
<1>3. CASE OpStart
  <2>1. sockets = <<>>
    BY <1>3 DEF OpStart, SocketSound
  <2>2. CASE ~NoRoute(tftp_address) /\ OpSend(FreePort(config.addr)) /\ UNCHANGED config
    BY <2>1, <2>2, FreePortOfNone, QuerySends
  <2>3. CASE Fail("no_route")
    BY <2>3 DEF Fail
  <2> QED
    BY <1>3, <2>2, <2>3 DEF OpStart
<1>4. CASE OpTimeout
  <2>1. OpSend(op.port) /\ config' = config /\ pc = "op_tick"
    BY <1>4 DEF OpTimeout
  <2>2. op.port = first_port /\ ~NoRoute(tftp_address)
    BY <2>1 DEF SocketSound, Transfer
  <2> QED
    BY <2>1, <2>2, QuerySends
<1>5. CASE DhcpQuit \/ DhcpFinished \/ DhcpTick \/ RxDone \/ OpQuit \/ OpTop \/ OpDone \/ OpTick
  BY <1>5 DEF DhcpQuit, DhcpFinished, DhcpTick, RxDone, OpQuit, OpTop, OpDone, OpTick
<1> QED
  BY <1>1, <1>2, <1>3, <1>4, <1>5 DEF HostNext

LEMMA SentKept ==
    ASSUME NEW s, NEW f, SentSound(s, f), servers' = servers, faults'.odd = 0 => faults.odd = 0,
           config' = config \/ config.addr = inaddr_any
    PROVE  SentSound(s, f)'
<1>1. Asks(s, f) => Asks(s, f)'
  BY DEF Asks
<1>2. Unicast(s, f) => Unicast(s, f)'
  BY DEF Unicast
<1>3. Requests(f) => Requests(f)'
  BY DEF Requests
<1> QED
  BY <1>1, <1>2, <1>3 DEF SentSound, Discover

\* The configuration changes once, at the end of DHCP.
LEMMA ConfigKept ==
    ASSUME IInv, HostNext
    PROVE  \/ config' = config
           \/ DhcpFinished /\ config.addr = inaddr_any
<1> USE DEF IInv
<1>1. CASE DhcpFinished
  <2>1. config = ipv4_net_config_none
    BY <1>1 DEF DhcpFinished, ConfigSound, Discovery
  <2> QED
    BY <1>1, <2>1 DEF ipv4_net_config_none
<1>2. CASE Receive
  <2>1. PICK f : Outcome(f)
    BY <1>2, ReceiveCases
  <2> QED
    BY <2>1 DEF Outcome, Ignores, Ignore, Stops, TakesOffer, TakesAck, TakesAnswer, Echoes, Learns
<1>3. CASE ~DhcpFinished /\ ~Receive
  BY <1>3 DEF HostNext, DhcpQuit, DhcpTick, RxDone, DhcpTimeout, OpStart, Fail, OpQuit,
                OpTop, OpDone, OpTick, OpTimeout
<1> QED
  BY <1>1, <1>2, <1>3

LEMMA FromHostSoundKept ==
    ASSUME IInv, [Next]_vars
    PROVE  FromHostSound'
<1> USE DEF IInv
<1>0. /\ IsABag(fromHost)
      /\ \A sf \in DOMAIN fromHost : sf = <<sf[1], sf[2]>> /\ SentSound(sf[1], sf[2])
  BY DEF Typed, FromHostSound
<1>1. CASE UNCHANGED vars
  <2>1. fromHost' = fromHost /\ servers' = servers /\ config' = config /\ faults' = faults
    BY <1>1 DEF vars, linkVars, hostVars
  <2>2. \A s, f : SentSound(s, f) => SentSound(s, f)'
    BY <2>1, SentKept
  <2> QED
    BY <1>0, <2>1, <2>2 DEF FromHostSound
<1>2. CASE HostNext
  <2>1. \A s, f : SentSound(s, f) => SentSound(s, f)'
    <3>1. servers' = servers /\ faults'.odd = faults.odd
      BY <1>2, HostFrame
    <3>2. config' = config \/ config.addr = inaddr_any
      BY <1>2, ConfigKept
    <3> QED
      BY <3>1, <3>2, SentKept
  <2>2. CASE fromHost' = fromHost
    BY <1>0, <2>1, <2>2 DEF FromHostSound
  <2>3. ASSUME NEW g, Sends(g)
        PROVE  FromHostSound'
    <3> DEFINE S == {<<s, g>> : s \in Takers(g)}
    <3>1. fromHost' = fromHost (+) SetToBag(S)
      BY <2>3 DEF Sends, Sent
    <3>2. \A sf \in S : sf = <<sf[1], sf[2]>> /\ SentSound(sf[1], sf[2])
      BY <2>3 DEF Sends
    <3> HIDE DEF S
    <3>3. DOMAIN fromHost' = DOMAIN fromHost \cup S
      BY <1>0, <3>1, BagAdded
    <3> QED
      BY <1>0, <2>1, <3>2, <3>3 DEF FromHostSound
  <2> QED
    BY <1>2, <2>2, <2>3, HostSends
<1>3. CASE LinkNext
  <2>1. DOMAIN fromHost' \subseteq DOMAIN fromHost
    <3>1. CASE StationAnswers
      BY <1>0, <3>1, BagTaken DEF StationAnswers, BagToSet
    <3>2. CASE Lose
      BY <1>0, <3>2, BagTaken DEF Lose, BagToSet
    <3>3. CASE Duplicate \/ OthersSend \/ \E s \in Stations : Replace(s)
      BY <3>3 DEF Duplicate, OthersSend, Replace
    <3> QED
      BY <1>3, <3>1, <3>2, <3>3 DEF LinkNext
  <2>2. \A s, f : SentSound(s, f) => SentSound(s, f)'
    <3>1. servers' = servers /\ (faults'.odd = 0 => faults.odd = 0) /\ config' = config
      BY <1>3, LinkFrame DEF Typed, Faults, hostVars
    <3> QED
      BY <3>1, SentKept
  <2> QED
    BY <1>0, <2>1, <2>2 DEF FromHostSound
<1> QED
  BY <1>1, <1>2, <1>3 DEF Next, Ended

-------------------------------------------------------------------------------
(* The interface.                                                          *)

\* What a step of the machine does to configuration, ARP table and client.
LEMMA StateKept ==
    ASSUME IInv, HostNext
    PROVE  \/ DhcpTimeout
           \/ DhcpFinished
           \/ \E f : Taken(f) /\ (TakesOffer(f) \/ TakesAck(f) \/ Learns(f))
           \/ UNCHANGED <<config, arp, dhcp>> /\ (Discovery' => Discovery)
<1> USE DEF IInv
<1>1. CASE Receive
  <2>1. PICK f : Taken(f) /\ Outcome(f)
    BY <1>1, ReceiveCases
  <2>2. CASE TakesOffer(f) \/ TakesAck(f) \/ Learns(f)
    BY <2>1, <2>2
  <2>3. CASE Ignores(f) \/ Stops(f) \/ TakesAnswer(f) \/ Echoes(f)
    BY <2>3 DEF Ignores, Ignore, Stops, TakesAnswer, Echoes, Discovery
  <2> QED
    BY <2>1, <2>2, <2>3 DEF Outcome
<1>2. CASE OpStart
  BY <1>2 DEF OpStart, Fail, Discovery
<1>3. CASE DhcpQuit \/ DhcpTick \/ RxDone \/ OpQuit \/ OpTop \/ OpDone \/ OpTimeout \/ OpTick
  BY <1>3 DEF DhcpQuit, DhcpTick, RxDone, StartRx, OpQuit, OpEnd, OpTop, OpDone, OpTimeout, OpTick, Discovery
<1> QED
  BY <1>1, <1>2, <1>3 DEF HostNext

\* The offer taken: what the server leases, if it adds nothing.
LEMMA OfferConfigures ==
    ASSUME Typed, NEW f, TakesOffer(f)
    PROVE  /\ dhcp' = [state |-> "wait_for_ack", config |-> Offered(f.body.data)]
           /\ Offered(f.body.data) \in Configs
           /\ Offered(f.body.data).addr \in Assignable
           /\ faults.odd = 0 => \E s \in servers : Offered(f.body.data) = Lease(s)
<1>1. PICK s \in servers : Offers(s, f) \/ Acknowledges(s, f)
  BY DEF TakesOffer, DhcpReply
<1>2. f.body.data.yiaddr \in Assignable /\ f.body.data.message = "offer"
  BY DEF TakesOffer, Accepted
<1>3. f.body.data.options \in DhcpOptions
  <2>1. ~Acknowledges(s, f)
    <3>1. \A a, o : Reply(s, "ack", a, o).body.data.message = "ack"
      BY ReplyFields
    <3> QED
      BY <1>2, <3>1 DEF Acknowledges
  <2> QED
    BY <1>1, <2>1 DEF Offers
<1>4. Offered(f.body.data) \in Configs
  BY <1>2, <1>3, OfferedTyped DEF Assignable
<1>5. Offered(f.body.data).addr \in Assignable
  BY <1>2 DEF Offered
<1>6. faults.odd = 0 => \E t \in servers : Offered(f.body.data) = Lease(t)
  BY OfferTaken DEF TakesOffer, Lease
<1> QED
  BY <1>4, <1>5, <1>6 DEF TakesOffer

\* The acknowledgement taken: the server has granted the address.
LEMMA AckGrants ==
    ASSUME Typed, ConfigSound, NEW f, TakesAck(f), faults.odd = 0
    PROVE  \E s \in servers : dhcp.config = Lease(s) /\ <<s, dhcp.config.addr>> \in granted
<1>1. PICK t \in servers : dhcp.config = Lease(t)
  BY DEF TakesAck, ConfigSound
<1>2. PICK s \in servers : Offers(s, f) \/ Acknowledges(s, f)
  BY DEF TakesAck, DhcpReply
<1>3. f.body.data.message = "ack" /\ f.body.data.yiaddr = dhcp.config.addr
  BY DEF TakesAck, Accepted
<1>4. ~Offers(s, f)
  <2>1. \A a, o : Reply(s, "offer", a, o).body.data.message = "offer"
    BY ReplyFields
  <2> QED
    BY <1>3, <2>1 DEF Offers
<1>5. <<s, dhcp.config.addr>> \in granted /\ dhcp.config.addr = Leases[s].addr
  BY <1>2, <1>3, <1>4 DEF Acknowledges
<1>6. s \in Servers /\ t \in Servers /\ Leases[t].addr = Leases[s].addr
  BY <1>1, <1>5, LeaseTyped DEF Typed
<1>7. s = t
  BY <1>6, LeaseAssumption
<1> QED
  BY <1>1, <1>5, <1>7

LEMMA ConfigSoundKept ==
    ASSUME IInv, [Next]_vars
    PROVE  ConfigSound'
<1> USE DEF IInv
<1>1. CASE UNCHANGED vars
  BY <1>1 DEF ConfigSound, Discovery, vars, hostVars, linkVars
<1>2. CASE LinkNext
  <2>1. /\ config' = config /\ arp' = arp /\ dhcp' = dhcp /\ pc' = pc /\ servers' = servers
        /\ granted \subseteq granted' /\ (faults'.odd = 0 => faults.odd = 0)
    BY <1>2, LinkFrame DEF hostVars, Typed, Faults
  <2> QED
    BY <2>1 DEF ConfigSound, Discovery
<1>3. CASE HostNext
  <2>0. servers' = servers /\ granted' = granted /\ faults'.odd = faults.odd
    BY <1>3, HostFrame
  <2>1. CASE UNCHANGED <<config, arp, dhcp>> /\ (Discovery' => Discovery)
    BY <2>0, <2>1 DEF ConfigSound
  <2>2. CASE DhcpTimeout
    <3>1. /\ Discovery /\ config' = config /\ arp' = arp
          /\ dhcp'.state = "wait_for_offer" /\ dhcp'.config = dhcp.config
      BY <2>2 DEF DhcpTimeout, send_dhcp_discover, Discovery, Typed
    <3> QED
      BY <2>0, <3>1 DEF ConfigSound
  <2>3. CASE DhcpFinished
    <3>1. /\ dhcp.state = "finished" /\ config' = dhcp.config /\ dhcp' = dhcp /\ pc' = "idle"
      BY <2>3 DEF DhcpFinished
    <3>2. dhcp.config.addr \in Assignable
      BY <3>1 DEF ConfigSound
    <3>3. config'.addr # inaddr_any /\ ~Discovery'
      BY <3>1, <3>2 DEF Assignable, Discovery
    <3> QED
      BY <2>0, <3>1, <3>3 DEF ConfigSound
  <2>4. ASSUME NEW f, TakesOffer(f) PROVE ConfigSound'
    <3>1. /\ config' = config /\ arp' = arp /\ Discovery
          /\ dhcp'.state = "wait_for_ack" /\ dhcp'.config.addr \in Assignable
          /\ faults.odd = 0 => \E s \in servers : dhcp'.config = Lease(s)
      BY <2>4, OfferConfigures DEF TakesOffer, Discovery
    <3> QED
      BY <2>0, <3>1 DEF ConfigSound
  <2>5. ASSUME NEW f, TakesAck(f) PROVE ConfigSound'
    <3>1. /\ config' = config /\ arp' = arp /\ Discovery /\ dhcp.state = "wait_for_ack"
          /\ dhcp'.state = "finished" /\ dhcp'.config = dhcp.config
          /\ faults.odd = 0 => \E s \in servers : dhcp.config = Lease(s) /\ <<s, dhcp.config.addr>> \in granted
      BY <2>5, AckGrants DEF TakesAck, Discovery, Typed
    <3> QED
      BY <2>0, <3>1 DEF ConfigSound
  <2>6. ASSUME NEW f, Learns(f) PROVE ConfigSound'
    <3>1. config' = config /\ config.addr # inaddr_any /\ dhcp' = dhcp /\ pc' = pc
      BY <2>6 DEF Learns
    <3> QED
      BY <2>0, <3>1 DEF ConfigSound, Discovery
  <2> QED
    BY <1>3, <2>1, <2>2, <2>3, <2>4, <2>5, <2>6, StateKept
<1> QED
  BY <1>1, <1>2, <1>3 DEF Next, Ended

\* What is learned from a frame.
LEMMA LearnedEntries ==
    ASSUME NEW f, arp' = Learned(f)
    PROVE  /\ DOMAIN arp' \subseteq DOMAIN arp \cup {f.spa}
           /\ f.spa \in DOMAIN arp' => arp'[f.spa] = f.sha
           /\ \A a \in DOMAIN arp' \ {f.spa} : a \in DOMAIN arp /\ arp'[a] = arp[a]
<1>1. CASE f.spa \in DOMAIN arp \/ config.addr = f.tpa
  <2>1. arp' = [a \in DOMAIN arp \cup {f.spa} |-> IF a = f.spa THEN f.sha ELSE arp[a]]
    BY <1>1 DEF Learned
  <2> QED
    BY <2>1
<1>2. CASE ~(f.spa \in DOMAIN arp \/ config.addr = f.tpa)
  BY <1>2 DEF Learned
<1> QED
  BY <1>1, <1>2

\* Configuration and sockets apart, only ARP frames change the table.
LEMMA ArpChanges ==
    ASSUME IInv, [Next]_vars
    PROVE  arp' = arp \/ \E f : HostNext /\ Taken(f) /\ Learns(f)
<1>1. CASE UNCHANGED vars
  BY <1>1 DEF vars, hostVars
<1>2. CASE LinkNext
  BY <1>2, LinkFrame DEF hostVars, IInv
<1>3. CASE HostNext
  BY <1>3, StateKept DEF DhcpTimeout, DhcpFinished, TakesOffer, TakesAck
<1> QED
  BY <1>1, <1>2, <1>3 DEF Next, Ended

LEMMA ArpSoundKept ==
    ASSUME IInv, [Next]_vars
    PROVE  ArpSound'
<1> USE DEF IInv
<1>1. CASE arp' = arp
  BY <1>1 DEF ArpSound
<1>2. ASSUME NEW f, Learns(f) PROVE ArpSound'
  <2>1. PICK s \in Stations : f.sha = station[s] /\ (f.spa = StationAddr[s] \/ f.spa \notin OnTheLink)
    BY <1>2 DEF Learns, Truthful
  <2>2. f.sha \in {<<s, 1>>, <<s, 2>>}
    BY <2>1 DEF Typed
  <2>3. arp' = Learned(f)
    BY <1>2 DEF Learns
  <2>4. ASSUME NEW a \in DOMAIN arp'
        PROVE  \E t \in Stations : arp'[a] \in {<<t, 1>>, <<t, 2>>} /\ (a = StationAddr[t] \/ a \notin OnTheLink)
    <3>1. CASE a = f.spa
      <4>1. arp'[a] = f.sha
        BY <2>3, <2>4, <3>1, LearnedEntries
      <4> QED
        BY <2>1, <2>2, <3>1, <4>1
    <3>2. CASE a # f.spa
      <4>1. a \in DOMAIN arp /\ arp'[a] = arp[a]
        BY <2>3, <2>4, <3>2, LearnedEntries
      <4> QED
        BY <4>1 DEF ArpSound
    <3> QED
      BY <3>1, <3>2
  <2> QED
    BY <2>4 DEF ArpSound
<1> QED
  BY <1>1, <1>2, ArpChanges

\* A machine that runs has not failed before.
LEMMA RunsOn ==
    ASSUME IInv, HostNext, failed' = "no"
    PROVE  failed = "no"
<1>1. CASE Receive
  <2>1. PICK f : Outcome(f)
    BY <1>1, ReceiveCases DEF IInv
  <2> QED
    BY <2>1 DEF Outcome, Ignores, Ignore, Stops, TakesOffer, TakesAck, TakesAnswer, Echoes, Learns
<1>2. CASE ~Receive
  BY <1>2 DEF HostNext, DhcpQuit, DhcpFinished, DhcpTimeout, DhcpTick, RxDone, OpStart, Fail, OpQuit, OpTop,
              OpDone, OpTimeout, OpTick
<1> QED
  BY <1>1, <1>2

\* The machine takes an ARP frame off the ring only to learn from it.
LEMMA AnnouncementsKept ==
    ASSUME IInv, HostNext, failed' = "no", NEW g \in DOMAIN toHost, g.type = "arp", g \notin DOMAIN toHost'
    PROVE  DOMAIN arp' = {} \/ Learns(g)
<1> USE DEF IInv
<1>1. IsABag(toHost)
  BY DEF Typed
<1>2. Receive
  BY HostTakes
<1>3. PICK f : Taken(f) /\ Outcome(f)
  BY <1>2, ReceiveCases
<1>4. f = g
  BY <1>1, <1>3, BagTaken DEF Taken
<1>5. CASE Ignores(f)
  BY <1>4, <1>5 DEF Ignores, Ignore, ConfigSound
<1>6. CASE Stops(f)
  BY <1>6 DEF Stops
<1>7. CASE TakesOffer(f) \/ TakesAck(f)
  BY <1>4, <1>7 DEF TakesOffer, TakesAck, DhcpReply
<1>8. CASE TakesAnswer(f) \/ Echoes(f)
  BY <1>4, <1>8 DEF TakesAnswer, Echoes
<1>9. CASE Learns(f)
  BY <1>4, <1>9
<1> QED
  BY <1>3, <1>5, <1>6, <1>7, <1>8, <1>9 DEF Outcome

LEMMA AnnouncedKept ==
    ASSUME IInv, [Next]_vars
    PROVE  Announced'
<1> USE DEF IInv
<1>1. CASE UNCHANGED vars
  BY <1>1 DEF Announced, vars, hostVars, linkVars
<1>2. CASE LinkNext
  <2> SUFFICES ASSUME faults'.loss = 0, failed' = "no", NEW s \in Stations, StationAddr[s] \in DOMAIN arp'
               PROVE  \/ arp'[StationAddr[s]] = station'[s]
                      \/ \E f \in DOMAIN toHost' : f.type = "arp" /\ f.spa = StationAddr[s]
    BY DEF Announced
  <2>1. arp' = arp /\ failed = "no" /\ faults.loss = 0 /\ IsABag(toHost)
    BY <1>2, LinkFrame DEF hostVars, Typed, Faults
  <2>2. \/ arp[StationAddr[s]] = station[s]
        \/ \E f \in DOMAIN toHost : f.type = "arp" /\ f.spa = StationAddr[s]
    BY <2>1 DEF Announced
  <2>3. CASE StationAnswers \/ Duplicate \/ OthersSend
    <3>1. station' = station
      BY <2>3 DEF StationAnswers, Duplicate, OthersSend, linkVars
    <3>2. PICK S : toHost' = toHost (+) SetToBag(S)
      BY <2>3 DEF StationAnswers, Duplicate, OthersSend
    <3>3. DOMAIN toHost \subseteq DOMAIN toHost'
      BY <2>1, <3>2, BagAdded
    <3> QED
      BY <2>1, <2>2, <3>1, <3>3
  <2>4. ~Lose
    <3>1. Lose => faults'.loss = faults.loss + 1
      BY Spent DEF Lose, Spend
    <3> QED
      BY <2>1, <3>1
  <2>5. ASSUME NEW r \in Stations, Replace(r)
        PROVE  \/ arp'[StationAddr[s]] = station'[s]
               \/ \E f \in DOMAIN toHost' : f.type = "arp" /\ f.spa = StationAddr[s]
    <3>1. CASE s = r
      BY <2>5, <3>1, ReplaceFrames
    <3>2. CASE s # r
      <4>1. station'[s] = station[s] /\ toHost = EmptyBag
        BY <2>5, <3>2 DEF Replace, Typed
      <4> QED
        BY <2>1, <2>2, <4>1, EmptyBagElements
    <3> QED
      BY <3>1, <3>2
  <2> QED
    BY <1>2, <2>3, <2>4, <2>5 DEF LinkNext
<1>3. CASE HostNext
  <2> SUFFICES ASSUME faults'.loss = 0, failed' = "no", NEW s \in Stations, StationAddr[s] \in DOMAIN arp'
               PROVE  \/ arp'[StationAddr[s]] = station'[s]
                      \/ \E f \in DOMAIN toHost' : f.type = "arp" /\ f.spa = StationAddr[s]
    BY DEF Announced
  <2>1. station' = station /\ failed = "no" /\ faults.loss = 0
    BY <1>3, HostFrame, RunsOn
  <2>2. StationAddr[s] \in DOMAIN arp =>
        \/ arp[StationAddr[s]] = station[s]
        \/ \E f \in DOMAIN toHost : f.type = "arp" /\ f.spa = StationAddr[s]
    BY <2>1 DEF Announced
  <2>3. ASSUME NEW g, Learns(g), g.spa = StationAddr[s]
        PROVE  arp'[StationAddr[s]] = station'[s]
    <3>1. PICK t \in Stations : g.sha = station[t] /\ (g.spa = StationAddr[t] \/ g.spa \notin OnTheLink)
      BY <2>3 DEF Learns, Truthful
    <3>2. t = s
      BY <2>3, <3>1, NetAssumption DEF OnTheLink
    <3>3. arp'[StationAddr[s]] = g.sha
      BY <2>3, LearnedEntries DEF Learns
    <3> QED
      BY <2>1, <3>1, <3>2, <3>3
  <2>4. ASSUME NEW g \in DOMAIN toHost, g.type = "arp", g.spa = StationAddr[s]
        PROVE  \/ arp'[StationAddr[s]] = station'[s]
               \/ \E f \in DOMAIN toHost' : f.type = "arp" /\ f.spa = StationAddr[s]
    BY <1>3, <2>3, <2>4, AnnouncementsKept
  <2>5. CASE StationAddr[s] \in DOMAIN arp /\ arp'[StationAddr[s]] = arp[StationAddr[s]]
    BY <2>1, <2>2, <2>4, <2>5
  <2>6. CASE \E f : Learns(f)
    <3>1. PICK f : Learns(f)
      BY <2>6
    <3>2. CASE f.spa = StationAddr[s]
      BY <2>3, <3>1, <3>2
    <3>3. CASE f.spa # StationAddr[s]
      <4>1. StationAddr[s] \in DOMAIN arp /\ arp'[StationAddr[s]] = arp[StationAddr[s]]
        BY <3>1, <3>3, LearnedEntries DEF Learns
      <4> QED
        BY <2>5, <4>1
    <3> QED
      BY <3>2, <3>3
  <2> QED
    BY <2>5, <2>6, ArpChanges
<1> QED
  BY <1>1, <1>2, <1>3 DEF Next, Ended

\* The one socket is closed.
LEMMA ClosedOfOne ==
    ASSUME NEW a, NEW p, NEW o, sockets = <<[addr |-> a, port |-> p, owner |-> o]>>
    PROVE  Closed(a, p) = <<>>
<1>1. Len(sockets) - 1 = 0
  OBVIOUS
<1>2. 1 .. Len(sockets) - 1 = {}
  BY <1>1
<1> QED
  BY <1>2 DEF Closed

LEMMA SocketSoundKept ==
    ASSUME IInv, [Next]_vars
    PROVE  SocketSound'
<1> USE DEF IInv
<1>1. CASE UNCHANGED vars \/ LinkNext
  <2>1. pc' = pc /\ sockets' = sockets /\ config' = config /\ op' = op
    BY <1>1, LinkFrame DEF vars, hostVars
  <2> QED
    BY <2>1 DEF SocketSound, Discovery, Transfer, NoRoute, OnLink, tftp_address
<1>2. CASE DhcpQuit \/ DhcpFinished
  <2>1. pc = "dhcp_top" /\ pc' = "idle" /\ sockets' = Closed(inaddr_any, dhcp_src_port)
    BY <1>2 DEF DhcpQuit, DhcpFinished, CloseDhcp
  <2>2. sockets' = <<>>
    BY <2>1, ClosedOfOne DEF SocketSound, Discovery, DhcpSockets
  <2> QED
    BY <2>1, <2>2 DEF SocketSound, Discovery, Transfer
<1>3. CASE OpQuit \/ OpDone
  <2>1. Transfer /\ pc' = "idle" /\ sockets' = Closed(config.addr, op.port)
    BY <1>3 DEF OpQuit, OpDone, OpEnd, Transfer
  <2>2. sockets' = <<>>
    BY <2>1, ClosedOfOne DEF SocketSound, OpSockets
  <2> QED
    BY <2>1, <2>2 DEF SocketSound, Discovery, Transfer
<1>4. CASE OpStart /\ ~Fail("no_route")
  <2>1. /\ sockets = <<>> /\ ~NoRoute(tftp_address) /\ pc' = "op_top" /\ config' = config
        /\ sockets' = Opened(config.addr, FreePort(config.addr), "op")
        /\ op'.port = FreePort(config.addr)
    BY <1>4 DEF OpStart, SocketSound
  <2>2. sockets' = OpSockets(config.addr) /\ op'.port = first_port
    BY <2>1, FreePortOfNone DEF Opened, OpSockets
  <2> QED
    BY <2>1, <2>2 DEF SocketSound, Discovery, Transfer, NoRoute, OnLink, tftp_address, OpSockets
<1>5. ASSUME sockets' = sockets, config' = config, op'.port = op.port,
             Discovery' => Discovery, Transfer' => Transfer, pc' = "idle" => pc = "idle"
      PROVE  SocketSound'
  BY <1>5 DEF SocketSound, NoRoute, OnLink, tftp_address
<1>6. CASE Receive
  <2>1. PICK f : Outcome(f)
    BY <1>6, ReceiveCases
  <2>2. sockets' = sockets /\ config' = config /\ op'.port = op.port
    BY <2>1 DEF Outcome, Ignores, Ignore, Stops, TakesOffer, TakesAck, TakesAnswer, Echoes, Learns, Typed
  <2>3. pc' = pc \/ pc' \in {"stopped", "hung"}
    BY <2>1 DEF Outcome, Ignores, Ignore, Stops, TakesOffer, TakesAck, TakesAnswer, Echoes, Learns
  <2> QED
    BY <1>5, <2>2, <2>3 DEF Discovery, Transfer
<1>7. CASE \/ DhcpTimeout \/ DhcpTick \/ RxDone \/ OpTop \/ OpTimeout \/ OpTick \/ (OpStart /\ Fail("no_route"))
  <2>1. sockets' = sockets /\ config' = config /\ op'.port = op.port
    BY <1>7 DEF DhcpTimeout, DhcpTick, RxDone, OpTop, OpTimeout, OpTick, Fail
  <2>2. (Discovery' => Discovery) /\ (Transfer' => Transfer) /\ (pc' = "idle" => pc = "idle")
    BY <1>7 DEF DhcpTimeout, DhcpTick, RxDone, StartRx, OpTop, OpTimeout, OpTick, Fail, Discovery, Transfer
  <2> QED
    BY <1>5, <2>1, <2>2
<1> QED
  BY <1>1, <1>2, <1>3, <1>4, <1>6, <1>7 DEF Next, HostNext, Ended

-------------------------------------------------------------------------------
(* Types.                                                                  *)

LEMMA LinkTyped ==
    ASSUME IInv, LinkNext
    PROVE  Typed'
<1> USE DEF IInv
<1>1. /\ UNCHANGED <<pc, failed, left, config, arp, dhcp, op>> /\ servers' = servers /\ faults' \in Faults
  BY LinkFrame DEF hostVars
<1>2. IsABag(toHost) /\ IsABag(fromHost)
  BY DEF Typed
<1>3. IsABag(toHost')
  <2>1. CASE \E S : toHost' = toHost (+) SetToBag(S)
    BY <1>2, <2>1, BagAdded
  <2>2. CASE toHost' = toHost \/ \E f \in DOMAIN toHost : toHost' = toHost (-) SetToBag({f})
    BY <1>2, <2>2, BagTaken
  <2>3. CASE \E s \in Stations : Replace(s)
    BY <2>3, ReplaceFrames
  <2> QED
    BY <2>1, <2>2, <2>3 DEF LinkNext, StationAnswers, Lose, Duplicate, OthersSend, BagToSet
<1>4. IsABag(fromHost')
  <2>1. fromHost' = fromHost \/ \E f \in DOMAIN fromHost : fromHost' = fromHost (-) SetToBag({f})
    BY DEF LinkNext, StationAnswers, Lose, Duplicate, OthersSend, Replace, BagToSet
  <2> QED
    BY <1>2, <2>1, BagTaken
<1>5. DOMAIN station' = Stations /\ \A s \in Stations : station'[s] \in {<<s, 1>>, <<s, 2>>}
  <2>1. CASE station' = station
    BY <2>1 DEF Typed
  <2>2. ASSUME NEW r \in Stations, Replace(r)
        PROVE  DOMAIN station' = Stations /\ \A s \in Stations : station'[s] \in {<<s, 1>>, <<s, 2>>}
    BY <2>2 DEF Replace, Typed
  <2> QED
    BY <2>1, <2>2 DEF LinkNext, StationAnswers, Lose, Duplicate, OthersSend, linkVars
<1> QED
  BY <1>1, <1>3, <1>4, <1>5 DEF Typed

\* Program counter, failure, count and transfer.
LEMMA LoopTyped ==
    ASSUME IInv, HostNext
    PROVE  /\ pc' \in {"dhcp_top", "dhcp_rx", "idle", "op_top", "op_rx", "op_tick", "stopped", "hung"}
           /\ (failed' = "no") <=> (pc' \notin {"stopped", "hung"})
           /\ left' \in 0 .. MaxPackets
           /\ op' \in [port : Nat, answered : BOOLEAN, count : Nat]
<1> USE DEF IInv
<1>0. /\ pc \in {"dhcp_top", "dhcp_rx", "idle", "op_top", "op_rx", "op_tick", "stopped", "hung"}
      /\ (failed = "no") <=> (pc \notin {"stopped", "hung"})
      /\ left \in 0 .. MaxPackets /\ MaxPackets \in Nat
      /\ op \in [port : Nat, answered : BOOLEAN, count : Nat]
  BY NetAssumption DEF Typed
<1>1. CASE Receive
  <2>1. PICK f : Taken(f) /\ Outcome(f)
    BY <1>1, ReceiveCases
  <2>2. left' \in 0 .. MaxPackets
    BY <1>0, <2>1 DEF Taken
  <2>3. CASE Stops(f)
    BY <1>0, <2>2, <2>3 DEF Stops
  <2>4. CASE TakesAnswer(f)
    BY <1>0, <2>2, <2>4 DEF TakesAnswer
  <2>5. CASE Ignores(f) \/ TakesOffer(f) \/ TakesAck(f) \/ Echoes(f) \/ Learns(f)
    BY <1>0, <2>2, <2>5 DEF Ignores, Ignore, TakesOffer, TakesAck, Echoes, Learns
  <2> QED
    BY <2>1, <2>3, <2>4, <2>5 DEF Outcome
<1>2. CASE DhcpQuit \/ DhcpFinished
  BY <1>0, <1>2 DEF DhcpQuit, DhcpFinished
<1>3. CASE DhcpTimeout \/ DhcpTick
  BY <1>0, <1>3 DEF DhcpTimeout, DhcpTick, StartRx
<1>4. CASE RxDone
  BY <1>0, <1>4 DEF RxDone
<1>5. CASE OpStart
  <2>0. pc = "idle" /\ left' = left
    BY <1>5 DEF OpStart
  <2>1. CASE Fail("no_route")
    BY <1>0, <2>0, <2>1 DEF Fail
  <2>2. CASE ~Fail("no_route")
    <3>1. /\ op' = [port |-> FreePort(config.addr), answered |-> FALSE, count |-> op.count + 1]
          /\ pc' = "op_top" /\ failed' = failed /\ sockets = <<>>
      BY <1>5, <2>2 DEF OpStart, SocketSound
    <3>2. FreePort(config.addr) \in Nat
      <4>1. FreePort(config.addr) = first_port
        BY <3>1, FreePortOfNone
      <4> QED
        BY <4>1 DEF first_port
    <3> QED
      BY <1>0, <2>0, <3>1, <3>2
  <2> QED
    BY <2>1, <2>2
<1>6. CASE OpQuit \/ OpDone
  <2>1. pc' = "idle" /\ failed' = failed /\ left' = left /\ pc \in {"op_top", "op_tick"}
        /\ op' = [op EXCEPT !.port = 0, !.answered = FALSE]
    BY <1>6 DEF OpQuit, OpDone, OpEnd
  <2>2. op' \in [port : Nat, answered : BOOLEAN, count : Nat]
    BY <1>0, <2>1
  <2> QED
    BY <1>0, <2>1, <2>2
<1>7. CASE OpTop
  BY <1>0, <1>7 DEF OpTop, StartRx
<1>8. CASE OpTimeout \/ OpTick
  BY <1>0, <1>8 DEF OpTimeout, OpTick
<1> QED
  BY <1>1, <1>2, <1>3, <1>4, <1>5, <1>6, <1>7, <1>8 DEF HostNext

LEMMA HostTyped ==
    ASSUME IInv, HostNext
    PROVE  Typed'
<1> USE DEF IInv
<1>1. station' = station /\ servers' = servers /\ faults' \in Faults
  BY HostFrame
<1>2. IsABag(toHost) /\ IsABag(fromHost)
  BY DEF Typed
<1>3. IsABag(toHost')
  BY <1>2, HostTakes, BagTaken
<1>4. IsABag(fromHost')
  <2>1. CASE fromHost' = fromHost
    BY <1>2, <2>1
  <2>2. ASSUME NEW g, Sends(g) PROVE IsABag(fromHost')
    <3> DEFINE S == {<<s, g>> : s \in Takers(g)}
    <3>1. fromHost' = fromHost (+) SetToBag(S)
      BY <2>2 DEF Sends, Sent
    <3> HIDE DEF S
    <3> QED
      BY <1>2, <3>1, BagAdded
  <2> QED
    BY <2>1, <2>2, HostSends
<1> DEFINE Dhcps == [state : {"wait_for_offer", "wait_for_ack", "finished"}, config : Configs]
<1>5. config' \in Configs /\ dhcp' \in Dhcps /\ DOMAIN arp' \subseteq SUBSET Bits
  <2>0. config \in Configs /\ dhcp \in Dhcps /\ DOMAIN arp \subseteq SUBSET Bits
    BY DEF Typed
  <2>1. CASE UNCHANGED <<config, arp, dhcp>>
    BY <2>0, <2>1
  <2>2. CASE DhcpTimeout
    <3>1. dhcp' = [dhcp EXCEPT !.state = "wait_for_offer"] /\ config' = config /\ arp' = arp
      BY <2>2 DEF DhcpTimeout, send_dhcp_discover
    <3> QED
      BY <2>0, <3>1
  <2>3. CASE DhcpFinished
    BY <2>0, <2>3 DEF DhcpFinished
  <2>4. ASSUME NEW f, TakesOffer(f)
        PROVE  config' \in Configs /\ dhcp' \in Dhcps /\ DOMAIN arp' \subseteq SUBSET Bits
    <3>1. config' = config /\ arp' = arp
      BY <2>4 DEF TakesOffer
    <3>2. dhcp' = [state |-> "wait_for_ack", config |-> Offered(f.body.data)] /\ Offered(f.body.data) \in Configs
      BY <2>4, OfferConfigures
    <3> QED
      BY <2>0, <3>1, <3>2
  <2>5. ASSUME NEW f, TakesAck(f)
        PROVE  config' \in Configs /\ dhcp' \in Dhcps /\ DOMAIN arp' \subseteq SUBSET Bits
    <3>1. dhcp' = [dhcp EXCEPT !.state = "finished"] /\ config' = config /\ arp' = arp
      BY <2>5 DEF TakesAck
    <3> QED
      BY <2>0, <3>1
  <2>6. ASSUME NEW f, Learns(f)
        PROVE  config' \in Configs /\ dhcp' \in Dhcps /\ DOMAIN arp' \subseteq SUBSET Bits
    <3>1. config' = config /\ dhcp' = dhcp /\ arp' = Learned(f) /\ f.spa \in SUBSET Bits
      BY <2>6 DEF Learns, Truthful
    <3>2. DOMAIN arp' \subseteq DOMAIN arp \cup {f.spa}
      BY <3>1, LearnedEntries
    <3> QED
      BY <2>0, <3>1, <3>2
  <2> QED
    BY <2>1, <2>2, <2>3, <2>4, <2>5, <2>6, StateKept
<1> QED
  BY <1>1, <1>3, <1>4, <1>5, LoopTyped DEF Typed

LEMMA TypedKept ==
    ASSUME IInv, [Next]_vars
    PROVE  Typed'
<1>1. CASE UNCHANGED vars
  BY <1>1 DEF IInv, Typed, vars, hostVars, linkVars
<1> QED
  BY <1>1, LinkTyped, HostTyped DEF Next, Ended

-------------------------------------------------------------------------------
(* A calm link: one server, nothing late or twice.                         *)

LEMMA SumOfNothing ==
    ASSUME NEW a \in Nat, NEW b \in Nat, NEW c \in Nat, NEW d \in Nat, a + b + c + d = 0
    PROVE  a = 0 /\ b = 0 /\ c = 0 /\ d = 0
OBVIOUS

LEMMA CalmBefore ==
    ASSUME IInv, [Next]_vars, Calm'
    PROVE  /\ Calm
           /\ faults.odd = 0 /\ faults'.odd = 0 /\ faults'.dup = 0 /\ faults'.early = 0 /\ faults'.bad = 0
<1>1. /\ servers' = servers /\ faults' \in Faults
      /\ faults'.dup >= faults.dup /\ faults'.early >= faults.early
      /\ faults'.bad >= faults.bad /\ faults'.odd >= faults.odd
  <2>0. Typed /\ faults \in Faults
    BY DEF IInv, Typed
  <2>1. CASE UNCHANGED vars
    <3>1. servers' = servers /\ faults' = faults
      BY <2>1 DEF vars, linkVars
    <3> QED
      BY <2>0, <3>1 DEF Faults
  <2>2. CASE HostNext
    <3>1. \A n \in Nat : n >= n
      OBVIOUS
    <3> QED
      BY <2>0, <2>2, <3>1, HostFrame DEF Faults
  <2>3. CASE LinkNext
    BY <2>0, <2>3, LinkFrame
  <2> QED
    BY <2>1, <2>2, <2>3 DEF Next, Ended
<1>2. /\ faults.dup \in Nat /\ faults.early \in Nat /\ faults.bad \in Nat /\ faults.odd \in Nat
      /\ faults'.dup \in Nat /\ faults'.early \in Nat /\ faults'.bad \in Nat /\ faults'.odd \in Nat
  BY <1>1 DEF IInv, Typed, Faults
<1>3. Cardinality(servers') = 1 /\ faults'.dup + faults'.early + faults'.bad + faults'.odd = 0
  BY DEF Calm
<1>4. faults'.dup = 0 /\ faults'.early = 0 /\ faults'.bad = 0 /\ faults'.odd = 0
  BY <1>2, <1>3, SumOfNothing
<1>5. faults.dup = 0 /\ faults.early = 0 /\ faults.bad = 0 /\ faults.odd = 0
  BY <1>1, <1>2, <1>4
<1> QED
  BY <1>1, <1>3, <1>4, <1>5 DEF Calm

LEMMA OneServer ==
    ASSUME Typed, Calm
    PROVE  \E v \in Stations : servers = {v}
<1>1. servers \subseteq Stations /\ IsFiniteSet(Stations)
  BY NetAssumption DEF Typed
<1>2. IsFiniteSet(servers)
  BY <1>1, FS_Subset
<1>3. \E v : servers = {v}
  BY <1>2, FS_Singleton DEF Calm
<1> QED
  BY <1>1, <1>3

\* The offer and the acknowledgement of the one server are those expected.
LEMMA ExpectedAccepted ==
    ASSUME Typed, ConfigSound, Calm, faults.odd = 0, NEW f, DhcpReply(f)
    PROVE  /\ f.body.data.message = "offer" => Accepted(f.body.data, "offer", Assignable)
           /\ f.body.data.message = "ack" /\ dhcp.state = "wait_for_ack"
                => Accepted(f.body.data, "ack", {dhcp.config.addr})
<1>1. PICK s \in servers : Offers(s, f) \/ Acknowledges(s, f)
  BY DEF DhcpReply
<1>2. /\ Leases[s].addr \in Assignable /\ Lease(s).addr = Leases[s].addr
      /\ ParseEnd(Leases[s].options) = "end"
  BY LeaseTyped, LeaseAssumption DEF Typed
<1>3. ASSUME Offers(s, f)
      PROVE  Accepted(f.body.data, "offer", Assignable) /\ f.body.data.message = "offer"
  <2>1. f = Reply(s, "offer", Leases[s].addr, Leases[s].options)
    BY <1>3 DEF Offers
  <2>2. /\ f.body.data.message = "offer" /\ f.body.data.yiaddr = Leases[s].addr
        /\ f.body.data.options = Leases[s].options
    BY <2>1, ReplyFields
  <2> QED
    BY <1>2, <2>2 DEF Accepted
<1>4. ASSUME Acknowledges(s, f)
      PROVE  /\ f.body.data.message = "ack"
             /\ dhcp.state = "wait_for_ack" => Accepted(f.body.data, "ack", {dhcp.config.addr})
  <2>1. f = Reply(s, "ack", Leases[s].addr, Leases[s].options)
    BY <1>4 DEF Acknowledges
  <2>2. /\ f.body.data.message = "ack" /\ f.body.data.yiaddr = Leases[s].addr
        /\ f.body.data.options = Leases[s].options
    BY <2>1, ReplyFields
  <2>3. ASSUME dhcp.state = "wait_for_ack"
        PROVE  dhcp.config.addr = Leases[s].addr
    <3>1. \E t \in servers : dhcp.config = Lease(t)
      BY <2>3 DEF ConfigSound
    <3>2. \A t \in servers : t = s
      BY <1>1, OneServer
    <3> QED
      BY <1>2, <3>1, <3>2
  <2> QED
    BY <1>2, <2>2, <2>3 DEF Accepted
<1> QED
  BY <1>1, <1>3, <1>4

\* A ping without a way back is one that FatalHere knows.
LEMMA NoRouteFatal ==
    ASSUME Typed, ConfigSound, faults.odd = 0, NEW f, OfNoise(f), f.type = "ipv4", f.protocol = "icmp",
           config.addr # inaddr_any, f.dstip = config.addr, NoRoute(f.srcip)
    PROVE  FatalHere(f)
<1>1. PICK s \in servers : config = Lease(s)
  BY DEF ConfigSound
<1>2. s \in Servers /\ Lease(s).addr = Leases[s].addr
  BY <1>1, LeaseTyped DEF Typed
<1>3. f.srcip \in Assignable /\ f.srcip \in Contacts(Lease(s).addr)
  BY <1>1, NoiseAssumption DEF OfNoise, Contacts
<1>4. ~OnLink(f.srcip) /\ config.gateway = inaddr_any
  BY <1>3 DEF NoRoute, Assignable
<1>5. f.srcip \notin OnTheLink
  BY <1>1, <1>2, <1>3, <1>4, Routes DEF OnLink
<1>6. \A i \in DOMAIN Leases[s].options : Leases[s].options[i].type # "router"
  BY <1>1, <1>2, <1>4, LeaseAssumption
<1>7. NoRouteEver(f)
  BY <1>1, <1>2, <1>5, <1>6 DEF NoRouteEver, OnTheLink
<1> QED
  BY <1>7 DEF FatalHere

\* There is a way to the server of a transfer.
LEMMA ServerReached ==
    ASSUME Typed, ConfigSound, faults.odd = 0
    PROVE  ~NoRoute(tftp_address)
<1>1. tftp_address \in Assignable
  BY NetAssumption DEF tftp_address, tftp_server
<1>2. tftp_address # inaddr_any
  BY <1>1 DEF Assignable
<1>3. CASE config.addr = inaddr_any
  <2>1. config = ipv4_net_config_none
    BY <1>3 DEF ConfigSound
  <2>2. OnLink(tftp_address)
    BY <2>1 DEF OnLink, ipv4_net_config_none, inaddr_any
  <2> QED
    BY <1>2, <2>2 DEF NoRoute
<1>4. CASE config.addr # inaddr_any
  <2>1. PICK s \in servers : config = Lease(s)
    BY <1>4 DEF ConfigSound
  <2>2. OnLink(tftp_address) \/ config.gateway # inaddr_any
    BY <2>1, Routes DEF Typed, OnLink, tftp_address
  <2> QED
    BY <1>2, <2>2 DEF NoRoute
<1> QED
  BY <1>3, <1>4

LEMMA NothingStops ==
    ASSUME IInv, HostNext, Calm
    PROVE  failed' = "no"
<1> USE DEF IInv
<1>0. /\ failed = "no" /\ (\A f \in DOMAIN toHost : ~FatalHere(f))
      /\ (Discovery => OneMessage) /\ faults.odd = 0
  <2>1. faults.odd = 0
    <3>1. /\ faults.dup \in Nat /\ faults.early \in Nat /\ faults.bad \in Nat /\ faults.odd \in Nat
          /\ faults.dup + faults.early + faults.bad + faults.odd = 0
      BY DEF Calm, Typed, Faults
    <3> QED
      BY <3>1, SumOfNothing
  <2> QED
    BY <2>1 DEF CalmSound
<1>1. CASE Receive
  <2>1. PICK f : Taken(f) /\ Outcome(f)
    BY <1>1, ReceiveCases
  <2>2. ~FatalHere(f) /\ FrameSound(f)
    BY <1>0, <2>1 DEF Taken, ToHostSound
  <2>3. ASSUME Stops(f) PROVE FALSE
    <3>1. ~(f.type \notin {"ipv4", "arp", "ipv6"} \/ (f.type = "ipv4" /\ f.protocol \notin {"icmp", "igmp", "tcp", "udp"}))
      BY <2>2 DEF FatalHere
    <3>2. CASE f.type = "ipv4" /\ f.protocol = "icmp" /\ config.addr # inaddr_any
               /\ f.dstip = config.addr /\ NoRoute(f.srcip)
      <4>1. OfNoise(f)
        BY <2>2, <3>2 DEF FrameSound, Truthful, Answer, DhcpReply
      <4> QED
        BY <1>0, <2>2, <3>2, <4>1, NoRouteFatal
    <3>3. CASE /\ pc = "dhcp_rx" /\ DhcpReply(f)
               /\ \/ dhcp.state = "wait_for_offer" /\ ~Accepted(f.body.data, "offer", Assignable)
                  \/ dhcp.state = "wait_for_ack" /\ ~Accepted(f.body.data, "ack", {dhcp.config.addr})
      <4>1. OneMessage
        BY <1>0, <3>3 DEF Discovery
      <4>2. f \in Arriving
        BY <2>1, <3>3 DEF Arriving, Taken, DhcpReply
      <4>3. /\ dhcp.state = "wait_for_offer" => f.body.data.message = "offer"
            /\ dhcp.state = "wait_for_ack" => f.body.data.message = "ack"
        BY <4>1, <4>2 DEF OneMessage
      <4> QED
        BY <1>0, <3>3, <4>3, ExpectedAccepted
    <3> QED
      BY <2>3, <3>1, <3>2, <3>3 DEF Stops
  <2> QED
    BY <1>0, <2>1, <2>3 DEF Outcome, Ignores, Ignore, TakesOffer, TakesAck, TakesAnswer, Echoes, Learns
<1>2. CASE OpStart
  <2>1. ~NoRoute(tftp_address)
    BY <1>0, ServerReached
  <2> QED
    BY <1>0, <1>2, <2>1 DEF OpStart
<1>3. CASE ~Receive /\ ~OpStart
  BY <1>0, <1>3 DEF HostNext, DhcpQuit, DhcpFinished, DhcpTimeout, DhcpTick, RxDone, OpQuit, OpTop,
              OpDone, OpTimeout, OpTick
<1> QED
  BY <1>1, <1>2, <1>3

\* What stations answer is ARP or UDP.
LEMMA AnswerTypes ==
    ASSUME NEW s, NEW f, NEW o, NEW a \in Answers(s, f, o)
    PROVE  a.type = "arp" \/ (a.type = "ipv4" /\ a.protocol = "udp")
<1>1. \A x, y, z, v, w : Arp(x, "reply", y, z, v, w).type = "arp"
  BY DEF Arp
<1>2. \A x, y, z, b : Ipv4(x, "udp", y, z, b).type = "ipv4" /\ Ipv4(x, "udp", y, z, b).protocol = "udp"
  BY DEF Ipv4
<1> QED
  BY <1>1, <1>2 DEF Answers

LEMMA NothingFatal ==
    ASSUME IInv, [Next]_vars, Calm'
    PROVE  \A f \in DOMAIN toHost' : ~FatalHere(f)'
<1> USE DEF IInv
<1>0. IsABag(toHost) /\ \A f \in DOMAIN toHost : ~FatalHere(f)
  BY CalmBefore DEF CalmSound, Typed
<1>1. servers' = servers
  BY HostFrame, LinkFrame DEF Next, Ended, vars, linkVars
<1>2. \A f : FatalHere(f)' <=> FatalHere(f)
  BY <1>1 DEF FatalHere, NoRouteEver
<1>3. ASSUME NEW S, toHost' = toHost (+) SetToBag(S), \A a \in S : ~FatalHere(a)
      PROVE  \A f \in DOMAIN toHost' : ~FatalHere(f)'
  <2>1. DOMAIN toHost' = DOMAIN toHost \cup S
    BY <1>0, <1>3, BagAdded
  <2> QED
    BY <1>0, <1>2, <1>3, <2>1
<1>4. CASE DOMAIN toHost' \subseteq DOMAIN toHost
  BY <1>0, <1>2, <1>4
<1>5. CASE UNCHANGED vars
  BY <1>4, <1>5 DEF vars
<1>6. CASE HostNext
  <2>1. DOMAIN toHost' \subseteq DOMAIN toHost
    BY <1>0, <1>6, HostTakes, BagTaken
  <2> QED
    BY <1>4, <2>1
<1>7. CASE StationAnswers
  <2>1. PICK s, f, o : Answering(s, f, o)
    BY <1>7, AnsweringCases
  <2>2. \A a \in Answers(s, f, o) : ~FatalHere(a)
    BY AnswerTypes DEF FatalHere
  <2> QED
    BY <1>3, <2>1, <2>2 DEF Answering
<1>8. CASE Lose
  <2>1. DOMAIN toHost' \subseteq DOMAIN toHost
    BY <1>0, <1>8, BagTaken DEF Lose, BagToSet
  <2> QED
    BY <1>4, <2>1
<1>9. CASE Duplicate
  <2>1. PICK f \in DOMAIN toHost : toHost' = toHost (+) SetToBag({f})
    BY <1>9 DEF Duplicate, BagToSet
  <2> QED
    BY <1>0, <1>3, <2>1
<1>10. CASE OthersSend
  <2>1. PICK f \in Noise : toHost' = toHost (+) SetToBag({f})
               /\ faults' = [faults EXCEPT !.noise = @ + 1, !.bad = IF FatalHere(f) THEN @ + 1 ELSE @]
    BY <1>10 DEF OthersSend
  <2>2. ASSUME FatalHere(f) PROVE FALSE
    <3>1. faults'.bad = faults.bad + 1 /\ faults.bad \in Nat
      BY <2>1, <2>2 DEF Typed, Faults
    <3>2. faults'.bad = 0
      BY CalmBefore
    <3> QED
      BY <3>1, <3>2
  <2> QED
    BY <1>3, <2>1, <2>2
<1>11. CASE \E s \in Stations : Replace(s)
  <2>1. PICK f : DOMAIN toHost' = {f} /\ f.type = "arp"
    BY <1>11, ReplaceFrames
  <2>2. ~FatalHere(f)
    BY <2>1 DEF FatalHere
  <2> QED
    BY <1>2, <2>1, <2>2
<1> QED
  BY <1>5, <1>6, <1>7, <1>8, <1>9, <1>10, <1>11 DEF Next, LinkNext, Ended

\* With fewer frames on their way there is still at most the one expected.
LEMMA Thinned ==
    ASSUME OneMessage, Arriving' \subseteq Arriving, \A f \in Arriving' : toHost'[f] = toHost[f],
           Leaving' \subseteq Leaving, \A sf \in Leaving' : fromHost'[sf] = fromHost[sf],
           dhcp'.state = dhcp.state \/ dhcp'.state = "finished"
    PROVE  OneMessage'
<1>1. \A f \in Arriving' : toHost'[f] = 1 /\ Leaving' = {}
  BY DEF OneMessage
<1>2. (\A f, g \in Arriving' : f = g) /\ (\A sf \in Leaving' : fromHost'[sf] = 1) /\ (\A sf, sg \in Leaving' : sf = sg)
  BY DEF OneMessage
<1>3. dhcp'.state = "wait_for_offer" =>
         /\ \A f \in Arriving' : f.body.data.message = "offer"
         /\ \A sf \in Leaving' : sf[2].body.data.message = "discover"
  BY DEF OneMessage
<1>4. dhcp'.state = "wait_for_ack" =>
         /\ \A f \in Arriving' : f.body.data.message = "ack"
         /\ \A sf \in Leaving' : sf[2].body.data.message = "request"
  BY DEF OneMessage
<1> QED
  BY <1>1, <1>2, <1>3, <1>4 DEF OneMessage

LEMMA ArrivingTaken ==
    ASSUME Typed, OneMessage, NEW f \in DOMAIN toHost, toHost' = toHost (-) SetToBag({f})
    PROVE  /\ Arriving' \subseteq Arriving
           /\ \A g \in Arriving' : toHost'[g] = toHost[g]
           /\ f \in Arriving => Arriving' = {}
<1>1. IsABag(toHost)
  BY DEF Typed
<1>2. /\ DOMAIN toHost' \subseteq DOMAIN toHost
      /\ toHost[f] = 1 => f \notin DOMAIN toHost'
      /\ \A e \in DOMAIN toHost' \ {f} : toHost'[e] = toHost[e]
  BY <1>1, BagTaken
<1>3. Arriving' \subseteq Arriving
  BY <1>2 DEF Arriving
<1>4. Arriving' \subseteq DOMAIN toHost' /\ (f \in Arriving => toHost[f] = 1 /\ Arriving \subseteq {f})
  BY DEF Arriving, OneMessage
<1>5. f \notin Arriving'
  BY <1>2, <1>3, <1>4
<1> QED
  BY <1>2, <1>3, <1>4, <1>5

LEMMA LeavingTaken ==
    ASSUME Typed, OneMessage, NEW sf \in DOMAIN fromHost, fromHost' = fromHost (-) SetToBag({sf})
    PROVE  /\ Leaving' \subseteq Leaving
           /\ \A sg \in Leaving' : fromHost'[sg] = fromHost[sg]
           /\ sf \in Leaving => Leaving' = {}
<1>1. IsABag(fromHost)
  BY DEF Typed
<1>2. /\ DOMAIN fromHost' \subseteq DOMAIN fromHost
      /\ fromHost[sf] = 1 => sf \notin DOMAIN fromHost'
      /\ \A e \in DOMAIN fromHost' \ {sf} : fromHost'[e] = fromHost[e]
  BY <1>1, BagTaken
<1>3. Leaving' \subseteq Leaving
  BY <1>2 DEF Leaving
<1>4. Leaving' \subseteq DOMAIN fromHost' /\ (sf \in Leaving => fromHost[sf] = 1 /\ Leaving \subseteq {sf})
  BY DEF Leaving, OneMessage
<1>5. sf \notin Leaving'
  BY <1>2, <1>3, <1>4
<1> QED
  BY <1>2, <1>3, <1>4, <1>5

\* Frames that are not of DHCP are put on the ring.
LEMMA ArrivingKept ==
    ASSUME Typed, NEW S, toHost' = toHost (+) SetToBag(S),
           \A a \in S : ~(a.type = "ipv4" /\ a.protocol = "udp" /\ a.dst = mac_broadcast)
    PROVE  Arriving' \subseteq Arriving /\ \A g \in Arriving' : toHost'[g] = toHost[g]
<1>1. IsABag(toHost)
  BY DEF Typed
<1>2. DOMAIN toHost' = DOMAIN toHost \cup S /\ \A e \in DOMAIN toHost \ S : toHost'[e] = toHost[e]
  BY <1>1, BagAdded
<1> QED
  BY <1>2 DEF Arriving

LEMMA ArrivingAdded ==
    ASSUME Typed, NEW a, Arriving = {}, toHost' = toHost (+) SetToBag({a}),
           a.type = "ipv4" /\ a.protocol = "udp" /\ a.dst = mac_broadcast
    PROVE  Arriving' = {a} /\ toHost'[a] = 1
<1>1. IsABag(toHost) /\ a \notin DOMAIN toHost
  BY DEF Typed, Arriving
<1>2. DOMAIN toHost' = DOMAIN toHost \cup {a} /\ toHost'[a] = 1
  BY <1>1, OneAdded
<1> QED
  BY <1>2 DEF Arriving

LEMMA LeavingAdded ==
    ASSUME Typed, NEW v, NEW f, Leaving = {}, fromHost' = fromHost (+) SetToBag({<<v, f>>}), f.type = "ipv4"
    PROVE  Leaving' = {<<v, f>>} /\ fromHost'[<<v, f>>] = 1
<1> DEFINE x == <<v, f>>
<1>0. x[2] = f
  OBVIOUS
<1> HIDE DEF x
<1>1. IsABag(fromHost) /\ x \notin DOMAIN fromHost
  BY <1>0 DEF Typed, Leaving
<1>2. fromHost' = fromHost (+) SetToBag({x})
  BY DEF x
<1>3. DOMAIN fromHost' = DOMAIN fromHost \cup {x} /\ fromHost'[x] = 1
  BY <1>1, <1>2, OneAdded
<1>4. Leaving' = {x}
  BY <1>0, <1>1, <1>3 DEF Leaving
<1> QED
  BY <1>3, <1>4 DEF x

\* What has left a machine in discovery is of DHCP.
LEMMA LeavingKinds ==
    ASSUME FromHostSound, ConfigSound, Discovery, NEW s, NEW f, SentSound(s, f), f.type = "ipv4"
    PROVE  s \in servers /\ (f = Discover \/ Requests(f))
<1>1. ~Asks(s, f)
  BY DEF Asks
<1>2. ~Unicast(s, f)
  BY DEF Unicast, ConfigSound, ipv4_net_config_none
<1> QED
  BY <1>1, <1>2 DEF SentSound

\* A station's answer during discovery.
LEMMA OneMessageAnswered ==
    ASSUME IInv, Discovery, OneMessage, NEW s, NEW f, NEW o, Answering(s, f, o), dhcp' = dhcp
    PROVE  OneMessage'
<1> USE DEF IInv
<1> DEFINE x == <<s, f>>
<1>1. x \in DOMAIN fromHost /\ fromHost' = fromHost (-) SetToBag({x}) /\ x[2] = f /\ SentSound(s, f) /\ s \in Stations
  BY DEF Answering, SentSound
<1> HIDE DEF x
<1>2. Leaving' \subseteq Leaving /\ (\A sg \in Leaving' : fromHost'[sg] = fromHost[sg]) /\ (x \in Leaving => Leaving' = {})
  BY <1>1, LeavingTaken
<1>3. toHost' = toHost (+) SetToBag(Answers(s, f, o))
  BY DEF Answering
<1>4. CASE Asks(s, f)
  <2>1. Answers(s, f, o) = {Arp(my_mac, "reply", station[s], f.tpa, my_mac, f.spa)}
    BY <1>1, <1>4, AnswerKinds
  <2>2. \A a \in Answers(s, f, o) : a.type = "arp"
    BY <2>1 DEF Arp
  <2>3. Arriving' \subseteq Arriving /\ \A g \in Arriving' : toHost'[g] = toHost[g]
    BY <1>3, <2>2, ArrivingKept
  <2> QED
    BY <1>2, <2>3, Thinned
<1>5. CASE ~Asks(s, f)
  <2>1. f.type = "ipv4"
    BY <1>1, <1>5, DiscoverFields, RequestFields DEF SentSound, Unicast, Requests
  <2>2. s \in servers /\ (f = Discover \/ Requests(f))
    BY <1>1, <2>1, LeavingKinds
  <2>3. x \in Leaving
    BY <1>1, <2>1 DEF Leaving
  <2>4. Leaving' = {} /\ Arriving = {}
    BY <1>2, <2>3 DEF OneMessage
  <2>5. CASE Answers(s, f, o) = {}
    <3>1. Arriving' \subseteq Arriving /\ \A g \in Arriving' : toHost'[g] = toHost[g]
      BY <1>3, <2>5, ArrivingKept
    <3> QED
      BY <1>2, <3>1, Thinned
  <2>6. ASSUME NEW m, NEW y, Answers(s, f, o) = {Reply(s, m, y, o)},
               dhcp.state = "wait_for_offer" => m = "offer", dhcp.state = "wait_for_ack" => m = "ack"
        PROVE  OneMessage'
    <3> DEFINE a == Reply(s, m, y, o)
    <3>1. a.type = "ipv4" /\ a.protocol = "udp" /\ a.dst = mac_broadcast /\ a.body.data.message = m
      BY ReplyFields
    <3>2. toHost' = toHost (+) SetToBag({a})
      BY <1>3, <2>6
    <3> HIDE DEF a
    <3>3. Arriving' = {a} /\ toHost'[a] = 1
      BY <2>4, <3>1, <3>2, ArrivingAdded
    <3> QED
      BY <2>4, <2>6, <3>1, <3>3 DEF OneMessage
  <2>7. CASE f = Discover
    <3>1. Answers(s, f, o) = {Reply(s, "offer", Leases[s].addr, o)}
      BY <1>1, <2>2, <2>7, AnswerKinds
    <3>2. f.body.data.message = "discover"
      BY <2>7, DiscoverFields
    <3>3. dhcp.state # "wait_for_ack"
      BY <1>1, <2>3, <3>2 DEF OneMessage
    <3> QED
      BY <2>6, <3>1, <3>3
  <2>8. CASE Requests(f) /\ Answers(s, f, o) # {}
    <3>1. Answers(s, f, o) = {Reply(s, "ack", f.body.data.yiaddr, o)}
      BY <1>1, <2>2, <2>8, AnswerKinds
    <3>2. f.body.data.message = "request"
      BY <2>8, RequestFields DEF Requests
    <3>3. dhcp.state # "wait_for_offer"
      BY <1>1, <2>3, <3>2 DEF OneMessage
    <3> QED
      BY <2>6, <3>1, <3>3
  <2> QED
    BY <2>2, <2>5, <2>7, <2>8
<1> QED
  BY <1>4, <1>5

LEMMA OneMessageReceived ==
    ASSUME IInv, Calm, OneMessage, Discovery', NEW f, Taken(f), Outcome(f)
    PROVE  OneMessage'
<1> USE DEF IInv
<1>1. CASE Stops(f)
  BY <1>1 DEF Stops, Discovery
<1>2. CASE TakesAnswer(f)
  BY <1>2 DEF TakesAnswer, Discovery
<1>3. CASE Echoes(f) \/ Learns(f)
  <2>1. Discovery /\ config.addr # inaddr_any
    BY <1>3 DEF Echoes, Learns, Discovery
  <2> QED
    BY <2>1 DEF ConfigSound, ipv4_net_config_none
<1>4. /\ Arriving' \subseteq Arriving
      /\ \A g \in Arriving' : toHost'[g] = toHost[g]
      /\ f \in Arriving => Arriving' = {}
  BY ArrivingTaken DEF Taken
<1>5. CASE Ignores(f) \/ TakesAck(f)
  <2>1. fromHost' = fromHost /\ (dhcp'.state = dhcp.state \/ dhcp'.state = "finished")
    BY <1>5 DEF Ignores, Ignore, TakesAck, Typed
  <2>2. Leaving' = Leaving
    BY <2>1 DEF Leaving
  <2> QED
    BY <1>4, <2>1, <2>2, Thinned
<1>6. CASE TakesOffer(f)
  <2>1. f \in Arriving
    BY <1>6 DEF TakesOffer, Taken, Arriving, DhcpReply
  <2>2. Arriving' = {} /\ Leaving = {}
    BY <1>4, <2>1 DEF OneMessage
  <2> DEFINE g == Request(f.body.data.yiaddr, parse_reply(f.body.data).server_id)
  <2>3. PICK v \in Stations : servers = {v}
    BY OneServer
  <2>4. Takers(g) = {v} /\ g.type = "ipv4" /\ g.body.data.message = "request"
    BY <2>3, BroadcastTakers, RequestFields
  <2>5. fromHost' = fromHost (+) Sent(g) /\ dhcp'.state = "wait_for_ack"
    BY <1>6 DEF TakesOffer
  <2> HIDE DEF g
  <2>6. Sent(g) = SetToBag({<<v, g>>})
    <3>1. {<<s, g>> : s \in Takers(g)} = {<<v, g>>}
      BY <2>4
    <3> QED
      BY <3>1 DEF Sent
  <2>7. Leaving' = {<<v, g>>} /\ fromHost'[<<v, g>>] = 1
    BY <2>2, <2>4, <2>5, <2>6, LeavingAdded
  <2> QED
    BY <2>2, <2>4, <2>5, <2>7 DEF OneMessage
<1> QED
  BY <1>1, <1>2, <1>3, <1>5, <1>6 DEF Outcome

\* Asking again, when nothing is on its way.
LEMMA OneMessageAgain ==
    ASSUME IInv, [Next]_vars, Calm', DhcpTimeout
    PROVE  OneMessage'
<1> USE DEF IInv
<1>1. Quiet
  <2>1. ASSUME Spend("early") PROVE FALSE
    <3>1. faults'.early = faults.early + 1 /\ faults.early \in Nat
      BY <2>1, Spent DEF Spend, Typed, Faults
    <3>2. faults'.early = 0
      BY CalmBefore
    <3> QED
      BY <3>1, <3>2
  <2> QED
    BY <2>1 DEF DhcpTimeout, Expires
<1>2. toHost' = EmptyBag /\ fromHost = EmptyBag
  BY <1>1 DEF DhcpTimeout, Quiet
<1>3. Arriving' = {} /\ Leaving = {}
  BY <1>2, EmptyBagElements DEF Arriving, Leaving
<1>4. fromHost' = fromHost (+) Sent(Discover) /\ dhcp'.state = "wait_for_offer"
  BY DEF DhcpTimeout, send_dhcp_discover, DhcpOut, ipv4_out, Discover, Typed
<1>5. PICK v \in Stations : servers = {v}
  BY CalmBefore, OneServer
<1>6. Sent(Discover) = SetToBag({<<v, Discover>>})
  <2>1. Takers(Discover) = {v}
    BY <1>5, BroadcastTakers
  <2>2. {<<s, Discover>> : s \in Takers(Discover)} = {<<v, Discover>>}
    BY <2>1
  <2> QED
    BY <2>2 DEF Sent
<1>7. Leaving' = {<<v, Discover>>} /\ fromHost'[<<v, Discover>>] = 1
  BY <1>3, <1>4, <1>6, DiscoverFields, LeavingAdded
<1> QED
  BY <1>3, <1>4, <1>7, DiscoverFields DEF OneMessage

LEMMA OneMessageKept ==
    ASSUME IInv, [Next]_vars, Calm', Discovery'
    PROVE  OneMessage'
<1> USE DEF IInv
<1>0. Calm /\ (Discovery => OneMessage)
  BY CalmBefore DEF CalmSound
<1>1. CASE UNCHANGED vars \/ DhcpTick \/ RxDone
  <2>1. toHost' = toHost /\ fromHost' = fromHost /\ dhcp' = dhcp /\ Discovery
    BY <1>1 DEF vars, hostVars, DhcpTick, RxDone, Discovery
  <2>2. Arriving' = Arriving /\ Leaving' = Leaving
    BY <2>1 DEF Arriving, Leaving
  <2> QED
    BY <1>0, <2>1, <2>2, Thinned
<1>2. CASE DhcpTimeout
  BY <1>2, OneMessageAgain
<1>3. CASE Receive
  <2>1. PICK f : Taken(f) /\ Outcome(f)
    BY <1>3, ReceiveCases
  <2>2. Discovery
    BY <2>1 DEF Discovery, Outcome, Ignores, Ignore, Stops, TakesOffer, TakesAck, TakesAnswer, Echoes, Learns
  <2> QED
    BY <1>0, <2>1, <2>2, OneMessageReceived
<1>4. ~(DhcpQuit \/ DhcpFinished \/ OpStart \/ OpQuit \/ OpTop \/ OpDone \/ OpTimeout \/ OpTick)
  BY DEF DhcpQuit, DhcpFinished, OpStart, Fail, OpQuit, OpEnd, OpTop, OpDone, OpTimeout, OpTick, StartRx, Discovery
<1>5. CASE LinkNext
  <2>1. dhcp' = dhcp /\ Discovery
    BY <1>5, LinkFrame DEF hostVars, Discovery
  <2>2. CASE StationAnswers
    BY <1>0, <2>1, <2>2, AnsweringCases, OneMessageAnswered
  <2>3. CASE Lose
    <3>1. CASE \E f \in DOMAIN toHost : toHost' = toHost (-) SetToBag({f}) /\ UNCHANGED fromHost
      <4>1. Leaving' = Leaving
        BY <3>1 DEF Leaving
      <4>2. Arriving' \subseteq Arriving /\ \A g \in Arriving' : toHost'[g] = toHost[g]
        BY <1>0, <2>1, <3>1, ArrivingTaken
      <4> QED
        BY <1>0, <2>1, <3>1, <4>1, <4>2, Thinned
    <3>2. CASE \E f \in DOMAIN fromHost : fromHost' = fromHost (-) SetToBag({f}) /\ UNCHANGED toHost
      <4>1. Arriving' = Arriving
        BY <3>2 DEF Arriving
      <4>2. Leaving' \subseteq Leaving /\ \A g \in Leaving' : fromHost'[g] = fromHost[g]
        BY <1>0, <2>1, <3>2, LeavingTaken
      <4> QED
        BY <1>0, <2>1, <3>2, <4>1, <4>2, Thinned
    <3> QED
      BY <2>3, <3>1, <3>2 DEF Lose, BagToSet
  <2>4. ~Duplicate
    <3>1. Duplicate => faults'.dup = faults.dup + 1 /\ faults.dup \in Nat
      BY Spent DEF Duplicate, Spend, Typed, Faults
    <3>2. faults'.dup = 0
      BY CalmBefore
    <3> QED
      BY <3>1, <3>2
  <2>5. CASE OthersSend
    <3>1. PICK f \in Noise : toHost' = toHost (+) SetToBag({f})
      BY <2>5 DEF OthersSend
    <3>2. ~(f.type = "ipv4" /\ f.protocol = "udp" /\ f.dst = mac_broadcast)
      BY NoiseAssumption
    <3>3. Arriving' \subseteq Arriving /\ \A g \in Arriving' : toHost'[g] = toHost[g]
      BY <3>1, <3>2, ArrivingKept
    <3>4. fromHost' = fromHost /\ Leaving' = Leaving
      BY <2>5 DEF OthersSend, Leaving
    <3> QED
      BY <1>0, <2>1, <3>3, <3>4, Thinned
  <2>6. CASE \E s \in Stations : Replace(s)
    <3>1. Arriving' = {}
      BY <2>6, ReplaceFrames DEF Arriving
    <3>2. fromHost' = fromHost /\ Leaving' = Leaving
      BY <2>6 DEF Replace, Leaving
    <3> QED
      BY <1>0, <2>1, <3>1, <3>2, Thinned
  <2> QED
    BY <1>5, <2>2, <2>3, <2>4, <2>5, <2>6 DEF LinkNext
<1> QED
  BY <1>1, <1>2, <1>3, <1>4, <1>5 DEF Next, HostNext, Ended

LEMMA CalmSoundKept ==
    ASSUME IInv, [Next]_vars
    PROVE  CalmSound'
<1> SUFFICES ASSUME Calm'
             PROVE  /\ failed' = "no"
                    /\ \A f \in DOMAIN toHost' : ~FatalHere(f)'
                    /\ Discovery' => OneMessage'
  BY DEF CalmSound
<1>1. Calm /\ failed = "no"
  BY CalmBefore DEF IInv, CalmSound
<1>2. failed' = "no"
  <2>1. CASE HostNext
    BY <1>1, <2>1, NothingStops
  <2>2. CASE LinkNext
    BY <1>1, <2>2, LinkFrame DEF hostVars, IInv
  <2>3. CASE UNCHANGED vars
    BY <1>1, <2>3 DEF vars, hostVars
  <2> QED
    BY <2>1, <2>2, <2>3 DEF Next, Ended
<1> QED
  BY <1>2, NothingFatal, OneMessageKept

-------------------------------------------------------------------------------
(* The invariant.                                                          *)

LEMMA InitSound == Init => IInv
<1> SUFFICES ASSUME Init PROVE IInv
  OBVIOUS
<1>1. /\ pc = "dhcp_top" /\ failed = "no" /\ left = 0 /\ config = ipv4_net_config_none /\ arp = <<>>
      /\ sockets = DhcpSockets /\ op = NoOp /\ station = [s \in Stations |-> <<s, 1>>]
      /\ dhcp = [state |-> "wait_for_offer", config |-> ipv4_net_config_none]
      /\ servers \subseteq Servers /\ servers \subseteq Stations /\ toHost = EmptyBag
      /\ faults = [loss |-> 0, dup |-> 0, early |-> 0, quit |-> 0, noise |-> 0,
                   bad |-> 0, odd |-> 0, replace |-> 0]
  BY NetAssumption DEF Init, DhcpSockets
<1> DEFINE First == {<<s, Discover>> : s \in servers}
<1>2. fromHost = SetToBag(First)
  BY DEF Init, Discover
<1>3. IsABag(fromHost) /\ DOMAIN fromHost = First /\ \A sf \in First : fromHost[sf] = 1
  BY <1>2 DEF SetToBag, IsABag
<1>4. IsABag(toHost) /\ DOMAIN toHost = {}
  BY <1>1, EmptyBagElements
<1>5. DOMAIN arp = {}
  BY <1>1
<1>6. config.addr = inaddr_any /\ config \in Configs /\ dhcp.state = "wait_for_offer"
  BY <1>1 DEF ipv4_net_config_none, Configs, inaddr_any
<1>7. Typed
  <2>1. left \in 0 .. MaxPackets
    BY <1>1, NetAssumption
  <2>2. dhcp \in [state : {"wait_for_offer", "wait_for_ack", "finished"}, config : Configs]
    BY <1>1, <1>6
  <2>3. op \in [port : Nat, answered : BOOLEAN, count : Nat] /\ faults \in Faults
    BY <1>1 DEF NoOp, Faults
  <2>4. DOMAIN station = Stations /\ \A s \in Stations : station[s] \in {<<s, 1>>, <<s, 2>>}
    BY <1>1
  <2> QED
    BY <1>1, <1>3, <1>4, <1>5, <1>6, <2>1, <2>2, <2>3, <2>4 DEF Typed
<1>8. ToHostSound /\ ArpSound /\ Announced
  BY <1>4, <1>5 DEF ToHostSound, ArpSound, Announced
<1>9. FromHostSound
  <2>1. \A sf \in First : sf = <<sf[1], sf[2]>> /\ sf[1] \in servers /\ sf[2] = Discover
    OBVIOUS
  <2> QED
    BY <1>1, <1>3, <2>1 DEF FromHostSound, SentSound
<1>10. ConfigSound
  BY <1>1, <1>5, <1>6 DEF ConfigSound
<1>11. SocketSound
  BY <1>1 DEF SocketSound, Discovery, Transfer, DhcpSockets
<1>12. CalmSound
  <2> SUFFICES ASSUME Calm PROVE OneMessage
    BY <1>1, <1>4 DEF CalmSound
  <2>1. PICK v \in Stations : servers = {v}
    BY <1>7, OneServer
  <2>2. First = {<<v, Discover>>}
    BY <2>1
  <2>3. \A sf \in First : sf[2] = Discover
    OBVIOUS
  <2> HIDE DEF First
  <2>4. Leaving = First /\ Arriving = {}
    BY <1>3, <1>4, <2>3, DiscoverFields DEF Leaving, Arriving
  <2> QED
    BY <1>3, <1>6, <2>2, <2>3, <2>4, DiscoverFields DEF OneMessage
<1> QED
  BY <1>7, <1>8, <1>9, <1>10, <1>11, <1>12 DEF IInv

LEMMA InvariantHolds == Spec => []IInv
<1>1. IInv /\ [Next]_vars => IInv'
  BY TypedKept, ToHostSoundKept, FromHostSoundKept, ConfigSoundKept, SocketSoundKept, ArpSoundKept,
     AnnouncedKept, CalmSoundKept DEF IInv
<1> QED
  BY <1>1, InitSound, PTL DEF Spec

LEMMA InRange ==
    ASSUME NEW a \in Int, NEW b \in Int, NEW p \in Int, a <= p, p <= b
    PROVE  p \in a .. b
OBVIOUS

LEMMA PortsTyped == dhcp_src_port \in 1 .. max_port /\ first_port \in 1 .. max_port
<1>1. /\ max_port \in Int /\ dhcp_src_port \in Int /\ first_port \in Int
      /\ 1 <= dhcp_src_port /\ dhcp_src_port <= max_port /\ 1 <= first_port /\ first_port <= max_port
  BY DEF dhcp_src_port, first_port, max_port
<1> QED
  BY <1>1, InRange

LEMMA InterfaceOfInvariant == IInv => InterfaceSound
<1> SUFFICES ASSUME IInv PROVE InterfaceSound
  OBVIOUS
<1> USE DEF IInv
<1>1. TypeOK
  <2>1. {config, dhcp.config} \subseteq [addr : SUBSET Bits, netmask : SUBSET Bits, gateway : SUBSET Bits]
    <3>1. config \in Configs /\ dhcp.config \in Configs
      BY DEF Typed
    <3> QED
      BY <3>1 DEF Configs
  <2>2. \A i \in DOMAIN sockets : sockets[i].port \in 1 .. max_port /\ sockets[i].owner \in {"dhcp", "op"}
    <3>1. \A i \in DOMAIN sockets : /\ sockets[i].port \in {dhcp_src_port, first_port}
                                    /\ sockets[i].owner \in {"dhcp", "op"}
      BY DEF SocketSound
    <3> QED
      BY <3>1, PortsTyped
  <2>3. dhcp.state \in {"wait_for_offer", "wait_for_ack", "finished"}
    BY DEF Typed
  <2> HIDE DEF IInv
  <2>4. Typed
    BY DEF IInv
  <2> QED
    BY <2>1, <2>2, <2>3, <2>4, Zenon DEF TypeOK, Typed
<1>2. SocketsLive
  <2>1. ASSUME failed = "no" PROVE Discovery \/ pc = "idle" \/ Transfer
    BY <2>1 DEF Typed, Discovery, Transfer
  <2> QED
    BY <2>1 DEF SocketsLive, SocketSound, Discovery, Transfer, DhcpSockets, OpSockets
<1>3. ConfigLeased
  BY DEF ConfigLeased, ConfigSound, Lease
<1>4. SilentUnconfigured
  <2> SUFFICES ASSUME config.addr = inaddr_any
               PROVE  /\ DOMAIN arp = {}
                      /\ \A sf \in DOMAIN fromHost :
                           sf[2].type = "ipv4" => sf[2].dst = mac_broadcast /\ sf[2].body.dst_port = 67
    BY DEF SilentUnconfigured, BagToSet
  <2>1. DOMAIN arp = {}
    BY DEF ConfigSound
  <2>2. ASSUME NEW sf \in DOMAIN fromHost, sf[2].type = "ipv4"
        PROVE  sf[2].dst = mac_broadcast /\ sf[2].body.dst_port = 67
    <3>1. SentSound(sf[1], sf[2])
      BY DEF FromHostSound
    <3>2. sf[2] = Discover \/ Requests(sf[2])
      BY <2>2, <3>1 DEF SentSound, Asks, Unicast
    <3> QED
      BY <3>2, DiscoverFields, RequestFields DEF Requests
  <2> QED
    BY <2>1, <2>2
<1> QED
  BY <1>1, <1>2, <1>3, <1>4 DEF InterfaceSound

LEMMA PathsOfInvariant == IInv => PathsSound
<1> SUFFICES ASSUME IInv PROVE PathsSound
  OBVIOUS
<1> USE DEF IInv
<1>1. Routed
  <2> SUFFICES ASSUME faults.odd = 0, NEW sf \in DOMAIN fromHost, sf[2].type = "ipv4", sf[2].dst # mac_broadcast
               PROVE  StationAddr[sf[1]] = IF sf[2].dstip \in OnTheLink THEN sf[2].dstip ELSE config.gateway
    BY DEF Routed, BagToSet, OnTheLink
  <2>1. SentSound(sf[1], sf[2])
    BY DEF FromHostSound
  <2>2. sf[2] # Discover /\ ~Requests(sf[2])
    BY DiscoverFields, RequestFields DEF Requests
  <2>3. Unicast(sf[1], sf[2])
    BY <2>1, <2>2 DEF SentSound, Asks
  <2> QED
    BY <2>3 DEF Unicast
<1>2. ArpCurrent
  BY DEF ArpCurrent, Announced, BagToSet
<1> QED
  BY <1>1, <1>2 DEF PathsSound

\* The interface is configured as one server granted, silent before, and its
\* list of sockets is that of the owners alive, with 16-bit ports, whatever the
\* link loses, duplicates and delays (udp_sockets_, do_dhcp).
THEOREM InterfaceCorrect == Spec => []InterfaceSound
BY InvariantHolds, InterfaceOfInvariant, PTL

\* Packets go to the station that has the address, or to the gateway, and an
\* ARP entry that is not current is one whose announcement is on its way or
\* was lost (ipv4_out, arp_in).
THEOREM PathsCorrect == Spec => []PathsSound
BY InvariantHolds, PathsOfInvariant, PTL

\* With one DHCP server of known options, nothing late, twice or of an unknown
\* kind, no REQUIRE fails and no loop of the option parser hangs, in either
\* loop (dhcp_handler, ipv4_out, eth_in).
THEOREM AloneCorrect == Spec => []AloneNeverStops
<1>1. IInv => AloneNeverStops
  BY DEF IInv, CalmSound, Calm, AloneNeverStops
<1> QED
  BY <1>1, InvariantHolds, PTL
===============================================================================

---------------------------------- MODULE Net ----------------------------------
(***************************************************************************)
(* The network stack of attos/net/tftp.cpp on one machine: the interface   *)
(* (ipv4_ethernet_device: Ethernet, ARP, IPv4, ICMP, UDP), the DHCP client *)
(* that configures it (dhcp_handler, do_dhcp) and the loop of a transfer   *)
(* (tftp_base, tftp_op; what a transfer says is module Tftp), among        *)
(* stations that lose, duplicate and delay frames.                         *)
(*                                                                         *)
(* An IPv4 address is the set of its one bits, so that `&' is \cap.  A     *)
(* frame is a record without lengths and checksums.  The NIC's ring        *)
(* (module I825x) is the bag of frames on their way to the machine.        *)
(***************************************************************************)
EXTENDS Integers, Sequences, FiniteSets, Bags

CONSTANTS
    Stations,        \* the other machines on the link
    StationAddr,     \* their addresses
    ProxyArp,        \* those that answer ARP requests for addresses of nobody
    Leases,          \* per DHCP server: what it offers (address, options)
    HomeAddr, HomeServer, OtherServer,  \* the addresses tftp_address knows
    Bits,            \* the bits of an address
    ClassC,          \* the mask used when the server sends none
    Noise,           \* frames other machines may send to this one
    OddOptions,      \* options a server may add to its answers
    MaxPackets,      \* frames handled by one process_packets
    MaxOps,          \* transfers
    MaxFaults,       \* how often network, user and timing interfere, in all
    MaxEarly         \* how many of these are timeouts that come too early

inaddr_any == {}
inaddr_broadcast == Bits
Assignable == (SUBSET Bits) \ {inaddr_any, inaddr_broadcast}   \* to one machine
mac_broadcast == <<"all">>
my_mac == <<"me">>

dhcp_src_port == 68
first_port == 49152
last_port == 65534
max_port == 65535

Servers == DOMAIN Leases

ASSUME NetAssumption ==
    /\ MaxPackets \in Nat \ {0} /\ {MaxOps, MaxFaults, MaxEarly} \subseteq Nat
    /\ IsFiniteSet(Stations) /\ Servers \cup ProxyArp \subseteq Stations
    /\ StationAddr \in [Stations -> Assignable]
    /\ \A s, t \in Stations : StationAddr[s] = StationAddr[t] => s = t
    /\ {HomeServer, OtherServer} \subseteq Assignable
    /\ ClassC \subseteq Bits

VARIABLES
    pc,        \* where do_dhcp or tftp_op::do_op is
    failed,    \* the REQUIRE that stopped the machine, or "no"
    left,      \* frames process_packets may still take
    config,    \* ipv4_config_
    arp,       \* arp_entries_, a function of the protocol address
    sockets,   \* udp_sockets_
    dhcp,      \* the dhcp_handler: state_, config_
    op,        \* the transfer: its local port, has it been answered
    toHost,    \* bag of frames on their way to the machine
    fromHost,  \* bag of <<station, frame>> on their way to the stations
    station,   \* the hardware addresses of the stations
    granted,   \* history: the acknowledgements, <<server, address>>
    servers,   \* the DHCP servers that are up
    faults     \* interference so far, by kind

hostVars == <<pc, failed, left, config, arp, sockets, dhcp, op>>
linkVars == <<station, granted, servers>>
vars == <<hostVars, toHost, fromHost, linkVars, faults>>

ipv4_net_config_none == [addr |-> inaddr_any, netmask |-> inaddr_any, gateway |-> inaddr_any]
NoOp == [port |-> 0, answered |-> FALSE, count |-> 0]

-------------------------------------------------------------------------------
(* Frames.                                                                 *)

Arp(dst, oper, sha, spa, tha, tpa) ==
    [type |-> "arp", dst |-> dst, oper |-> oper, sha |-> sha, spa |-> spa, tha |-> tha, tpa |-> tpa]

Ipv4(dst_mac, protocol, src, dst, body) ==
    [type |-> "ipv4", dst |-> dst_mac, protocol |-> protocol, srcip |-> src, dstip |-> dst, body |-> body]

Udp(src_port, dst_port, data) == [src_port |-> src_port, dst_port |-> dst_port, data |-> data]

Dhcp(message, yiaddr, server, options) ==
    [message |-> message, yiaddr |-> yiaddr, server |-> server, options |-> options]

Owners(mac) == {s \in Stations : station[s] = mac}

\* External: who on the link takes a frame of this machine and may answer it.
Takers(frame) ==
    IF frame.type = "arp"
    THEN IF frame.oper = "reply" THEN {}
         ELSE IF \E s \in Stations : StationAddr[s] = frame.tpa
         THEN {s \in Stations : StationAddr[s] = frame.tpa} ELSE ProxyArp
    ELSE IF frame.dst = mac_broadcast THEN servers ELSE Owners(frame.dst)

Sent(frame) == SetToBag({<<s, frame>> : s \in Takers(frame)})

-------------------------------------------------------------------------------
(* Sending.                                                                *)

send_arp(oper, spa, tha, tpa) == Arp(tha, oper, my_mac, spa, tha, tpa)

OnLink(addr) == addr \cap config.netmask = config.addr \cap config.netmask

NextHop(dst) == IF OnLink(dst) THEN dst ELSE config.gateway

\* Mutant: any entry of the ARP table will do.
OutAnyEntry(protocol, src, dst, body) ==
    IF dst = inaddr_broadcast THEN Ipv4(mac_broadcast, protocol, src, dst, body)
    ELSE IF DOMAIN arp # {}
         THEN Ipv4(arp[CHOOSE a \in DOMAIN arp : TRUE], protocol, src, dst, body)
         ELSE send_arp("request", config.addr, mac_broadcast, NextHop(dst))

\* ipv4_out: the frame that leaves for a packet.  Without a hardware address
\* it is an ARP request, and the packet is lost.
ipv4_out(protocol, src, dst, body) ==
    IF dst = inaddr_broadcast THEN Ipv4(mac_broadcast, protocol, src, dst, body)
    ELSE IF NextHop(dst) \in DOMAIN arp
         THEN Ipv4(arp[NextHop(dst)], protocol, src, dst, body)
         ELSE send_arp("request", config.addr, mac_broadcast, NextHop(dst))

NoRoute(dst) ==
    \/ dst = inaddr_any
    \/ dst # inaddr_broadcast /\ ~OnLink(dst) /\ config.gateway = inaddr_any

Fail(why) ==
    /\ pc' = "stopped" /\ failed' = why
    /\ UNCHANGED <<config, arp, sockets, dhcp, op, fromHost>>

\* What sending does to the variables; the guard is ~NoRoute(dst).
Out(protocol, src, dst, body) ==
    fromHost' = fromHost (+) Sent(ipv4_out(protocol, src, dst, body))

-------------------------------------------------------------------------------
(* UDP sockets.                                                            *)

Matching(addr, port) ==
    {i \in DOMAIN sockets : sockets[i].addr \in {inaddr_any, addr} /\ sockets[i].port = port}

find_open_udp_socket(addr, port) ==
    CHOOSE i \in Matching(addr, port) : \A j \in Matching(addr, port) : i <= j

\* Mutant: the search takes the last port before the dynamic range.
PortBefore(addr) == 0

FreePort(addr) ==
    CHOOSE p \in first_port .. last_port :
        /\ Matching(addr, p) = {}
        /\ \A q \in first_port .. (p - 1) : Matching(addr, q) # {}

Opened(addr, port, owner) == Append(sockets, [addr |-> addr, port |-> port, owner |-> owner])

\* udp_close, called by the socket's destructor
Closed(addr, port) ==
    LET n == find_open_udp_socket(addr, port) IN
    [i \in 1 .. Len(sockets) - 1 |-> IF i < n THEN sockets[i] ELSE sockets[i + 1]]

-------------------------------------------------------------------------------
(* The DHCP client.                                                        *)

DhcpOut(message, yiaddr, server) ==
    fromHost' = fromHost (+) Sent(ipv4_out("udp", inaddr_any, inaddr_broadcast,
                  Udp(dhcp_src_port, 67, Dhcp(message, yiaddr, server, <<>>))))

\* Mutant: the state stays, whatever it was.
DiscoverStateKept ==
    /\ DhcpOut("discover", inaddr_any, inaddr_any)
    /\ UNCHANGED dhcp

send_dhcp_discover ==
    /\ DhcpOut("discover", inaddr_any, inaddr_any)
    /\ dhcp' = [dhcp EXCEPT !.state = "wait_for_offer"]

\* The options the parser knows, with the lengths it accepts; `default' falls
\* through into subnet_mask.
AcceptsLen(type, len) ==
    CASE type \in {"router", "domain_name_server", "netbios_name_server"} -> len >= 4 /\ len % 4 = 0
      [] type = "domain_name" -> len > 0
      [] OTHER -> len = 4

IsNetmask(type) ==
    type \notin {"router", "domain_name_server", "netbios_name_server", "domain_name",
                 "broadcast_address", "lease_time", "server_identifier",
                 "renewal_time", "rebinding_time"}

\* Where the option loop ends: at the end of the list ("end"), in a REQUIRE
\* ("fail"), or never, at a padding octet, which is not stepped over ("hang").
ParseEnd(options) ==
    LET Bad == {i \in DOMAIN options :
                  \/ options[i].type = "padding"
                  \/ ~AcceptsLen(options[i].type, options[i].len)
                  \/ /\ options[i].type = "server_identifier"
                     /\ options[i].val \in {inaddr_any, inaddr_broadcast}}
    IN IF Bad = {} THEN "end"
       ELSE IF options[CHOOSE i \in Bad : \A j \in Bad : i <= j].type = "padding"
            THEN "hang" ELSE "fail"

\* The value the last option that sets a field leaves in it.
LastValue(options, types) ==
    LET At == {i \in DOMAIN options : options[i].type \in types} IN
    IF At = {} THEN inaddr_any
    ELSE options[CHOOSE i \in At : \A j \in At : j <= i].val

parse_reply(m) ==
    LET id == LastValue(m.options, {"server_identifier"})
        types == {m.options[i].type : i \in DOMAIN m.options} IN
    [server_id |-> IF id = inaddr_any THEN m.server ELSE id,
     netmask   |-> LastValue(m.options, {t \in types : IsNetmask(t)}),
     router    |-> LastValue(m.options, {"router"})]

Offered(m) ==
    [addr    |-> m.yiaddr,
     netmask |-> IF parse_reply(m).netmask = inaddr_any THEN ClassC ELSE parse_reply(m).netmask,
     gateway |-> parse_reply(m).router]

Hang == /\ pc' = "hung" /\ failed' = "padding"
        /\ UNCHANGED <<config, arp, sockets, dhcp, op, fromHost>>

Accepted(m, expected, addrs) ==
    m.message = expected /\ ParseEnd(m.options) = "end" /\ m.yiaddr \in addrs

Rejected(m, expected, addrs) ==
    \/ m.message # expected /\ Fail("dhcp_message_type")
    \/ m.message = expected /\ ParseEnd(m.options) = "fail" /\ Fail("dhcp_option")
    \/ m.message = expected /\ ParseEnd(m.options) = "hang" /\ Hang
    \/ /\ m.message = expected /\ ParseEnd(m.options) = "end" /\ m.yiaddr \notin addrs
       /\ Fail("dhcp_address")

DhcpOffer(m) ==
    \/ /\ Accepted(m, "offer", Assignable)
       /\ dhcp' = [state |-> "wait_for_ack", config |-> Offered(m)]
       /\ DhcpOut("request", m.yiaddr, parse_reply(m).server_id)
       /\ UNCHANGED <<pc, failed, config, arp, sockets, op>>
    \/ Rejected(m, "offer", Assignable)

\* Mutant: any answer ends the wait for the acknowledgement.
DhcpAckAny(m) ==
    /\ dhcp' = [dhcp EXCEPT !.state = "finished"]
    /\ UNCHANGED <<pc, failed, config, arp, sockets, op, fromHost>>

DhcpAck(m) ==
    \/ /\ Accepted(m, "ack", {dhcp.config.addr})
       /\ dhcp' = [dhcp EXCEPT !.state = "finished"]
       /\ UNCHANGED <<pc, failed, config, arp, sockets, op, fromHost>>
    \/ Rejected(m, "ack", {dhcp.config.addr})

Ignore == UNCHANGED <<pc, failed, config, arp, sockets, dhcp, op, fromHost>>

dhcp_in(m) ==
    \/ dhcp.state = "wait_for_offer" /\ DhcpOffer(m)
    \/ dhcp.state = "wait_for_ack" /\ DhcpAck(m)
    \/ dhcp.state = "finished" /\ Ignore

-------------------------------------------------------------------------------
(* Receiving.                                                              *)

\* The transfer's tftp_in: the answer ends it.
tftp_in ==
    /\ op' = [op EXCEPT !.answered = TRUE]
    /\ UNCHANGED <<pc, failed, config, arp, sockets, dhcp, fromHost>>

udp_in(f) ==
    LET Open == Matching(f.dstip, f.body.dst_port) IN
    \/ Open = {} /\ Ignore
    \/ /\ Open # {}
       /\ LET s == sockets[find_open_udp_socket(f.dstip, f.body.dst_port)] IN
          \/ s.owner = "dhcp" /\ dhcp_in(f.body.data)
          \/ s.owner = "op" /\ tftp_in

icmp_in(f) ==
    \/ /\ f.dstip # inaddr_any /\ f.dstip = config.addr /\ f.body.icmp = "echo_request"
       /\ \/ NoRoute(f.srcip) /\ Fail("no_route")
          \/ /\ ~NoRoute(f.srcip)
             /\ Out("icmp", f.dstip, f.srcip, [icmp |-> "echo_reply", rest |-> f.body.rest])
             /\ UNCHANGED <<pc, failed, config, arp, sockets, dhcp, op>>
    \/ /\ ~(f.dstip # inaddr_any /\ f.dstip = config.addr /\ f.body.icmp = "echo_request")
       /\ Ignore

ipv4_in(f) ==
    \/ f.protocol = "icmp" /\ icmp_in(f)
    \/ f.protocol \in {"igmp", "tcp"} /\ Ignore
    \/ f.protocol = "udp" /\ udp_in(f)
    \/ f.protocol \notin {"icmp", "igmp", "tcp", "udp"} /\ Fail("protocol")

\* Mutant: ARP is answered and learned from before there is an address.
ArpAlways(f) == TRUE

ArpConcerns(f) == config.addr # inaddr_any

\* Mutant: an entry that is known is not updated.
LearnedOnce(f) ==
    IF config.addr = f.tpa /\ f.spa \notin DOMAIN arp
    THEN [a \in DOMAIN arp \cup {f.spa} |-> IF a = f.spa THEN f.sha ELSE arp[a]]
    ELSE arp

Learned(f) ==
    IF f.spa \in DOMAIN arp \/ config.addr = f.tpa
    THEN [a \in DOMAIN arp \cup {f.spa} |-> IF a = f.spa THEN f.sha ELSE arp[a]]
    ELSE arp

arp_in(f) ==
    \/ ~ArpConcerns(f) /\ Ignore
    \/ /\ ArpConcerns(f)
       /\ arp' = Learned(f)
       /\ fromHost' = IF config.addr = f.tpa /\ f.oper = "request"
                      THEN fromHost (+) Sent(send_arp("reply", f.tpa, f.sha, f.spa))
                      ELSE fromHost
       /\ UNCHANGED <<pc, failed, config, sockets, dhcp, op>>

eth_in(f) ==
    \/ f.type = "ipv4" /\ ipv4_in(f)
    \/ f.type = "arp" /\ arp_in(f)
    \/ f.type = "ipv6" /\ Ignore
    \/ f.type \notin {"ipv4", "arp", "ipv6"} /\ Fail("ethertype")

-------------------------------------------------------------------------------
(* What is expected of the other machines.                                 *)

DhcpOption == [type : STRING, len : Nat, val : SUBSET Bits]
DhcpOptions == Seq(DhcpOption)

Lease(s) == Offered(Dhcp("offer", Leases[s].addr, StationAddr[s], Leases[s].options))

\* No two servers offer the same address, each names itself, and what it says
\* of routers it means.
ASSUME LeaseAssumption ==
    /\ Leases \in [Servers -> [addr : Assignable, options : DhcpOptions]]
    /\ \A s, t \in Servers : Leases[s].addr = Leases[t].addr => s = t
    /\ \A s \in Servers :
         /\ ParseEnd(Leases[s].options) = "end"
         /\ LastValue(Leases[s].options, {"server_identifier"}) \in {inaddr_any, StationAddr[s]}
         /\ (\E i \in DOMAIN Leases[s].options : Leases[s].options[i].type = "router")
            => Lease(s).gateway # inaddr_any
    /\ OddOptions \subseteq DhcpOption

\* Other machines speak for themselves, and leave UDP to the stations.
ASSUME NoiseAssumption ==
    \A f \in Noise :
      /\ f.type = "arp" => \E s \in Stations : f.sha \in {<<s, 1>>, <<s, 2>>} /\ f.spa = StationAddr[s]
      /\ f.type = "ipv4" => f.protocol # "udp" /\ f.srcip \in Assignable

tftp_server(addr) == IF addr = HomeAddr THEN HomeServer ELSE OtherServer

\* Whom a machine with the address a sends packets to.
Contacts(a) == {tftp_server(a)} \cup
    {f.srcip : f \in {g \in Noise : g.type = "ipv4" /\ g.dstip = a}}

\* Masks and gateways are those of the link: of these machines, the ones within
\* the mask are on it, and a gateway is, which is there where one is needed for
\* the server.
ASSUME RouteAssumption ==
    LET OnIt == {StationAddr[t] : t \in Stations} IN
    \A s \in Servers :
      LET c == Lease(s)
          Within(a) == a \cap c.netmask = c.addr \cap c.netmask
      IN  /\ c.gateway \in OnIt \cup {inaddr_any}
          /\ \A a \in Contacts(c.addr) : Within(a) <=> a \in OnIt
          /\ Within(tftp_server(c.addr)) \/ c.gateway # inaddr_any

-------------------------------------------------------------------------------
(* The loops of do_dhcp and tftp_op::do_op.                                *)

Init ==
    /\ pc = "dhcp_top" /\ failed = "no" /\ left = 0
    /\ config = ipv4_net_config_none
    /\ arp = <<>>
    \* dhcp_handler's constructor: the socket is open, the discover is out
    /\ sockets = <<[addr |-> inaddr_any, port |-> dhcp_src_port, owner |-> "dhcp"]>>
    /\ dhcp = [state |-> "wait_for_offer", config |-> ipv4_net_config_none]
    /\ op = NoOp
    /\ station = [s \in Stations |-> <<s, 1>>]
    /\ servers \in (SUBSET Servers) \ {{}}
    /\ granted = {}
    /\ toHost = EmptyBag
    /\ fromHost = SetToBag({<<s, Ipv4(mac_broadcast, "udp", inaddr_any, inaddr_broadcast,
                     Udp(dhcp_src_port, 67, Dhcp("discover", inaddr_any, inaddr_any, <<>>)))>> : s \in servers})
    /\ faults = [loss |-> 0, dup |-> 0, early |-> 0, quit |-> 0, noise |-> 0,
                 bad |-> 0, odd |-> 0, replace |-> 0]

FaultCount == faults.loss + faults.dup + faults.early + faults.quit + faults.noise
              + faults.odd + faults.replace

Spend(kind) == FaultCount < MaxFaults /\ faults' = [faults EXCEPT ![kind] = @ + 1]

Quiet == toHost = EmptyBag /\ fromHost = EmptyBag

\* The 50 calls of tick() without an answer are over: nothing is on its way,
\* or the answer is late.
Expires == \/ Quiet /\ UNCHANGED faults
           \/ ~Quiet /\ faults.early < MaxEarly /\ Spend("early")

StartRx(next) == pc' = next /\ left' = MaxPackets

\* Mutant: the destructor of the DHCP client's socket does not unregister it.
CloseDhcpNot == UNCHANGED sockets

CloseDhcp == sockets' = Closed(inaddr_any, dhcp_src_port)

DhcpQuit ==
    /\ pc = "dhcp_top" /\ Spend("quit")
    /\ CloseDhcp
    /\ pc' = "idle"
    /\ UNCHANGED <<failed, left, config, arp, dhcp, op, toHost, fromHost, linkVars>>

\* The result of do_dhcp is not looked at: both ways lead to the transfers.
DhcpFinished ==
    /\ pc = "dhcp_top" /\ dhcp.state = "finished"
    /\ config' = dhcp.config
    /\ CloseDhcp
    /\ pc' = "idle"
    /\ UNCHANGED <<failed, left, arp, dhcp, op, toHost, fromHost, linkVars, faults>>

\* Mutant: the client gives up after a timeout instead of asking again.
DhcpTimeoutSilent ==
    /\ pc = "dhcp_top" /\ dhcp.state # "finished"
    /\ Expires
    /\ StartRx("dhcp_rx")
    /\ UNCHANGED <<failed, config, arp, sockets, dhcp, op, toHost, fromHost, linkVars>>

DhcpTimeout ==
    /\ pc = "dhcp_top" /\ dhcp.state # "finished"
    /\ Expires
    /\ send_dhcp_discover
    /\ StartRx("dhcp_rx")
    /\ UNCHANGED <<failed, config, arp, sockets, op, toHost, linkVars>>

DhcpTick ==
    /\ pc = "dhcp_top" /\ dhcp.state # "finished"
    /\ StartRx("dhcp_rx")
    /\ UNCHANGED <<failed, config, arp, sockets, dhcp, op, toHost, fromHost, linkVars, faults>>

\* process_packets hands one frame to eth_in
Receive ==
    /\ pc \in {"dhcp_rx", "op_rx"} /\ left > 0
    /\ \E f \in BagToSet(toHost) :
         /\ toHost' = toHost (-) SetToBag({f})
         /\ eth_in(f)
    /\ left' = left - 1
    /\ UNCHANGED <<linkVars, faults>>

RxDone ==
    /\ pc \in {"dhcp_rx", "op_rx"}
    /\ left = 0 \/ toHost = EmptyBag
    /\ pc' = IF pc = "dhcp_rx" THEN "dhcp_top" ELSE "op_tick"
    /\ left' = 0
    /\ UNCHANGED <<failed, config, arp, sockets, dhcp, op, toHost, fromHost, linkVars, faults>>

tftp_address == tftp_server(config.addr)

OpSend(port) == Out("udp", config.addr, tftp_address, Udp(port, 69, "query"))

\* tftp_op's constructor: tftp_base opens the socket, the transfer sends its request
OpStart ==
    /\ pc = "idle" /\ op.count < MaxOps
    /\ LET port == FreePort(config.addr) IN
       \/ /\ ~NoRoute(tftp_address)
          /\ sockets' = Opened(config.addr, port, "op")
          /\ op' = [port |-> port, answered |-> FALSE, count |-> op.count + 1]
          /\ OpSend(port)
          /\ pc' = "op_top" /\ UNCHANGED <<failed, config, arp, dhcp>>
       \/ NoRoute(tftp_address) /\ Fail("no_route")
    /\ UNCHANGED <<left, toHost, linkVars, faults>>

OpEnd == /\ sockets' = Closed(config.addr, op.port)
         /\ op' = [op EXCEPT !.port = 0, !.answered = FALSE]
         /\ pc' = "idle"

OpQuit ==
    /\ pc = "op_top" /\ Spend("quit")
    /\ OpEnd
    /\ UNCHANGED <<failed, left, config, arp, dhcp, toHost, fromHost, linkVars>>

OpTop ==
    /\ pc = "op_top"
    /\ StartRx("op_rx")
    /\ UNCHANGED <<failed, config, arp, sockets, dhcp, op, toHost, fromHost, linkVars, faults>>

OpDone ==
    /\ pc = "op_tick" /\ op.answered
    /\ OpEnd
    /\ UNCHANGED <<failed, left, config, arp, dhcp, toHost, fromHost, linkVars, faults>>

\* Mutant: a timeout does not send the request again.
OpTimeoutSilent ==
    /\ pc = "op_tick" /\ ~op.answered
    /\ Expires
    /\ pc' = "op_top"
    /\ UNCHANGED <<failed, left, config, arp, sockets, dhcp, op, toHost, fromHost, linkVars>>

OpTimeout ==
    /\ pc = "op_tick" /\ ~op.answered
    /\ Expires
    /\ OpSend(op.port)
    /\ pc' = "op_top"
    /\ UNCHANGED <<failed, left, config, arp, sockets, dhcp, op, toHost, linkVars>>

OpTick ==
    /\ pc = "op_tick" /\ ~op.answered
    /\ pc' = "op_top"
    /\ UNCHANGED <<failed, left, config, arp, sockets, dhcp, op, toHost, fromHost, linkVars, faults>>

-------------------------------------------------------------------------------
(* The link and the stations on it (external).                             *)

Answers(s, f, options) ==
    IF f.type = "arp"
    THEN {Arp(my_mac, "reply", station[s], f.tpa, my_mac, f.spa)}
    ELSE IF f.protocol # "udp" THEN {}
    ELSE IF f.dst # mac_broadcast
    THEN {Ipv4(my_mac, "udp", f.dstip, f.srcip, Udp(69, f.body.src_port, "answer"))}
    ELSE IF s \notin servers THEN {}
    ELSE IF f.body.data.message = "discover"
    THEN {Ipv4(mac_broadcast, "udp", StationAddr[s], inaddr_broadcast, Udp(67, dhcp_src_port,
            Dhcp("offer", Leases[s].addr, StationAddr[s], options)))}
    ELSE IF f.body.data.server = StationAddr[s]
    THEN {Ipv4(mac_broadcast, "udp", StationAddr[s], inaddr_broadcast, Udp(67, dhcp_src_port,
            Dhcp("ack", f.body.data.yiaddr, StationAddr[s], options)))}
    ELSE {}

\* A station takes a frame of the machine and answers it.
StationAnswers ==
    \E sf \in BagToSet(fromHost) :
      LET s == sf[1]  f == sf[2]
          Plain == IF s \in servers THEN Leases[s].options ELSE <<>>
      IN
      /\ fromHost' = fromHost (-) SetToBag({sf})
      /\ \/ /\ toHost' = toHost (+) SetToBag(Answers(s, f, Plain))
            /\ UNCHANGED faults
         \/ /\ f.type = "ipv4" /\ f.dst = mac_broadcast
            /\ Spend("odd")
            /\ \E o \in OddOptions : toHost' = toHost (+) SetToBag(Answers(s, f, Append(Plain, o)))
      /\ granted' = granted \cup
            {<<s, a.body.data.yiaddr>> : a \in {b \in Answers(s, f, <<>>) :
                b.dst = mac_broadcast /\ b.body.data.message = "ack"}}
      /\ UNCHANGED <<hostVars, station, servers>>

Lose ==
    /\ Spend("loss")
    /\ \/ \E f \in BagToSet(toHost) : toHost' = toHost (-) SetToBag({f}) /\ UNCHANGED fromHost
       \/ \E f \in BagToSet(fromHost) : fromHost' = fromHost (-) SetToBag({f}) /\ UNCHANGED toHost
    /\ UNCHANGED <<hostVars, linkVars>>

Duplicate ==
    /\ Spend("dup")
    /\ \E f \in BagToSet(toHost) : toHost' = toHost (+) SetToBag({f})
    /\ UNCHANGED <<hostVars, fromHost, linkVars>>

NoRouteEver(f) ==
    \E s \in servers : f.dstip = Leases[s].addr /\ f.srcip \notin {StationAddr[t] : t \in Stations}
                       /\ \A i \in DOMAIN Leases[s].options : Leases[s].options[i].type # "router"

\* A ping that can be answered only through a gateway this machine has not.
FatalHere(f) ==
    \/ f.type \notin {"ipv4", "arp", "ipv6"}
    \/ f.type = "ipv4" /\ f.protocol \notin {"icmp", "igmp", "tcp", "udp"}
    \/ f.type = "ipv4" /\ f.protocol = "icmp" /\ NoRouteEver(f)

OthersSend ==
    /\ FaultCount < MaxFaults
    /\ \E f \in Noise :
         /\ f.type = "arp" => Owners(f.sha) # {}
         /\ toHost' = toHost (+) SetToBag({f})
         /\ faults' = [faults EXCEPT !.noise = @ + 1, !.bad = IF FatalHere(f) THEN @ + 1 ELSE @]
    /\ UNCHANGED <<hostVars, fromHost, linkVars>>

\* A station gets another network card and announces it; what it sent from
\* the old one has arrived by then.
Replace(s) ==
    /\ Spend("replace") /\ toHost = EmptyBag
    /\ station' = [station EXCEPT ![s] = <<s, 2>>]
    /\ toHost' = toHost (+) SetToBag({Arp(mac_broadcast, "request", <<s, 2>>, StationAddr[s],
                                          mac_broadcast, StationAddr[s])})
    /\ UNCHANGED <<hostVars, fromHost, granted, servers>>

\* The machine is stopped, hung or has made its transfers.
Over == pc \in {"stopped", "hung"} \/ (pc = "idle" /\ op.count = MaxOps)

Ended == Over /\ UNCHANGED vars

HostNext ==
    \/ DhcpQuit \/ DhcpFinished \/ DhcpTimeout \/ DhcpTick \/ Receive \/ RxDone
    \/ OpStart \/ OpQuit \/ OpTop \/ OpDone \/ OpTimeout \/ OpTick

LinkNext == ~Over /\ (StationAnswers \/ Lose \/ Duplicate \/ OthersSend \/ \E s \in Stations : Replace(s))

Next == HostNext \/ LinkNext \/ Ended

\* The loops run (yield returns), stations answer, frames arrive, and a timer
\* that is decremented in every iteration reaches zero.
Fairness ==
    /\ WF_vars(DhcpFinished \/ DhcpTick \/ Receive \/ RxDone \/ OpStart \/ OpTop \/ OpDone \/ OpTick)
    /\ WF_vars(~Over /\ StationAnswers)
    /\ SF_vars(Quiet /\ (DhcpTimeout \/ OpTimeout))

Spec == Init /\ [][Next]_vars /\ Fairness

-------------------------------------------------------------------------------
(* Properties.                                                             *)

\* Types: in particular the ports are 16-bit and every ARP entry is for a
\* 32-bit address.
TypeOK ==
    /\ pc \in {"dhcp_top", "dhcp_rx", "idle", "op_top", "op_rx", "op_tick", "stopped", "hung"}
    /\ failed = "no" <=> pc \notin {"stopped", "hung"}
    /\ left \in 0 .. MaxPackets
    /\ {config, dhcp.config} \subseteq [addr : SUBSET Bits, netmask : SUBSET Bits, gateway : SUBSET Bits]
    /\ DOMAIN arp \subseteq SUBSET Bits
    /\ \A i \in DOMAIN sockets : sockets[i].port \in 1 .. max_port /\ sockets[i].owner \in {"dhcp", "op"}
    /\ dhcp.state \in {"wait_for_offer", "wait_for_ack", "finished"}
    /\ IsABag(toHost) /\ IsABag(fromHost)

\* udp_sockets_ holds raw pointers: it lists the socket of the DHCP client
\* exactly while do_dhcp runs, and then that of the transfer while it runs,
\* whichever way they end.
SocketsLive ==
    failed = "no" =>
      sockets = IF pc \in {"dhcp_top", "dhcp_rx"}
                THEN <<[addr |-> inaddr_any, port |-> dhcp_src_port, owner |-> "dhcp"]>>
                ELSE IF pc = "idle" THEN <<>>
                ELSE <<[addr |-> config.addr, port |-> first_port, owner |-> "op"]>>

\* The address a machine takes has been granted to it, and mask and gateway
\* are those of the same server, also when other offers, repeated answers
\* and timeouts come between (servers that send only known options).
ConfigLeased ==
    config.addr # inaddr_any /\ faults.odd = 0 =>
      \E s \in servers :
        /\ <<s, config.addr>> \in granted
        /\ config = Offered(Dhcp("offer", Leases[s].addr, StationAddr[s], Leases[s].options))

\* A machine without an address neither learns hardware addresses nor sends
\* a packet other than its DHCP broadcasts, also when the user has aborted
\* DHCP and transfers run.
SilentUnconfigured ==
    config.addr = inaddr_any =>
      /\ DOMAIN arp = {}
      /\ \A sf \in BagToSet(fromHost) :
           sf[2].type = "ipv4" => sf[2].dst = mac_broadcast /\ sf[2].body.dst_port = 67

\* A packet for a station of the link goes to that station, and only one for
\* an address behind the gateway goes to the gateway: routing and the ARP
\* table never disagree.
Routed ==
    faults.odd = 0 =>
      \A sf \in BagToSet(fromHost) :
        sf[2].type = "ipv4" /\ sf[2].dst # mac_broadcast =>
          StationAddr[sf[1]] = IF \E t \in Stations : StationAddr[t] = sf[2].dstip
                               THEN sf[2].dstip ELSE config.gateway

\* Entries never age, so a station that changes its card is reached again
\* only because its announcement updates the entry: once no ARP frame is on
\* its way and none was lost, every entry is current.
ArpCurrent ==
    faults.loss = 0 /\ failed = "no" /\ (\A f \in BagToSet(toHost) : f.type # "arp") =>
      \A s \in Stations : StationAddr[s] \in DOMAIN arp => arp[StationAddr[s]] = station[s]

\* What stops the machine (a failed REQUIRE) or makes it loop for ever: with
\* one DHCP server that sends known options, no duplicates, no answer that
\* comes after the timeout and no frame of an unknown kind, nothing does,
\* whatever is lost, aborted, announced or asked of the machine.
AloneNeverStops ==
    /\ Cardinality(servers) = 1
    /\ faults.dup + faults.early + faults.bad + faults.odd = 0
    => failed = "no"

StaleEntry == \E s \in Stations : StationAddr[s] \in DOMAIN arp /\ arp[StationAddr[s]] # station[s]

\* In a polling loop that should end: that of DHCP, or that of a transfer of a
\* configured machine, unless an odd option has changed the mask.
Looping ==
    \/ pc \in {"dhcp_top", "dhcp_rx"}
    \/ pc \in {"op_top", "op_rx", "op_tick"} /\ config.addr # inaddr_any /\ faults.odd = 0

\* The interface is configured as one server granted, silent before, and its
\* list of sockets is that of the owners alive (udp_sockets_, do_dhcp).
InterfaceSound == TypeOK /\ SocketsLive /\ ConfigLeased /\ SilentUnconfigured

\* Packets take the right way: to the station, or to the gateway, and by
\* entries that follow announcements (ipv4_out, arp_in).
PathsSound == Routed /\ ArpCurrent

\* Both polling loops end (do_dhcp, do_op): a lost message costs a timeout and
\* no more, also when it is the first packet of a transfer, dropped for want of
\* a hardware address.  The exception is an ARP entry that has gone stale.
LoopsEnd == Looping ~> (pc \in {"idle", "stopped", "hung"} \/ StaleEntry)
===============================================================================

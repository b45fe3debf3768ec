--------------------------------- MODULE MCNet ---------------------------------
(***************************************************************************)
(* Instance of Net: a DHCP server d that is also the TFTP server of its    *)
(* network and offers no gateway, and a DHCP server g that is the gateway  *)
(* to the TFTP server of the other network.  Bits 4 and 3 are the network. *)
(***************************************************************************)
EXTENDS Net

MCStations == {"d", "g"}
MCStationAddr == [s \in MCStations |-> IF s = "d" THEN {4, 2} ELSE {3, 1}]

Option(type, len, val) == [type |-> type, len |-> len, val |-> val]

MCLeases ==
    [s \in MCStations |->
       IF s = "d"
       THEN [addr |-> {4, 1}, options |-> <<Option("subnet_mask", 4, {3, 4}),
                                            Option("lease_time", 4, {1}),
                                            Option("server_identifier", 4, {4, 2})>>]
       ELSE [addr |-> {3, 2}, options |-> <<Option("domain_name", 3, {1}),
                                            Option("router", 8, {3, 1})>>]]

MCBits == 1 .. 4
MCHome == {4, 1}
MCHomeServer == {4, 2}
MCOtherServer == {2}
MCClassC == {3, 4}

\* Time offset (2) and a string option (60) are unknown to the parser.
MCOdd == {Option("padding", 0, {}), Option("time_offset", 4, {4}), Option("vendor_class", 3, {})}

Ping(src, dst) == Ipv4(my_mac, "icmp", src, dst, [icmp |-> "echo_request", rest |-> 1])

MCNoise ==
    {Arp(mac_broadcast, "request", <<"g", 1>>, {3, 1}, mac_broadcast, {4, 1}),
     Ping({2}, {3, 2}), Ping({2}, {4, 1}),
     Ipv4(mac_broadcast, "igmp", {4, 2}, {2, 3, 4}, [icmp |-> "none"]),
     Ipv4(my_mac, "sctp", {4, 2}, {4, 1}, [icmp |-> "none"]),
     [type |-> "ipv6", dst |-> mac_broadcast],
     [type |-> "lldp", dst |-> mac_broadcast]}

===============================================================================

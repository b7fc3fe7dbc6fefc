--------------------------- MODULE MCEventDecode ----------------------------
(* An instance of EventDecode: values at the edges of the fields' widths.  *)
EXTENDS EventDecode

Port53 == SwapBytes(53)
Slash == 47 + 256 * 116

Socket(family, next, dport) ==
  [prog |-> "connect", skp |-> TRUE, address |-> TRUE, family |-> family, next |-> next,
   dport |-> dport, uid |-> 70000]

SomeConnects ==
  {Socket(f, n, 0) : f \in {AF_INET, AF_INET6}, n \in {0, 1, Port53}}
    \cup {Socket(AF_INET, 0, 1), Socket(AF_UNIX, 0, 0), Socket(AF_UNIX, Slash, 0),
          Socket(AF_UNSPEC, 0, 0), Socket(AF_UNSPEC, 1, 0), Socket(16, 0, 0)}
    \cup {[Socket(AF_INET, 1, 1) EXCEPT !.skp = FALSE],
          [Socket(AF_INET, 1, 1) EXCEPT !.address = FALSE]}

(* Connects of IPv4 and IPv6 sockets, without a port and to one, and of a  *)
(* netlink socket.                                                         *)
PortConnects == {Socket(f, n, 0) : f \in {AF_INET, AF_INET6}, n \in {0, Port53}} \cup {Socket(16, 0, 0)}

SomeExecs == [prog : {"java"}, mode : {0, 1, 3, 4}, file : BOOLEAN, argv : BOOLEAN]

Peer == 10 + 256 * 20 + 65536 * 30 + 16777216 * 40

SomeCloses ==
  {[prog |-> "tcp", uid |-> u, raddr |-> Peer, port |-> p, outbound |-> o, connected |-> k] :
     u \in {65535, 65536}, p \in {80, 65535}, o \in BOOLEAN, k \in BOOLEAN}

SomeLookups == [prog : {"dns"}, af : {0, AF_INET, AF_INET6, 65538}, uid : {70000}, addr : {Peer}]
SomeBpfCalls == [prog : {"bpf"}, cmd : {0, 33, 34}, uid : {70000}]
SomeForks == {[prog |-> "fork", pid |-> 5001, tgid |-> 5000, ppid |-> 70000]}

SomeReceives ==
  [prog : {"udp"}, buflen : {0, 1, 4, 511}, message : {FALSE}, types : {<<>>}, pid : {5000}]
    \cup [prog : {"udp"}, buflen : {511}, message : {TRUE}, types : {<<>>, <<5, 1>>, <<28>>},
          pid : {5000}]
=============================================================================

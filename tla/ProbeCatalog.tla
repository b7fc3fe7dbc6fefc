---------------------------- MODULE ProbeCatalog ----------------------------
(***************************************************************************)
(* The probe modules of the agent as data.  The seven probe_*.go files     *)
(* share one shape (Init, Start, start, Close, setupManagers,              *)
(* initDecodeFun, init) and differ only in what is recorded here:          *)
(*                                                                         *)
(*   name      the key under which Register stores the module              *)
(*   programs  how many eBPF programs setupManagers attaches               *)
(*   events    the maps initDecodeFun appends to eventMaps, in order, each *)
(*             with its type and the decoder put in eventFuncMaps          *)
(*   handled   perf maps whose samples the manager itself reads and hands  *)
(*             to a DataHandler, bypassing Module.readEvents               *)
(*   registers whether the file's init() calls Register                    *)
(***************************************************************************)
EXTENDS Sequences

Perf(map, decoder) == [map |-> map, type |-> "PerfEventArray", decoder |-> decoder]

Ring(map, decoder) == [map |-> map, type |-> "RingBuf", decoder |-> decoder]

MTCPProbe ==
  [ name |-> "EBPFProbeKTCP", programs |-> 1, registers |-> TRUE,
    events |-> <<Perf("events", "TCPEvent")>>, handled |-> {} ]

MTCPSecProbe ==
  [ name |-> "EBPFProbeKTCPSec", programs |-> 1, registers |-> TRUE,
    events |-> << Perf("ipv4_events", "EventIPV4"),
                  Perf("ipv6_events", "EventIPV6"),
                  Perf("other_socket_events", "EventOther") >>,
    handled |-> {} ]

MUDPProbe ==
  [ name |-> "EBPFProbeKUDP", programs |-> 2, registers |-> FALSE,
    events |-> <<Perf("dns_events", "UDPEvent")>>, handled |-> {} ]

MUDNSProbe ==
  [ name |-> "EBPFProbeUDNS", programs |-> 2, registers |-> TRUE,
    events |-> <<Perf("events", "DNSEVENT")>>, handled |-> {} ]

MProcProbe ==
  [ name |-> "EBPFProbeProc", programs |-> 1, registers |-> TRUE,
    events |-> <<Ring("ringbuf_proc", "ForkProcEvent")>>, handled |-> {} ]

MJavaRasp ==
  [ name |-> "EBPFProbeUJavaRASP", programs |-> 1, registers |-> TRUE,
    events |-> <<Perf("jdk_execvpe_events", "JavaJDKExecPeEvent")>>,
    handled |-> {} ]

MBPFCallProbe ==
  [ name |-> "EBPFProbeBPFCall", programs |-> 1, registers |-> TRUE,
    events |-> << >>, handled |-> {Perf("events", "BpfCallEvent")} ]

-----------------------------------------------------------------------------
(* The parameters of module Agent for a set S of these probes.  Maps of    *)
(* different modules may share a name ("events"), so a map is identified   *)
(* by the pair of its module's name and its own.                           *)

EventEntries(p) == {p.events[i] : i \in DOMAIN p.events}

NamesOf(S) == {p.name : p \in S}

RegisteringOf(S) == {p.name : p \in {x \in S : x.registers}}

MapsOf(S) == UNION {{<<p.name, e.map>> : e \in EventEntries(p) \cup p.handled} : p \in S}

HandlerMapsOf(S) == UNION {{<<p.name, e.map>> : e \in p.handled} : p \in S}

OwnerOf(S) == [q \in MapsOf(S) |-> q[1]]

ProbeNamed(S, n) == CHOOSE p \in S : p.name = n

EventMapsOf(S) ==
  [n \in NamesOf(S) |->
     LET es == ProbeNamed(S, n).events
     IN  [i \in DOMAIN es |-> <<n, es[i].map>>]]

MapTypeOf(S) ==
  [q \in MapsOf(S) |->
     LET p == ProbeNamed(S, q[1])
     IN  (CHOOSE e \in EventEntries(p) \cup p.handled : e.map = q[2]).type]
=============================================================================

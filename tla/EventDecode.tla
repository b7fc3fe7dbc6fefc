----------------------------- MODULE EventDecode ----------------------------
(***************************************************************************)
(* From the kernel call to the line in the log.  A program that fires      *)
(* fills its struct and outputs it to its map; the reader of the map hands *)
(* the payload to EventsDecode, which clones the map's event, decodes the  *)
(* payload into it and prints it.  The programs modelled in full here are  *)
(* the ones that keep no state: security_socket_connect and JDK_execvpe.   *)
(* The others are reduced to the struct they output.                       *)
(***************************************************************************)
EXTENDS Integers, FiniteSets, WireFormat

CONSTANTS
  Connects,   \* arguments of security_socket_connect
  Execs,      \* arguments of JDK_execvpe
  TcpCloses,  \* connections that end
  Lookups,    \* returns of getaddrinfo that output an event, with what the result reads as
  BpfCalls,   \* arguments of bpf(2)
  Forks,      \* what copy_process returns
  Receives,   \* received packets: length, whether a DNS message, types of its answers
  MaxCalls    \* bound on the kernel calls

AF_UNSPEC == 0
AF_UNIX == 1  \* AF_FILE in Go
AF_INET == 2
AF_INET6 == 10

(* A family and the two bytes after it, and a port, are 16 bits wide.      *)
Half == {n \in Nat : n < 65536}

ASSUME DecodeAssumption ==
  /\ Connects \subseteq [prog : {"connect"}, skp : BOOLEAN, address : BOOLEAN, family : Half,
                         next : Half, dport : Half, uid : Nat]
  /\ Execs \subseteq [prog : {"java"}, mode : Nat, file : BOOLEAN, argv : BOOLEAN]
  /\ TcpCloses \subseteq [prog : {"tcp"}, uid : Nat, raddr : Nat, port : Half,
                          outbound : BOOLEAN, connected : BOOLEAN]
  /\ Lookups \subseteq [prog : {"dns"}, af : Nat, uid : Nat, addr : Nat]
  /\ BpfCalls \subseteq [prog : {"bpf"}, cmd : Nat, uid : Nat]
  /\ Forks \subseteq [prog : {"fork"}, pid : Nat, tgid : Nat, ppid : Nat]
  /\ Receives \subseteq [prog : {"udp"}, buflen : Nat, message : BOOLEAN, types : Seq(Nat),
                         pid : Nat]
  /\ MaxCalls \in Nat

VARIABLES
  calls,      \* the kernel calls made, with what really happened
  buf,        \* per decoder, the samples in the map its reader reads
  log         \* the lines of the agent's log, with the samples they are of

vars == <<calls, buf, log>>

Init ==
  /\ calls = <<>>
  /\ buf = [d \in Decoders |-> <<>>]
  /\ log = <<>>

-----------------------------------------------------------------------------
(* The programs                                                            *)

Enter(c) == Len(calls) < MaxCalls /\ calls' = Append(calls, c) /\ UNCHANGED log

(* bpf_perf_event_output of n bytes.  num holds the numeric fields of the  *)
(* struct that the log line is about.                                      *)
Output(d, n, num) ==
  buf' = [buf EXCEPT ![d] = Append(@, [call |-> Len(calls) + 1, decoder |-> d,
                                       len |-> PayloadLen(d, n), num |-> num])]

OutputStruct(d, num) == Output(d, SizeOf(StructOf(d)), num)

(* address_family is 32 bits wide, the sa_family it is read from 16: the   *)
(* two bytes that follow, the port or the start of the path, are its upper *)
(* half.                                                                   *)
address_family(c) == c.family + 65536 * c.next

(* The map that security_socket_connect outputs to.  Its first argument is *)
(* a struct socket, read as if it were a struct sock: dport is whatever    *)
(* lies at skc_dport.  dport6 is the port in the address.                  *)
ConnectMap(c) ==
  LET af == address_family(c) IN
  CASE ~c.skp \/ ~c.address -> "none"
    [] c.skp /\ c.address /\ af = AF_INET -> IF c.dport # 0 THEN "EventIPV4" ELSE "none"
    [] c.skp /\ c.address /\ af = AF_INET6 -> IF c.next # 0 THEN "EventIPV6" ELSE "none"
    [] c.skp /\ c.address /\ af \notin {AF_INET, AF_INET6} ->
         IF af # AF_UNIX /\ af # AF_UNSPEC THEN "EventOther" ELSE "none"

(* Faulty variant: the second test lacks its else, so that an IPv4 socket  *)
(* comes to the last branch, too.                                          *)
kprobe__security_socket_connectNoElse(c) ==
  LET sample(d) == [call |-> Len(calls) + 1, decoder |-> d,
                    len |-> PayloadLen(d, SizeOf(StructOf(d))),
                    num |-> [af |-> address_family(c), uid |-> c.uid]]
      maps == {ConnectMap(c)} \cup (IF ConnectMap(c) = "EventIPV4" THEN {"EventOther"} ELSE {})
  IN  /\ Enter(c)
      /\ buf' = [d \in Decoders |-> IF d \in maps THEN Append(buf[d], sample(d)) ELSE buf[d]]

kprobe__security_socket_connect(c) ==
  /\ Enter(c)
  /\ IF ConnectMap(c) = "none" THEN UNCHANGED buf
     ELSE OutputStruct(ConnectMap(c), [af |-> address_family(c), uid |-> c.uid])

java_JDK_execvpe(c) ==
  /\ Enter(c)
  /\ IF c.mode # 0 /\ c.file /\ c.argv
     THEN OutputStruct("JavaJDKExecPeEvent", [mode |-> c.mode])
     ELSE UNCHANGED buf

(* The end of a connection that tcp_set_state reports.  The port is copied *)
(* as it lies in the socket, in network byte order.                        *)
SwapBytes(p) == 256 * (p % 256) + p \div 256

tcp_set_state(c) ==
  /\ Enter(c)
  /\ OutputStruct("TCPEvent",
       [family |-> AF_INET, uid |-> c.uid, raddr |-> c.raddr, rport |-> SwapBytes(c.port),
        flags |-> (IF c.outbound THEN 1 ELSE 0) + (IF c.connected THEN 16 ELSE 0)])

(* The return of a getaddrinfo: ip4addr is zero unless the answer is IPv4. *)
(* The event is output whatever the family is; after a failed getaddrinfo  *)
(* there is no result, and it is what the memory holds, or 0.              *)
getaddrinfo_return(c) ==
  /\ Enter(c)
  /\ OutputStruct("DNSEVENT", [af |-> c.af, uid |-> c.uid,
                               ip4addr |-> IF c.af = AF_INET THEN c.addr ELSE 0])

tracepoint_sys_enter_bpf(c) ==
  Enter(c) /\ OutputStruct("BpfCallEvent", [cmd |-> c.cmd, uid |-> c.uid])

kretprobe_copy_process(c) ==
  Enter(c) /\ OutputStruct("ForkProcEvent", [type |-> 1, child_pid |-> c.pid,
                                             child_tgid |-> c.tgid, parent_pid |-> c.ppid])

trace_ret_udp_recvmsg(c) == Enter(c) /\ Output("UDPEvent", 20 + c.buflen, [pid |-> c.pid])

-----------------------------------------------------------------------------
(* The decoders                                                            *)

InPayload(s, read) == read.at[1] <= read.at[2] /\ read.at[2] <= s.len

(* How Decode ends.  binary.Read fails when the payload is too short and   *)
(* Decode returns its error, except for the last read of TCPEvent; a slice *)
(* beyond the payload panics.  A packet that is not a DNS message is an    *)
(* error of the library that parses it.                                    *)
Decode(s) ==
  LET reads == ReadsOf(s.decoder, s.len)
      short == {i \in DOMAIN reads : ~InPayload(s, reads[i])}
  IN  CASE s.decoder = "TCPEvent" -> IF short \subseteq {Len(reads)} THEN "ok" ELSE "error"
        [] s.decoder = "BpfCallEvent" -> IF short = {} THEN "ok" ELSE "panic"
        [] s.decoder = "UDPEvent" ->
             IF 1 \in short THEN "error" ELSE IF short # {} THEN "panic"
             ELSE IF calls[s.call].message THEN "ok" ELSE "error"
        [] s.decoder \notin {"TCPEvent", "BpfCallEvent", "UDPEvent"} ->
             IF short = {} THEN "ok" ELSE "error"

(* The fields that are filled, with the bytes of the payload they hold.    *)
Fields(s) ==
  LET reads == ReadsOf(s.decoder, s.len)
      whole == {i \in DOMAIN reads : InPayload(s, reads[i])}
  IN  [g \in {reads[i].go : i \in whole} |->
         reads[CHOOSE i \in whole : reads[i].go = g].at]

(* What the byte after n lower ones counts for.                            *)
Weight(n) == <<1, 256, 65536, 16777216>>[n + 1]

(* The number that the bytes r of the payload are, lowest byte first, when *)
(* they lie in one numeric field of the struct, and otherwise -1.          *)
NumberAt(s, r) ==
  LET place(f) == Place(StructOf(s.decoder), f)
      in == {f \in DOMAIN s.num : place(f)[1] <= r[1] /\ r[2] <= place(f)[2]}
      f == CHOOSE x \in in : TRUE
      rest == s.num[f] \div Weight(r[1] - place(f)[1])
      width == r[2] - r[1]
  IN  IF in = {} THEN -1 ELSE IF width >= 4 THEN rest ELSE rest % Weight(width)

Number(s, go) == IF go \in DOMAIN Fields(s) THEN NumberAt(s, Fields(s)[go]) ELSE 0

(* Faulty variant: the address is taken for a number of the host.          *)
inet_ntopHost(ip) ==
  <<(ip \div 16777216) % 256, (ip \div 65536) % 256, (ip \div 256) % 256, ip % 256>>

inet_ntop(ip) ==
  <<ip % 256, (ip \div 256) % 256, (ip \div 65536) % 256, (ip \div 16777216) % 256>>

(* The commands are numbered from 0; this is the last.                     *)
BPF_ITER_CREATE == 33

(* BPFCmd.String cuts the command's name out of one string.                *)
_BPFCmd_index ==
  <<0, 14, 33, 52, 71, 91, 104, 115, 126, 141, 156, 173, 193, 212, 233, 253, 275, 289, 312,
    324, 344, 361, 391, 405, 424, 444, 475, 495, 515, 530, 545, 566, 586, 602, 617>>

CutName(cmd) ==
  IF cmd + 2 \in DOMAIN _BPFCmd_index
  THEN [name |-> Span(_BPFCmd_index[cmd + 1], _BPFCmd_index[cmd + 2])]
  ELSE [panic |-> cmd]

BPFCmdString(cmd) ==
  IF cmd < 0 \/ cmd >= Len(_BPFCmd_index) - 1 THEN [number |-> cmd] ELSE CutName(cmd)

FamilyName(af, named) ==
  IF af \notin named THEN [number |-> af]
  ELSE [name |-> CASE af = AF_UNIX -> "AF_FILE" [] af = AF_INET -> "AF_INET"
                   [] af = AF_INET6 -> "AF_INET6"]

ModeName(m) ==
  IF m \in 1 .. 4 THEN <<"MODE_FORK", "MODE_POSIX_SPAWN", "MODE_VFORK", "MODE_CLONE">>[m]
  ELSE "UNKNOW"

AnswerName(type) ==
  CASE type = 1 -> "QTypeA" [] type = 5 -> "QTypeCNAME" [] OTHER -> "ANS"

(* What String makes of the numbers of each event.                         *)
TCPEventString(s) ==
  [family |-> FamilyName(Number(s, "Family"), {AF_UNIX, AF_INET, AF_INET6}),
   UID |-> Number(s, "UID"),
   dest |-> inet_ntop(Number(s, "RAddr")), port |-> Number(s, "RPort"),
   out |-> Number(s, "Flags") % 2 # 0, result |-> (Number(s, "Flags") \div 16) % 2 # 0]

SocketEventString(s) == [AF |-> Number(s, "AF"), UID |-> Number(s, "UID")]

DNSEVENTString(s) ==
  [AF |-> FamilyName(Number(s, "AF"), {AF_INET, AF_INET6}), UID |-> Number(s, "UID"),
   IP |-> inet_ntop(Number(s, "AddrIpv4"))]

JavaString(s) == [mode |-> ModeName(Number(s, "Mode"))]

BpfCallEventString(s) == [Type |-> BPFCmdString(Number(s, "Type")), Uid |-> Number(s, "Uid")]

ForkProcEventString(s) ==
  [childpid |-> Number(s, "ChildPid"), childtgid |-> Number(s, "ChildTgid"),
   parentpid |-> Number(s, "ParentPid"), parenttgid |-> Number(s, "ParentTgid")]

(* The answers are those of the message that the packet is.                *)
UDPEventString(s) ==
  LET types == calls[s.call].types IN
  [PID |-> Number(s, "pid"), ans |-> [i \in DOMAIN types |-> AnswerName(types[i])]]

StringOf(s) ==
  CASE s.decoder = "TCPEvent" -> TCPEventString(s)
    [] s.decoder \in {"EventIPV4", "EventIPV6", "EventOther"} -> SocketEventString(s)
    [] s.decoder = "DNSEVENT" -> DNSEVENTString(s)
    [] s.decoder = "JavaJDKExecPeEvent" -> JavaString(s)
    [] s.decoder = "BpfCallEvent" -> BpfCallEventString(s)
    [] s.decoder = "ForkProcEvent" -> ForkProcEventString(s)
    [] s.decoder = "UDPEvent" -> UDPEventString(s)

(* What EventsDecode writes to the log for a sample.  An event that does   *)
(* not decode leaves an error there.                                       *)
EventLine(s) ==
  IF Decode(s) = "ok"
  THEN [call |-> s.call, decoder |-> s.decoder, outcome |-> "ok",
        fields |-> Fields(s), text |-> StringOf(s)]
  ELSE [call |-> s.call, decoder |-> s.decoder, outcome |-> Decode(s),
        fields |-> <<>>, text |-> <<>>]

(* One turn of a reader: Decode of the module, EventsDecode and Write.     *)
EventsDecode(d) ==
  /\ buf[d] # <<>>
  /\ buf' = [buf EXCEPT ![d] = Tail(@)]
  /\ log' = Append(log, EventLine(Head(buf[d])))
  /\ UNCHANGED calls

(* The bound on the calls is reached and every sample is read.             *)
Quiet ==
  /\ Len(calls) = MaxCalls
  /\ \A d \in Decoders : buf[d] = <<>>
  /\ UNCHANGED vars

Next ==
  \/ \E c \in Connects : kprobe__security_socket_connect(c)
  \/ \E c \in Execs : java_JDK_execvpe(c)
  \/ \E c \in TcpCloses : tcp_set_state(c)
  \/ \E c \in Lookups : getaddrinfo_return(c)
  \/ \E c \in BpfCalls : tracepoint_sys_enter_bpf(c)
  \/ \E c \in Forks : kretprobe_copy_process(c)
  \/ \E c \in Receives : trace_ret_udp_recvmsg(c)
  \/ \E d \in Decoders : EventsDecode(d)
  \/ Quiet

Spec == Init /\ [][Next]_vars

-----------------------------------------------------------------------------
Lines == {log[i] : i \in DOMAIN log}

(* The fields of each event that are read from where the struct has them.  *)
(* Not among them: what follows AF in EventOther and EventIPV6, where AF   *)
(* is narrower than the struct's, and the fields of ForkProcEvent, which   *)
(* does not read the struct's type.                                        *)
SoundFields(d) ==
  CASE d = "TCPEvent" -> {"StartNS", "EndNS", "PID", "LAddr", "RAddr", "RPort", "Flags",
                          "Rx", "Tx", "Comm", "Family"}
    [] d = "EventIPV4" -> {"TSUS", "PID", "UID", "AF", "TASK"}
    [] d \in {"EventIPV6", "EventOther"} -> {"TSUS", "PID", "UID"}
    [] d = "DNSEVENT" -> {"PID", "UID", "AF", "AddrIpv4", "HOST"}
    [] d = "JavaJDKExecPeEvent" -> {"Pid", "Mode", "File"}
    [] d = "BpfCallEvent" -> {"Type", "Pid", "Uid", "Comm", "Cmdline", "UtsName"}
    [] d = "UDPEvent" -> {"comm"}
    [] d = "ForkProcEvent" -> {}

Meant(d, go) ==
  LET reads == ReadsOf(d, 0) IN reads[CHOOSE i \in DOMAIN reads : reads[i].go = go].c

(* A field that a log line prints was read from the bytes where the C      *)
(* compiler puts the struct's field of that meaning, for all the printed   *)
(* fields named above: the two layouts, written down in two languages,     *)
(* agree there (kern/*_kern.c structs, Decode in user/event_*.go).         *)
FieldsInPlace ==
  \A l \in Lines : l.outcome = "ok" =>
    \A go \in SoundFields(l.decoder) :
      go \in DOMAIN l.fields /\ l.fields[go] = Place(StructOf(l.decoder), Meant(l.decoder, go))

(* No payload is too short for its decoder, whatever the padding of perf   *)
(* records: no Decode returns an error of binary.Read or panics on a slice *)
(* and no field is left at zero, so that the error TCPEvent.Decode drops   *)
(* never happens; only a received packet that is no DNS message fails.     *)
PayloadLongEnough ==
  \A l \in Lines :
    \/ /\ l.outcome = "ok"
       /\ \A i \in DOMAIN ReadsOf(l.decoder, 20) :
            ReadsOf(l.decoder, 20)[i].go \in DOMAIN l.fields
    \/ /\ l.outcome = "error" /\ l.decoder = "UDPEvent"
       /\ ~calls[l.call].message

(* The four bytes of an address, in the order in which they lie in memory. *)
Octets(addr) == [i \in 1 .. 4 |-> (addr \div Weight(i - 1)) % 256]

(* A line with the numbers of the call c.                                  *)
ShowsCall(l, c) ==
  CASE l.decoder \in {"EventIPV4", "EventIPV6", "EventOther"} ->
         l.text.AF = c.family /\ l.text.UID = c.uid
    [] l.decoder = "TCPEvent" ->
         /\ l.text.family = [name |-> "AF_INET"]
         /\ c.uid < 65536 => l.text.UID = c.uid
         /\ l.text.dest = Octets(c.raddr)
         /\ l.text.out = c.outbound /\ l.text.result = c.connected
    [] l.decoder = "DNSEVENT" ->
         /\ l.text.AF = IF c.af = AF_INET THEN [name |-> "AF_INET"]
                        ELSE IF c.af = AF_INET6 THEN [name |-> "AF_INET6"]
                        ELSE [number |-> c.af]
         /\ l.text.UID = c.uid
         /\ c.af = AF_INET => l.text.IP = Octets(c.addr)
    [] l.decoder = "JavaJDKExecPeEvent" -> l.text.mode = ModeName(c.mode)
    [] l.decoder = "BpfCallEvent" ->
         /\ l.text.Uid = c.uid
         /\ "panic" \notin DOMAIN l.text.Type
         /\ "name" \in DOMAIN l.text.Type <=> c.cmd <= BPF_ITER_CREATE
    [] l.decoder = "UDPEvent" ->
         \A i \in DOMAIN c.types : c.types[i] = 1 <=> l.text.ans[i] = "QTypeA"
    [] l.decoder = "ForkProcEvent" -> TRUE

(* What a line shows is what happened, through struct, padding, decoder    *)
(* and String: the family and user of a connect, although the kernel reads *)
(* the family too wide and Go too narrow; peer, direction and result of a  *)
(* connection, and its user if it is below 65536; family, user and IPv4    *)
(* address of a lookup; the mode of an exec; user and command of a bpf()   *)
(* call; which answers of a DNS message are addresses.                     *)
NumbersShown ==
  \A l \in Lines : l.outcome = "ok" => ShowsCall(l, calls[l.call])

Reports(i, ds) ==
  Cardinality({p \in ds \X (1 .. MaxCalls) :
                 p[2] \in DOMAIN buf[p[1]] /\ buf[p[1]][p[2]].call = i})
    + Cardinality({k \in DOMAIN log : log[k].call = i /\ log[k].decoder \in ds})

(* A connect is reported at most once over the three maps, and exactly     *)
(* once if it is to an address with a port, or of a family without ports   *)
(* that is neither AF_UNIX nor AF_UNSPEC (security_socket_connect),        *)
(* whichever of the three branches its family leads to.                    *)
ConnectReportedOnce ==
  \A i \in DOMAIN calls : calls[i].prog = "connect" =>
    LET c == calls[i] IN
    /\ Reports(i, Decoders) <= 1
    /\ c.skp /\ c.address /\ c.family \notin {AF_UNIX, AF_UNSPEC}
         /\ (c.family \in {AF_INET, AF_INET6} => c.next # 0)
       => Reports(i, Decoders) = 1

(* The comment in security_socket_connect on what goes to the map          *)
(* other_socket_events: "other sockets, except UNIX and UNSPEC sockets".   *)
OtherSocketsOnly ==
  \A l \in Lines : l.decoder = "EventOther" =>
    calls[l.call].family \notin {AF_INET, AF_INET6, AF_UNIX, AF_UNSPEC}
=============================================================================

----------------------------- MODULE WireFormat -----------------------------
(***************************************************************************)
(* The two sides of every event: the C struct an eBPF program outputs and  *)
(* the fields the Go decoder of that event reads.  A struct is a sequence  *)
(* of fields; a field has a name, a size and an alignment in bytes.  A     *)
(* decoder is a sequence of reads; a read names the Go field, the bytes it *)
(* takes and the field of the struct it is meant for.                      *)
(***************************************************************************)
EXTENDS Naturals, Sequences

U(name, w) == [name |-> name, size |-> w, align |-> w]
Bytes(name, n) == [name |-> name, size |-> n, align |-> 1]

Packed(fields) ==
  [i \in DOMAIN fields |-> [name |-> fields[i].name, size |-> fields[i].size, align |-> 1]]

AlignUp(n, a) == ((n + a - 1) \div a) * a

(* The offset of every field of a struct, with the C compiler's padding.   *)
Offsets(s) ==
  LET off[i \in DOMAIN s] ==
        IF i = 1 THEN 0 ELSE AlignUp(off[i - 1] + s[i - 1].size, s[i].align)
  IN  off

(* Its size, a multiple of the largest alignment.                          *)
SizeOf(s) ==
  LET end == Offsets(s)[Len(s)] + s[Len(s)].size
      largest == CHOOSE a \in {s[i].align : i \in DOMAIN s} :
                   \A i \in DOMAIN s : s[i].align <= a
  IN  AlignUp(end, largest)

IndexOf(s, name) == CHOOSE i \in DOMAIN s : s[i].name = name

(* The bytes from the first up to, not including, the second number.       *)
Span(from, to) == <<from, to>>

Place(s, name) ==
  LET i == IndexOf(s, name) IN Span(Offsets(s)[i], Offsets(s)[i] + s[i].size)

-----------------------------------------------------------------------------
(* What the programs output                                                *)

event_t ==
  Packed(<<U("start_ns", 8), U("end_ns", 8), U("pid", 4), U("laddr", 4), U("lport", 2),
           U("raddr", 4), U("rport", 2), U("flags", 1), U("rx_b", 8), U("tx_b", 8),
           Bytes("task", 16), U("family", 2), U("uid", 4)>>)

ipv4_event_t ==
  Packed(<<U("ts_us", 8), U("pid", 4), U("uid", 4), U("af", 4), U("laddr", 4),
           U("lport", 2), U("daddr", 4), U("dport", 2), Bytes("task", 16)>>)

ipv6_event_t ==
  Packed(<<U("ts_us", 8), U("pid", 4), U("uid", 4), U("af", 4), Bytes("task", 16),
           U("daddr", 16), U("dport", 2)>>)

other_socket_event_t ==
  Packed(<<U("ts_us", 8), U("pid", 4), U("uid", 4), U("af", 4), Bytes("task", 16)>>)

data_t ==
  Packed(<<U("pid", 4), U("uid", 4), U("af", 4), U("ip4addr", 4), U("ip6addr", 16),
           Bytes("host", 80)>>)

jdk_execvpe == Packed(<<U("pid", 4), U("mode", 8), Bytes("file", 128)>>)

(* proc_info_t is not packed.                                              *)
proc_info_t ==
  <<U("type", 4), U("child_pid", 4), U("child_tgid", 4), U("parent_pid", 4),
    U("parent_tgid", 4), U("grandparent_pid", 4), U("grandparent_tgid", 4), U("uid", 4),
    U("gid", 4), U("cwd_level", 4), U("uts_inum", 4), U("start_time", 8),
    Bytes("comm", 16), Bytes("cmdline", 128), Bytes("filepath", 128)>>

(* bpf_context_t with the fields of its proc_common, which begins at a     *)
(* multiple of 8 as its largest field demands.                             *)
bpf_context_t ==
  <<U("cmd", 4), U("pending0", 4), U("pid", 4), U("tgid", 4), U("nspid", 4), U("nstgid", 4),
    U("ppid", 4), U("ptgid", 4), U("nsppid", 4), U("nsptgid", 4), U("pppid", 4),
    U("pptgid", 4), U("nspppid", 4), U("nspptgid", 4), U("uid", 4), U("euid", 4),
    U("gid", 4), U("egid", 4), U("uts_inum", 4), U("pending", 4), U("start_time", 8),
    Bytes("comm", 16), Bytes("cmdline", 256), Bytes("uts_name", 64)>>

dns_data_t == <<U("pid", 4), Bytes("comm", 16), Bytes("pkt", 512)>>

-----------------------------------------------------------------------------
(* What the decoders read                                                  *)

(* binary.Read of one field after the other.                               *)
Read(go, w, c) == [go |-> go, size |-> w, c |-> c]

Sequential(reads) ==
  LET at[i \in DOMAIN reads] == IF i = 1 THEN 0 ELSE at[i - 1] + reads[i - 1].size
  IN  [i \in DOMAIN reads |->
         [go |-> reads[i].go, at |-> Span(at[i], at[i] + reads[i].size), c |-> reads[i].c]]

(* A slice of the payload.                                                 *)
Slice(go, from, to, c) == [go |-> go, at |-> Span(from, to), c |-> c]

TCPEvent ==
  <<Read("StartNS", 8, "start_ns"), Read("EndNS", 8, "end_ns"),
    Read("PID", 4, "pid"), Read("LAddr", 4, "laddr"), Read("LPort", 2, "lport"),
    Read("RAddr", 4, "raddr"), Read("RPort", 2, "rport"), Read("Flags", 1, "flags"),
    Read("Rx", 8, "rx_b"), Read("Tx", 8, "tx_b"), Read("Comm", 16, "task"),
    Read("Family", 2, "family"), Read("UID", 2, "uid")>>

(* Faulty variant: the local address is read as 16 bits.                   *)
EventIPV4ShortAddr ==
  <<Read("TSUS", 8, "ts_us"), Read("PID", 4, "pid"), Read("UID", 4, "uid"),
    Read("AF", 4, "af"), Read("LAddr", 2, "laddr"), Read("LPort", 2, "lport"),
    Read("RAddr", 4, "daddr"), Read("RPort", 2, "dport"), Read("TASK", 16, "task")>>

EventIPV4 ==
  <<Read("TSUS", 8, "ts_us"), Read("PID", 4, "pid"), Read("UID", 4, "uid"),
    Read("AF", 4, "af"), Read("LAddr", 4, "laddr"), Read("LPort", 2, "lport"),
    Read("RAddr", 4, "daddr"), Read("RPort", 2, "dport"), Read("TASK", 16, "task")>>

EventIPV6 ==
  <<Read("TSUS", 8, "ts_us"), Read("PID", 4, "pid"), Read("UID", 4, "uid"),
    Read("AF", 2, "af"), Read("TASK", 16, "task"), Read("RAddr", 16, "daddr"),
    Read("RPort", 2, "dport")>>

EventOther ==
  <<Read("TSUS", 8, "ts_us"), Read("PID", 4, "pid"), Read("UID", 4, "uid"),
    Read("AF", 2, "af"), Read("TASK", 16, "task")>>

(* Faulty variant: HOST_COMM_LEN is larger than the struct's host.         *)
DNSEVENTLongHost ==
  <<Read("PID", 4, "pid"), Read("UID", 4, "uid"), Read("AF", 4, "af"),
    Read("AddrIpv4", 4, "ip4addr"), Read("AddrIpv6", 16, "ip6addr"), Read("HOST", 96, "host")>>

DNSEVENT ==
  <<Read("PID", 4, "pid"), Read("UID", 4, "uid"), Read("AF", 4, "af"),
    Read("AddrIpv4", 4, "ip4addr"), Read("AddrIpv6", 16, "ip6addr"), Read("HOST", 80, "host")>>

JavaJDKExecPeEvent ==
  <<Read("Pid", 4, "pid"), Read("Mode", 8, "mode"), Read("File", 128, "file")>>

(* ForkProcEvent has a field eventType, which Decode does not read.        *)
ForkProcEvent ==
  <<Read("ChildPid", 4, "child_pid"), Read("ChildTgid", 4, "child_tgid"),
    Read("ParentPid", 4, "parent_pid"), Read("ParentTgid", 4, "parent_tgid"),
    Read("GrandParentPid", 4, "grandparent_pid"),
    Read("GrandParentTgid", 4, "grandparent_tgid"), Read("Uid", 4, "uid"),
    Read("Gid", 4, "gid"), Read("Cwd_level", 4, "cwd_level"), Read("UtsInum", 4, "uts_inum"),
    Read("Start_time", 8, "start_time"), Read("Comm", 16, "comm"),
    Read("Cmdline", 128, "cmdline"), Read("Path", 128, "filepath")>>

BpfCallEvent ==
  <<Slice("Type", 0, 4, "cmd"), Slice("Pid", 8, 12, "pid"), Slice("Tgid", 12, 16, "tgid"),
    Slice("NsPid", 16, 20, "nspid"), Slice("NsTgid", 20, 24, "nstgid"),
    Slice("PPid", 24, 28, "ppid"), Slice("PTgid", 28, 32, "ptgid"),
    Slice("NsPPid", 32, 36, "nsppid"), Slice("NsPTgid", 36, 40, "nsptgid"),
    Slice("PPPid", 40, 44, "pppid"), Slice("PPTgid", 44, 48, "pptgid"),
    Slice("NsPPPid", 48, 52, "nspppid"), Slice("NsPPTgid", 52, 56, "nspptgid"),
    Slice("Uid", 56, 60, "uid"), Slice("Euid", 60, 64, "euid"), Slice("Gid", 64, 68, "gid"),
    Slice("Egid", 68, 72, "egid"), Slice("UtsInum", 72, 76, "uts_inum"),
    Slice("Start_time", 80, 88, "start_time"), Slice("Comm", 88, 104, "comm"),
    Slice("Cmdline", 104, 360, "cmdline"), Slice("UtsName", 360, 424, "uts_name")>>

(* The process number goes to a local variable, not to the field pid; the  *)
(* packet is the rest of a payload of n bytes.                             *)
UDPEvent(n) ==
  <<Slice("local_pid", 0, 4, "pid"), Slice("comm", 4, 20, "comm"),
    Slice("packet", 20, n, "pkt")>>

-----------------------------------------------------------------------------
(* The decoder of each map's samples, and the struct of the samples.       *)
Decoders ==
  {"TCPEvent", "EventIPV4", "EventIPV6", "EventOther", "DNSEVENT", "JavaJDKExecPeEvent",
   "ForkProcEvent", "BpfCallEvent", "UDPEvent"}

StructOf(d) ==
  CASE d = "TCPEvent" -> event_t
    [] d = "EventIPV4" -> ipv4_event_t
    [] d = "EventIPV6" -> ipv6_event_t
    [] d = "EventOther" -> other_socket_event_t
    [] d = "DNSEVENT" -> data_t
    [] d = "JavaJDKExecPeEvent" -> jdk_execvpe
    [] d = "ForkProcEvent" -> proc_info_t
    [] d = "BpfCallEvent" -> bpf_context_t
    [] d = "UDPEvent" -> dns_data_t

ReadsOf(d, n) ==
  CASE d = "TCPEvent" -> Sequential(TCPEvent)
    [] d = "EventIPV4" -> Sequential(EventIPV4)
    [] d = "EventIPV6" -> Sequential(EventIPV6)
    [] d = "EventOther" -> Sequential(EventOther)
    [] d = "DNSEVENT" -> Sequential(DNSEVENT)
    [] d = "JavaJDKExecPeEvent" -> Sequential(JavaJDKExecPeEvent)
    [] d = "ForkProcEvent" -> Sequential(ForkProcEvent)
    [] d = "BpfCallEvent" -> BpfCallEvent
    [] d = "UDPEvent" -> UDPEvent(n)

(* The bytes of a payload that a reader gets for n bytes output: a perf    *)
(* record pads them so that, with its own four bytes of length, it is a    *)
(* multiple of eight; the ring buffer hands out what was reserved.         *)
PayloadLen(d, n) == IF d = "ForkProcEvent" THEN n ELSE AlignUp(n + 4, 8) - 4
=============================================================================

# A verification project for ehids-agent

ehids-agent is a host intrusion detection agent: eBPF programs in the kernel
(`kern/*.c`) observe TCP connections, DNS lookups, forks, `bpf()` calls and Java
execs, and a Go process (`main.go`, `user/*.go`) loads them, reads the samples
they output and writes them to a log. This directory has TLA+ models of
that system, the TLC configurations that check them on small
instances, and TLAPS proofs of the most important properties for all instances.

## The system

| Part | Source | State | Operations |
|---|---|---|---|
| Main and registry | `main.go`, `user/register.go` | registry, `stopper`, context | `Register`, `signal.Notify`, start of the modules, cancel, exit |
| Module framework | `user/imodule.go` | `errChan`, position of `Run` and of every reader | `Run`, `readEvents`, `perfEventReader`, `ringbufEventReader`, `Decode`, `Write` |
| Probe modules | `user/probe_*.go` | manager, `eventMaps`, `eventFuncMaps` | `Init`, `start`, `initDecodeFun`, `dataHandler`, `Close` |
| Event buffers | perf and ring buffers | records, samples owed as lost | output, overflow, read |
| TCP tracker | `kern/tcp_set_state_kern.c` | hash map `conns` | one kprobe |
| DNS tracker | `kern/dns_lookup_kern.c` | hash maps `start`, `currres` | a uprobe and a uretprobe |
| UDP tracker | `kern/udp_lookup_kern.c` | hash map `tbl_udp_msg_hdr` | a kprobe and a kretprobe |
| `bpf()` tracker | `kern/bpf_call_kern.c` | LRU map `bpf_context` | a tracepoint |
| Socket connect, fork, Java exec | `kern/sec_socket_connect_kern.c`, `proc_kern.c`, `java_exec_kern.c` | none of their own | one program each |
| Decoders | `user/event_*.go` | none | `Decode`, `String` |

The parts meet in the maps. A program writes a sample to an event map; a reader
goroutine of the module that owns the map takes it, decodes it and writes it to
the log. The `bpf()` probe is different: the ebpf manager reads its map and calls
`dataHandler`. Programs on different CPUs share the hash maps; nothing but the
atomicity of a single map operation protects a sequence of them.

What makes this hard: buffers overflow; readers block in `Read` and look at the
context only before it; `readEvents` abandons its error channel after one error;
a step of `start()` may fail and nothing is undone; hash maps refuse an entry
when full and no program looks; socket addresses and process numbers are used
again while old entries remain; the kernel may skip a kprobe; a process may be
killed between the two probes of a pair.

## Modules

| Module | Models |
|---|---|
| `ProbeCatalog` | the seven probes as data: maps, types, handlers, whether `init()` registers them |
| `Agent` | main, registry, modules, readers and event buffers together |
| `LossyStream` | what the event path promises, as an abstract specification |
| `TcpSetState` | `kprobe__tcp_set_state` on several sockets |
| `DnsLookup` | `getaddrinfo_entry` and `getaddrinfo_return` on several threads |
| `UdpRecv` | `trace_udp_recvmsg` and `trace_ret_udp_recvmsg` on several threads and CPUs |
| `BpfCall` | `tracepoint_sys_enter_bpf` and `make_event` on the LRU map `bpf_context` |
| `ForkRing` | `kretprobe_copy_process` and the ring buffer on several CPUs, with its reader |
| `WireFormat` | the C struct of every event and the reads of its Go decoder |
| `EventDecode` | from the kernel call to the log line: `security_socket_connect` and `JDK_execvpe` in full, `EventsDecode`, and `Decode` and `String` of every event |
| `MC...` | instances for TLC |
| `AgentProofs`, `AgentStreamProofs`, `TcpSetStateProofs`, `DnsLookupProofs`, `UdpRecvProofs`, `BpfCallProofs`, `ForkRingProofs`, `EventDecodeProofs` | theorems and their proofs |

**Agent.** `mainPc`, `run[m]`, `reader[q]` are the positions of main, of the
goroutine executing `m.Run()` and of the reader of map `q`. `SendError` blocks on
a full `errChan` as the Go send does. `Signal` is `os/signal`: before `Notify`
the signal ends the process, after it a signal that finds `stopper` full is
forgotten. `StartModule` is one turn of main's loop, in any order, as Go ranges
over a map. `StartManager` may fail with any part of its work done. `ReceiveError`
ends `Run`: `readEvents` never returns nil, so `run()`, `Stop` and `Close` are
unreachable and not in the model. A sample is its sequence number in its map, and
the model accounts for each: `reported`, `undecoded`, `lost` (counted in a log
line) or `dropped` (gone without a trace). The buffers are external code: a perf
buffer exists while its reader does, owes a LOST record for what did not fit and
writes it before the next sample that fits; the ring buffer refuses a sample.
Every return of a reader runs the deferred `rd.Close()` (`CloseReader`), which
destroys a perf buffer with all that waits in it; a ring buffer is the map itself
and keeps its records. `LossyStream` has the closing as a step of its own. A perf map has one buffer per CPU; the model has one, so its claims on order are
per CPU. `MaxSamples` bounds what the programs output.

**TcpSetState.** `tcp[s]` is the truth about the connection a socket address
carries now, `call[s]` the call of `tcp_set_state` in progress. The socket lock
serialises the calls for one socket; those for different sockets interleave
between any two map operations (`SynSent`, `DeleteOld`, `Untracked`, `Tracked`,
`UpdateConn`, `Output`, `DeleteConn`). `UpdateConn` silently does nothing on a
full map. `Enter` may skip the program (`MaxMisses` times) and `Attach` may happen
in the middle of connections. An event is output together with the truth it came
from, so that a property can compare the two. Left out: addresses, ports, byte
counters and the name, which are copied.

**DnsLookup.** A call is a thread and a number; host and result pointer are
identified with the call they belong to. Every map operation is a step. `Follow`
is the read through a pointer to a map element that a concurrent thread may have
deleted and that may have been given to another key: the outcome is chosen from
what the memory can hold. `Attach` attaches the uprobe and then the uretprobe,
while processes run; the return of a call is hooked when it begins or not at all
(`hooked`). `noRes` are the calls with a NULL result pointer, for which
`getaddrinfo_return` leaves without an event and without deleting the entries.
`Kill` ends a process inside `getaddrinfo`; its number may be used again. `missed`
are the calls for which the return probe did not run, because of a kill or because
the uretprobe was not there.

**UdpRecv.** The kernel catches the return of at most `MaxActive` calls at a time;
of the others only the entry program runs, and what it stored stays. The return
program keeps its CPU, so that the scratch memory `dns_data[c]` has one user, but
every helper call is a step that interleaves with other CPUs. The length goes
through the mask `0x1ff` as in the code. The iterator of the msghdr names the
buffer of the caller until the receive has filled it; then it has `moved`, and what
the program reads is any memory of the process (`PacketRead`). The `!data` branch is left out:
the lookup in an array of one element does not fail.

**BpfCall.** The kernel's LRU map has free lists per CPU, evicts in batches and
steals from other CPUs, and none of that is promised. The model leaves it open: an
update may evict any set of stored elements, in use or not, and takes a free or an
evicted one, also while a program on another CPU writes through a pointer to it; it
may be refused when none is free. `disturbed` remembers the threads whose program
lost its element, was refused one, or got one to which another program has a
pointer. The output goes to the entry of the CPU's number, which a CPU beyond the
entries does not have.

**ForkRing.** Reserve, the two halves of the filling, and submit are steps; records
become readable in the order of the reservations. Memory is used again and not
cleared: `Stale` is a field with the bytes of an older record. `cwd_level` and the
end of `cmdline` are never written and keep such bytes, as in the code. A failed
`copy_process` gives a record of zeros, because the reads through the error
pointer fail.

**WireFormat and EventDecode.** A struct is a sequence of fields with sizes and
alignments, from which the compiler's offsets follow; a decoder is a sequence of
reads with widths. A sample is a value for each field of the struct; decoding
takes, for every Go field, the bytes that lie where the decoder reads. `EventLine`
is the log line of a sample, `Weight` the place value of a byte, and `ShowsCall`
what a line has to show of a call, `Octets` the bytes of an address. Values in the run are at the edges of the
widths: users around 65536, commands around the last known one, ports of 0 and not,
packets of 0, 1, 4 and 511 bytes, lookups with and without a known family. The DNS
program outputs its event whatever the family is: after a failed lookup there is
none, and it is what the memory holds, or 0. Names, hosts, times,
byte counters and command lines are copied and left out.

## Runs

Passing runs:

| Run | Instance | States | What it shows |
|---|---|---|---|
| `AgentPerf` | one perf map, buffer of 2, 4 samples, fair | 9,715 | every sample has one fate; `LossyStream` is implemented; at most one report per reader after the cancellation; accepted samples are settled |
| `AgentReaders` | three readers, `errChan` of exactly 3 places, fair | 352,271 | no reader blocks in its error send; the failure of one reader does not keep the samples of the others |
| `AgentModules` | ring buffer of 1 with 2 samples, handled perf map of 2 with 4, and an unregistered module, fair | 237,087 | every sample has one fate on the two other event paths, a refused one and a forgotten LOST record included; a signal at any time ends the process; one module's failure does not keep the other's samples |
| `Tcp` | two sockets, `conns` of one place, three connections, one skipped call, attachment at any time | 6,454,527 | events are exact, places do not leak, a record gives one event, what was seen is reported |
| `Dns` | a process of two threads beside one of one thread, maps of one place, probes attached one by one, NULL results, one kill | 4,604,093 | the events of the single-threaded process pair host and result of one call |
| `Events` | every kind of event, two kernel calls | 11,697 | printed fields are read from where the struct has them, no payload is too short, the numbers that `ShowsCall` has are those of the call, a connect is reported once |
| `UdpRecv` | three threads, two CPUs, map of 2, two places for returns, answers of 511 to 513 bytes, moved iterators | 449,155 | events do not mix receives; a receive that was not stored is reported only over an entry that a missed return left; the early returns leave no entry; stored receives shorter than 512 bytes and than their buffer are reported in full |
| `BpfCall` | three threads, three CPUs, three elements, two perf entries, four calls, any eviction | 1,748,741 | an event is wrong only if its program shared an element; one is missing only after an eviction, a refused update or on a CPU without an entry |
| `ForkRing` | three CPUs, ring of 2, five runs, fair | 107,233 | whole records in the order of the reservations; `LossyStream` is implemented; every reserved record is read |

`NumbersShown` demands the numbers that the code gets right. It is silent on those
it does not: see the differences below.

Runs that refute a statement of the documents or of a comment (details in
`findings` of `PROJECT.json`):

| Run | Statement | What the code does |
|---|---|---|
| `DocTcpFlags` | phase 2 document, line 223: flags tell the direction | an outbound connection whose record a full `conns` refuses at SYN_SENT is reported as inbound. The run has the program attached first (`AttachedSpec`), so that no other cause is left |
| `DocDnsPaired` | phase 3 document, lines 350 and 352: entry and return pair up | a thread overwrites `start` while another thread of its process is between its lookups and its output, which then has the wrong host. Both probes are attached first (`AttachedSpec`) |
| `DocOtherSockets` | `sec_socket_connect_kern.c`, line 123: other sockets, except UNIX and UNSPEC | the connect of an IPv4 socket to port 53 goes there, too, as do all IPv4 and IPv6 connects to a port other than 0 |

Other differences between documents and code, visible in the models without a run:

- phase 1, line 692: an error of one reader stops the module. The other readers go
  on (`ReceiveError`).
- phase 2, lines 110-112, and phase 3, lines 119-121: IPv4 connects go to
  `ipv4_events` and IPv6 connects to `ipv6_events`. With a port other than 0 neither
  does; `ipv6_events` stays empty (`ConnectMap`). `ConnectReportedOnce` does not say
  to which map a connect goes.
- phase 2, lines 777 and 787: up to 512 bytes of a packet are output. A packet of
  512 gets length 0 under the mask (`BufLen`). `StoredReceiveReported` is about
  shorter ones.
- phase 3, line 351: an entry lives for one call. A return without `currres`
  leaves `start`, one with a NULL result pointer both (`ReturnRes`).
- phase 3, line 302 and phase 5 part 2, line 555: the LRU map loses no event. An
  element may be evicted before its program has found it (`Lookup`);
  `LostForAReason` says only that nothing else loses one.
- phase 4, lines 93-94: every reader notices `ctx.Done()`. One blocked in `Read` is
  not woken (`TakeRecord`; line 180 of the same document says so). Line 207: the
  ring buffer loses nothing. A failed reserve loses the sample uncounted (`Emit`).
- phase 5 part 1, line 130: the decoder of fork events skips `type`. It does not,
  as lines 151ff of the same document say. Line 149: `cwd_level` is 0. It is never
  written. Line 147: `cmdline` is cut at 127. Its length is taken modulo 128.
- Numbers that a line has wrong, which no property demands in either form: all
  numbers of a fork line are one field late (`ForkProcEvent` begins with `ChildPid`,
  `proc_info_t` with `type`); the pid of a UDP line is 0; the user of a TCP line is
  taken modulo 65536; `TASK` of `EventOther` and `EventIPV6` is read two bytes off.
  The port of a TCP line has its bytes swapped.
- README, lines 16 and 129 show the UDP probe, whose `Register` is commented out.

Every property of a passing run has a faulty variant of the code in the model
(comments say "Faulty variant") under which TLC finds it violated.

**Bounds.** Buffers of 2 with 4 samples let a perf buffer overflow, write its LOST
record, drain and overflow again. A LOST record and a sample need two places, so
with a buffer of 1 no LOST record would ever be written. `AgentReaders` gives
`errChan` 3 places instead of 8, the tightest size for three readers. Maps of one
place for two users are the smallest in which one user's entry refuses the
other's; three calls or connections let a leftover of the first meet the second
and the recovery show in the third. Three threads on three CPUs with three elements
can hold one each, lose it to another, or find none; a fourth call meets what the
first left. In `AgentModules` the ring has one place less than samples, and the
perf buffer is that of `AgentPerf`. A ring of 2 with five runs is filled, refuses
and is used again twice over. One CPU per perf map and one skipped call are limits
of the model checking, not of the code; the theorems have no bound on the skipped
calls.
Symmetry is used only in runs without temporal properties.

**Fairness.** Weak fairness of main, of every `Run` and of every reader: the Go
scheduler runs every goroutine that can run, and the 100 ms of the grace period
pass. In `ForkRing` also of every program that has begun, which the kernel runs
to its end. Nothing obliges a user to send a signal, a program to output a sample,
a process to fork or a `Read` to fail.

**Deadlock** is checked in all passing runs. `Agent` stutters only after the exit;
the others only when their bounds are used up and nothing is in progress.

## Proofs

TLAPS proves, for any sets of modules, maps, sockets, processes, threads, CPUs and
kernel calls and for any sizes:

| Theorem | Statement | Inductive invariant |
|---|---|---|
| `AgentProofs!TypeCorrect` | `[]TypeOK` | `TypeInv` |
| `AgentProofs!LateReports` | `[]AtMostOneLateReport` | `LateInv`: a reader that reported late is back at its look at the context, or gone |
| `AgentProofs!ErrorSendsNeverBlock` | `[]NoErrorSendBlocks` | `ErrInv`: the errors in the channel are of different readers, all of which have returned |
| `AgentStreamProofs!SamplesHaveOneFate` | `[]OneFate` | `StreamInv`: samples under way are in the order hand, buffer, owed; every sample is in one place |
| `AgentStreamProofs!AgentImplementsStream` | `ImplementsStream` | the same, with `ErrInv` |
| `TcpSetStateProofs!TypeCorrect` | `[]TypeOK` | itself |
| `TcpSetStateProofs!RecordsEndWithConnection` | `[]NoRecordOutlives` | `RecordInv`: with no call skipped, the record of a socket is that of the connection it carries |
| `TcpSetStateProofs!InboundExactly` | `[]InboundEventsExact` | `RecordInv` and `InboundInv`: the record, and the copy a call works on, fit the inbound connection |
| `TcpSetStateProofs!OutboundExactly` | `[]OutboundEventsExact` | `OutboundInv`: the same for an outbound connection that was seen from its start |
| `TcpSetStateProofs!RecordsReportedOnce` | `[]OneEventPerRecord` | `FreshInv`: a record in `conns`, or about to be stored or output, was not reported until it is deleted |
| `TcpSetStateProofs!SeenConnectionsReported` | `[]SeenIsReported` | `SeenInv`: a connection that was seen from its start has a record until it is closed; an IPv4 one is reported before the record goes |
| `DnsLookupProofs!TypeCorrect`, `TrackedCallsPaired`, `UntrackedEventsStale`, `TrackedCallsReported`, `EntriesCleared` | `[]` of `TypeOK`, `TrackedCallPaired`, `UntrackedEventStale`, `TrackedCallReported`, `EntriesEndWithCall` | `IInv`: what a single-threaded process has in the maps is of its current call, or is left over and known to be |
| `UdpRecvProofs!TypeCorrect`, `EventsOfOneReceive`, `OnlyStoredReceivesReported`, `EntriesEndWithReceive`, `ReceivesReported` | `[]` of `TypeOK`, `EventOfOneReceive`, `OnlyStoredReported`, `EntryEndsWithReceive`, `StoredReceiveReported` | `IInv`: a CPU has one program, whose scratch memory holds what that program wrote; an entry is of its thread's current receive or of a missed one |
| `ForkRingProofs!TypeCorrect`, `RecordsAreWhole`, `RingImplementsStream` | `[]TypeOK`, `[]RecordsWhole`, `ImplementsStream` | `IInv`: records between consumer and producer are in different cells, each owned by at most one CPU while busy, and whole once submitted |
| `BpfCallProofs!EventsOfOneCall`, `CallsLostForAReason` | `[]EventOfOneCall`, `[]LostForAReason` | `IInv`: an element is taken by one update at a time, and a program that is not disturbed has an element to which nobody else writes |
| `EventDecodeProofs!FieldsReadInPlace`, `PayloadsSuffice`, `NumbersAreTheCalls`, `ConnectsReportedOnce` | `[]` of `FieldsInPlace`, `PayloadLongEnough`, `NumbersShown`, `ConnectReportedOnce` | `IInv`: a sample is what its call's program sends, a line is right, a call is in one place at most, and a connect with an event is in one |

**Assumptions** are those of the modules. `AgentAssumption` types the constants.
`EventMapsAssumption` says that the maps of a module's `Events()` are its own,
occur once and are at most as many as `errChan` has places; it holds for the seven
probes, which have three at most for 8 places. `TcpAssumption` says that 0 is not
a process. `DecodeAssumption`
types the calls: the families of socket addresses and the ports have 16 bits, every
other number is any natural number. The other assumptions are types and a ring with a place.

**Arguments.** `ErrorSendsNeverBlock` is a pigeonhole argument: the waiting errors
and the one about to be sent are of different maps of one module, so the channel
is not full. `AgentStreamProofs` gives every map an account of its samples, proves
that each of five moves (take, settle, count, produce, clear) keeps an account
sound, and then that every step of the agent is such a move of one account or of none. The
order in the account is what makes a settled sample the oldest under way.
`ForkRingProofs` rests on `CellsDiffer`: positions less than the capacity apart
have different remainders. The invariants about records of connections are needed
because an event is written from a copy made several steps earlier, while other
sockets take and free places of the map; those of `DnsLookup` and `UdpRecv`,
because an entry is read long after it was written, and what refused, killed or
missed calls left is still there. An event of a record is the only one because the
invariant follows the record from the call that makes it to the deletion, also
through the copies that calls work on (`FreshInv`).

`BpfCallProofs` needs no order of use. A program is alone with its element from the
update that takes it (`Alone`, `Holds`); only a later update of another thread can
end that, by evicting the element or by taking one to which a pointer is left, and
it marks whom it disturbs.

`EventDecodeProofs` computes, by induction over the fields, the offset of every
field of the nine structs (`Layout_...`) and of every read of the nine decoders
(`Fields_...`), compares the two (`Placed_...`), and derives what each `String`
prints (`Numbers_...`, `Text_...`). A line is thereby right for any sample that a
program may send (`LineGood`); the invariant says that there are no other samples,
and that no call is in two places, its sample leaving the map when the reader
writes the line.

Every invariant that a passing run checks is a theorem. Only model-checked is
liveness (`SignalEndsProcess`, `AcceptedIsSettled`, `ReservedIsRead`), which is
outside this prover's reach, as is `ENABLED`. Induction over numbers is not: the
library's induction theorems with an operator as a parameter cannot be
instantiated, but well-foundedness of the numbers gives the least-number principle
for sets, and with it what the recursive functions of the layouts compute (`Least`,
`Induction`).

## Not modelled

- `run()`, `Stop` and `Close` of modules and probes, which no execution reaches.
- The generated package of bytecode in `assets`; its lookup is the step
  `LoadAsset`.
- Data that is only copied: names, hosts, times, byte counters, command lines.
- `get_cwd` of `event_proc.go`, which nothing calls.
- The buffers of several CPUs of one perf map: the order between CPUs is not
  promised by anything.
- Kernel headers, build files, the examples.

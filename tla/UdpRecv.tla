------------------------------- MODULE UdpRecv ------------------------------
(***************************************************************************)
(* trace_udp_recvmsg and trace_ret_udp_recvmsg: the kprobe pair that       *)
(* reports the DNS answers a thread receives.  The entry program keeps the *)
(* msghdr of a receive from port 53 in tbl_udp_msg_hdr under the thread;   *)
(* the return program follows it to the packet, builds the event in the    *)
(* scratch memory of its CPU, outputs it and deletes the entry.            *)
(*                                                                         *)
(* A program keeps its CPU until it ends, and every helper call of the     *)
(* return program is a step.  The kernel has MaxActive places for calls    *)
(* whose return is to be caught: the return of a call that found none is   *)
(* missed, although its entry program ran.                                 *)
(*                                                                         *)
(* A call is its thread and its number there; a msghdr, or a packet, is    *)
(* the call it belongs to.                                                 *)
(***************************************************************************)
EXTENDS Integers, FiniteSets

CONSTANTS
  Threads,      \* threads that receive (values of pid_tgid)
  CPUs,
  MaxEntries,   \* max_entries of tbl_udp_msg_hdr, 10240 in the code
  MaxActive,    \* DefaultKProbeMaxActive, 512 in the code
  Answers,      \* how a call can end: the result of udp_recvmsg (bytes, or a
                \* negative error), the kind of its iterator, whether that
                \* has moved past the first buffer, the length of the buffer
                \* it is at, and whether the comm can be read
  MaxCalls      \* bound: calls of each thread

ASSUME UdpAssumption ==
  /\ MaxEntries \in Nat
  /\ MaxActive \in Nat
  /\ Answers \subseteq [iovec : BOOLEAN, moved : BOOLEAN, copied : Int, iov_len : Nat,
                        comm : BOOLEAN]
  /\ MaxCalls \in [Threads -> Nat]

VARIABLES
  pc,        \* where a thread is
  num,       \* the number of its current or latest call
  caught,    \* the threads inside a call whose return will be caught
  tracked,   \* the threads whose current or latest call has stored its entry
  missed,    \* the threads that ever returned uncaught
  tbl,       \* tbl_udp_msg_hdr: for a thread, a call or none
  cpu,       \* the CPU on which a thread runs the return program, or none
  answer,    \* what the current or latest call returned, once it is looked at
  dns_data,  \* the scratch memory: per CPU, whose comm and packet it has
  events     \* the events output

vars == <<pc, num, caught, tracked, missed, tbl, cpu, answer, dns_data, events>>

MAX_PKT == 512

Calls == Threads \X Nat
None == <<>>

Program == {"comm", "packet", "output", "delete"}

CallOf(t) == <<t, num[t]>>

Goto(t, to) == pc' = [pc EXCEPT ![t] = to]

Init ==
  /\ pc = [t \in Threads |-> "out"]
  /\ num = [t \in Threads |-> 0]
  /\ caught = {}
  /\ tracked = {}
  /\ missed = {}
  /\ tbl = [t \in Threads |-> None]
  /\ cpu = [t \in Threads |-> None]
  /\ answer = [t \in Threads |-> None]
  /\ dns_data = [c \in CPUs |-> [comm |-> None, pkt |-> None]]
  /\ events = {}

-----------------------------------------------------------------------------
(* The call                                                                *)

(* bpf_map_update_elem refuses a new key when the map is full.             *)
Fits(t) == tbl[t] # None \/ Cardinality({u \in Threads : tbl[u] # None}) < MaxEntries

(* Faulty variant: the port is not looked at.                              *)
trace_udp_recvmsgAnyPort(t) ==
  /\ pc[t] = "out"
  /\ num[t] < MaxCalls[t]
  /\ num' = [num EXCEPT ![t] = @ + 1]
  /\ answer' = [answer EXCEPT ![t] = None]
  /\ caught' = IF Cardinality(caught) < MaxActive THEN caught \cup {t} ELSE caught
  /\ \E port53 \in BOOLEAN :
       IF Fits(t)
       THEN /\ tbl' = [tbl EXCEPT ![t] = <<t, num[t] + 1>>]
            /\ tracked' = IF port53 THEN tracked \cup {t} ELSE tracked \ {t}
       ELSE tracked' = tracked \ {t} /\ UNCHANGED tbl
  /\ Goto(t, "inside")
  /\ UNCHANGED <<missed, cpu, dns_data, events>>

(* A thread enters udp_recvmsg and the entry program runs: only a receive  *)
(* from port 53 is stored, if the map has place.                           *)
trace_udp_recvmsg(t) ==
  /\ pc[t] = "out"
  /\ num[t] < MaxCalls[t]
  /\ num' = [num EXCEPT ![t] = @ + 1]
  /\ answer' = [answer EXCEPT ![t] = None]
  /\ caught' = IF Cardinality(caught) < MaxActive THEN caught \cup {t} ELSE caught
  /\ \E port53 \in BOOLEAN :
       IF port53 /\ Fits(t)
       THEN tbl' = [tbl EXCEPT ![t] = <<t, num[t] + 1>>] /\ tracked' = tracked \cup {t}
       ELSE tracked' = tracked \ {t} /\ UNCHANGED tbl
  /\ Goto(t, "inside")
  /\ UNCHANGED <<missed, cpu, dns_data, events>>

(* The call returns and its return is not caught.                          *)
ReturnMissed(t) ==
  /\ pc[t] = "inside"
  /\ t \notin caught
  /\ missed' = missed \cup {t}
  /\ Goto(t, "out")
  /\ UNCHANGED <<num, caught, tracked, tbl, cpu, answer, dns_data, events>>

-----------------------------------------------------------------------------
(* trace_ret_udp_recvmsg                                                   *)

Idle(c) == \A t \in Threads : cpu[t] # c

(* Faulty variant: the length is not masked.                               *)
BufLenUnmasked(a) == a.copied

(* Faulty variant: the mask is a byte.                                     *)
BufLenByte(a) == a.copied % 256

(* copied & 0x1ff                                                          *)
BufLen(a) == a.copied % 512

(* The checks before the scratch memory is touched.                        *)
Accepted(a) ==
  /\ a.iovec
  /\ a.copied >= 0 /\ a.copied <= MAX_PKT
  /\ BufLen(a) <= a.iov_len

(* The call returns and the program looks its thread up.  The msghdr of an *)
(* earlier call is memory that may hold anything, so that the iterator and *)
(* the buffer are arbitrary then, too.                                     *)
ReturnLookup(t) ==
  /\ pc[t] = "inside"
  /\ t \in caught
  /\ \E c \in CPUs, a \in Answers :
       /\ Idle(c)
       /\ answer' = [answer EXCEPT ![t] = a]
       /\ IF tbl[t] = None
          THEN Goto(t, "out") /\ caught' = caught \ {t} /\ UNCHANGED cpu
          ELSE /\ Goto(t, IF Accepted(a) THEN "comm" ELSE "delete")
               /\ cpu' = [cpu EXCEPT ![t] = c]
               /\ UNCHANGED caught
  /\ UNCHANGED <<num, tracked, missed, tbl, dns_data, events>>

(* Faulty variant: one scratch memory for all CPUs.                        *)
ReturnCommShared(t) ==
  /\ pc[t] = "comm"
  /\ IF answer[t].comm
     THEN dns_data' = [c \in CPUs |-> [dns_data[c] EXCEPT !.comm = CallOf(t)]] /\ Goto(t, "packet")
     ELSE Goto(t, "delete") /\ UNCHANGED dns_data
  /\ UNCHANGED <<num, caught, tracked, missed, tbl, cpu, answer, events>>

ReturnComm(t) ==
  /\ pc[t] = "comm"
  /\ IF answer[t].comm
     THEN dns_data' = [dns_data EXCEPT ![cpu[t]].comm = CallOf(t)] /\ Goto(t, "packet")
     ELSE Goto(t, "delete") /\ UNCHANGED dns_data
  /\ UNCHANGED <<num, caught, tracked, missed, tbl, cpu, answer, events>>

(* The memory of the process of t that no receive has filled.              *)
Elsewhere(t) == <<t, 0>>

(* The packet is read from the start of the buffer at which the iterator   *)
(* of the msghdr is.  The receive has filled the first buffer only; the    *)
(* msghdr of an earlier call may lead to that call's buffer, to the        *)
(* present one's or anywhere.                                              *)
PacketRead(t) ==
  IF tbl[t] = CallOf(t) /\ ~answer[t].moved THEN {CallOf(t)}
  ELSE {tbl[t], CallOf(t), Elsewhere(t)}

ReturnPacket(t) ==
  /\ pc[t] = "packet"
  /\ \E p \in PacketRead(t) : dns_data' = [dns_data EXCEPT ![cpu[t]].pkt = p]
  /\ Goto(t, "output")
  /\ UNCHANGED <<num, caught, tracked, missed, tbl, cpu, answer, events>>

(* The event is output, with the process of the thread itself.             *)
ReturnOutput(t) ==
  /\ pc[t] = "output"
  /\ events' = events \cup {[by |-> CallOf(t), comm |-> dns_data[cpu[t]].comm,
                             pkt |-> dns_data[cpu[t]].pkt, copied |-> answer[t].copied,
                             len |-> 4 + 16 + BufLen(answer[t]), moved |-> answer[t].moved,
                             tracked |-> t \in tracked]}
  /\ Goto(t, "delete")
  /\ UNCHANGED <<num, caught, tracked, missed, tbl, cpu, answer, dns_data>>

(* Faulty variant: the entry stays.                                        *)
ReturnKeeps(t) ==
  /\ pc[t] = "delete"
  /\ caught' = caught \ {t}
  /\ cpu' = [cpu EXCEPT ![t] = None]
  /\ Goto(t, "out")
  /\ UNCHANGED <<num, tracked, missed, tbl, answer, dns_data, events>>

ReturnDelete(t) ==
  /\ pc[t] = "delete"
  /\ tbl' = [tbl EXCEPT ![t] = None]
  /\ caught' = caught \ {t}
  /\ cpu' = [cpu EXCEPT ![t] = None]
  /\ Goto(t, "out")
  /\ UNCHANGED <<num, tracked, missed, answer, dns_data, events>>

(* Every thread has made all the calls the bound allows.                   *)
Quiet ==
  /\ \A t \in Threads : pc[t] = "out" /\ num[t] = MaxCalls[t]
  /\ UNCHANGED vars

Next ==
  \/ \E t \in Threads :
       \/ trace_udp_recvmsg(t) \/ ReturnMissed(t)
       \/ ReturnLookup(t) \/ ReturnComm(t) \/ ReturnPacket(t) \/ ReturnOutput(t)
       \/ ReturnDelete(t)
  \/ Quiet

Spec == Init /\ [][Next]_vars

-----------------------------------------------------------------------------
(* Properties                                                              *)

(* The types of the state.                                                 *)
TypeOK ==
  /\ pc \in [Threads -> {"out", "inside"} \cup Program]
  /\ num \in [Threads -> Nat]
  /\ caught \subseteq Threads
  /\ tracked \subseteq Threads
  /\ missed \subseteq Threads
  /\ tbl \in [Threads -> Calls \cup {None}]
  /\ cpu \in [Threads -> CPUs \cup {None}]
  /\ answer \in [Threads -> Answers \cup {None}]
  /\ dns_data \in [CPUs -> [comm : Calls \cup {None}, pkt : Calls \cup {None}]]
  /\ events \subseteq [by : Calls, comm : Calls, pkt : Calls, copied : Int,
                       len : 20 .. 531, moved : BOOLEAN, tracked : BOOLEAN]

(* An event never mixes two receives that run at the same time on          *)
(* different CPUs: command and packet in the scratch memory are those of   *)
(* the thread whose return outputs it, and if that receive was stored at   *)
(* its entry and left its iterator in the first buffer, the packet is the  *)
(* very one it received, whatever entries missed returns have left behind. *)
EventOfOneReceive ==
  \A e \in events :
    /\ e.comm = e.by
    /\ e.pkt[1] = e.by[1]
    /\ e.tracked /\ ~e.moved => e.pkt = e.by

(* "only grab port 53 packets": the return of a receive from another port, *)
(* or of one the full map refused, outputs an event only if an earlier     *)
(* return of that thread was missed and left its entry.                    *)
OnlyStoredReported ==
  \A e \in events : e.tracked \/ e.by[1] \in missed

(* A thread between two receives has an entry only if its return was       *)
(* missed: every path of the return program deletes it.                    *)
EntryEndsWithReceive ==
  \A t \in Threads : pc[t] = "out" /\ tbl[t] # None => t \in missed

(* A stored receive that was caught, of less than MAX_PKT bytes that do    *)
(* not fill its first buffer, has its event when the next one can begin,   *)
(* and the event has all its bytes.                                        *)
StoredReceiveReported ==
  \A t \in Threads :
    /\ pc[t] = "out"
    /\ t \in tracked
    /\ answer[t] # None
    /\ answer[t].iovec /\ answer[t].comm /\ ~answer[t].moved
    /\ answer[t].copied \in 0 .. MAX_PKT - 1
    /\ answer[t].copied < answer[t].iov_len
    => \E e \in events : e.by = CallOf(t) /\ e.len = 20 + answer[t].copied
=============================================================================

--------------------------- MODULE UdpRecvProofs ---------------------------
(***************************************************************************)
(* Proofs about UdpRecv, for any threads and CPUs, any size of the map and *)
(* of the kretprobe's pool, any answers and any number of calls.           *)
(***************************************************************************)
EXTENDS UdpRecv, TLAPS

(* The steps of one thread.                                                *)
Step(t) ==
  \/ trace_udp_recvmsg(t) \/ ReturnMissed(t)
  \/ ReturnLookup(t) \/ ReturnComm(t) \/ ReturnPacket(t) \/ ReturnOutput(t)
  \/ ReturnDelete(t)

(* The return program of a thread has an entry, a CPU of its own and an    *)
(* answer, one it accepts if it is past the checks.                        *)
Running ==
  \A t \in Threads :
    /\ pc[t] \in Program => tbl[t] # None /\ cpu[t] \in CPUs /\ answer[t] \in Answers
    /\ pc[t] \in {"comm", "packet", "output"} => Accepted(answer[t])
    /\ pc[t] = "inside" => answer[t] = None

Exclusive ==
  \A t, u \in Threads :
    t # u /\ pc[t] \in Program /\ pc[u] \in Program => cpu[t] # cpu[u]

(* An entry is one of its own thread, that of the present call if the call *)
(* was stored, and one that is left from before only if a return was       *)
(* missed.                                                                 *)
Entries ==
  \A t \in Threads :
    /\ tbl[t] # None => tbl[t][1] = t
    /\ pc[t] # "out" /\ t \in tracked => tbl[t] = CallOf(t)
    /\ tbl[t] # None => t \in missed \/ (t \in tracked /\ pc[t] # "out")

(* What is in the scratch memory of the CPU a program runs on.             *)
Scratch ==
  \A t \in Threads :
    /\ pc[t] \in {"packet", "output"} => dns_data[cpu[t]].comm = CallOf(t)
    /\ pc[t] = "output" =>
         /\ dns_data[cpu[t]].pkt \in Calls
         /\ dns_data[cpu[t]].pkt[1] = t
         /\ t \in tracked /\ ~answer[t].moved => dns_data[cpu[t]].pkt = CallOf(t)

(* An answer the return program has to report.                             *)
Reportable(a) ==
  /\ a.iovec /\ a.comm /\ ~a.moved
  /\ a.copied \in 0 .. MAX_PKT - 1
  /\ a.copied < a.iov_len

HasEvent(t) == \E e \in events : e.by = CallOf(t) /\ e.len = 20 + answer[t].copied

(* By the time its entry is deleted, a stored receive has its event.       *)
Reporting ==
  \A t \in Threads :
    /\ pc[t] \in {"delete", "out"} /\ t \in tracked /\ answer[t] # None
    /\ Reportable(answer[t])
    => HasEvent(t)

(* The positions of a thread inside the return program.                    *)
LEMMA ProgramPcs ==
  /\ "out" \notin Program /\ "inside" \notin Program
  /\ {"comm", "packet", "output", "delete"} \subseteq Program
BY DEF Program

(* A receive is of a thread, and not the absence of one.                   *)
LEMMA CallFacts == ASSUME NEW c \in Calls PROVE c # None /\ c = <<c[1], c[2]>> /\ c[1] \in Threads
BY DEF Calls, None

(* The current receive of a thread is the thread's own.                    *)
LEMMA CallOfType == ASSUME TypeOK, NEW t \in Threads PROVE CallOf(t) \in Calls /\ CallOf(t)[1] = t
BY DEF TypeOK, CallOf, Calls

(* The length of an accepted packet after the mask.                        *)
LEMMA Masked ==
  ASSUME NEW a \in Answers, Accepted(a)
  PROVE  /\ BufLen(a) \in 0 .. 511
         /\ a.copied < MAX_PKT => BufLen(a) = a.copied
<1>1. a.copied \in Int /\ a.copied >= 0 /\ a.copied <= 512
  BY UdpAssumption DEF Accepted, MAX_PKT
<1>2. CASE a.copied = 512
  BY <1>2 DEF BufLen, MAX_PKT
<1>3. CASE a.copied < 512
  BY <1>1, <1>3 DEF BufLen, MAX_PKT
<1> QED
  BY <1>1, <1>2, <1>3

(* What must be reported passes the early returns of the program.          *)
LEMMA ReportableAccepted == ASSUME NEW a \in Answers, Reportable(a) PROVE Accepted(a)
<1>1. a.copied \in Int /\ a.copied >= 0 /\ a.copied < 512 /\ a.iov_len \in Nat
  BY UdpAssumption DEF Reportable, MAX_PKT
<1> QED
  BY <1>1 DEF BufLen, MAX_PKT, Accepted, Reportable

-----------------------------------------------------------------------------
(* Type correctness, together with Running                                 *)

(* The types hold in the first state, and no program runs.                 *)
LEMMA TypeInit == Init => TypeOK /\ Running
<1> SUFFICES ASSUME Init PROVE TypeOK /\ Running
  OBVIOUS
<1>1. pc \in [Threads -> {"out", "inside"} \cup Program] /\ num \in [Threads -> Nat]
  BY DEF Init
<1>2. /\ tbl \in [Threads -> Calls \cup {None}] /\ cpu \in [Threads -> CPUs \cup {None}]
      /\ answer \in [Threads -> Answers \cup {None}]
  BY DEF Init
<1>3. dns_data \in [CPUs -> [comm : Calls \cup {None}, pkt : Calls \cup {None}]]
  BY DEF Init
<1>4. Running
  BY ProgramPcs DEF Init, Running
<1> QED
  BY <1>1, <1>2, <1>3, <1>4 DEF Init, TypeOK

(* The entry program keeps the types.                                      *)
LEMMA TypeEntry ==
  ASSUME TypeOK, NEW t \in Threads, trace_udp_recvmsg(t)
  PROVE  TypeOK'
<1>1. num' \in [Threads -> Nat] /\ <<t, num[t] + 1>> \in Calls
  BY DEF trace_udp_recvmsg, TypeOK, Calls
<1>2. tbl' \in [Threads -> Calls \cup {None}] /\ tracked' \subseteq Threads
  BY <1>1 DEF trace_udp_recvmsg, TypeOK
<1>3. pc' \in [Threads -> {"out", "inside"} \cup Program]
  BY DEF trace_udp_recvmsg, Goto, TypeOK
<1>4. answer' \in [Threads -> Answers \cup {None}] /\ caught' \subseteq Threads
  BY DEF trace_udp_recvmsg, TypeOK
<1> QED
  BY <1>1, <1>2, <1>3, <1>4 DEF trace_udp_recvmsg, TypeOK

(* The lookup of the return program keeps the types.                       *)
LEMMA TypeLookup ==
  ASSUME TypeOK, NEW t \in Threads, ReturnLookup(t)
  PROVE  TypeOK'
<1>1. PICK c \in CPUs, a \in Answers :
        /\ answer' = [answer EXCEPT ![t] = a]
        /\ \/ Goto(t, "out") /\ caught' = caught \ {t} /\ UNCHANGED cpu
           \/ /\ Goto(t, IF Accepted(a) THEN "comm" ELSE "delete")
              /\ cpu' = [cpu EXCEPT ![t] = c]
              /\ UNCHANGED caught
  BY DEF ReturnLookup
<1>2. pc' \in [Threads -> {"out", "inside"} \cup Program]
  BY <1>1, ProgramPcs DEF Goto, TypeOK
<1>3. /\ answer' \in [Threads -> Answers \cup {None}]
      /\ cpu' \in [Threads -> CPUs \cup {None}]
      /\ caught' \subseteq Threads
  BY <1>1 DEF TypeOK
<1> QED
  BY <1>2, <1>3 DEF ReturnLookup, TypeOK

(* The copy of the process name keeps the types.                           *)
LEMMA TypeComm ==
  ASSUME TypeOK, Running, NEW t \in Threads, ReturnComm(t)
  PROVE  TypeOK'
<1>1. pc' \in [Threads -> {"out", "inside"} \cup Program]
  BY ProgramPcs DEF ReturnComm, Goto, TypeOK
<1>2. cpu[t] \in CPUs
  BY ProgramPcs DEF ReturnComm, Running
<1>3. dns_data' = [dns_data EXCEPT ![cpu[t]].comm = CallOf(t)] \/ dns_data' = dns_data
  BY DEF ReturnComm
<1>4. dns_data' \in [CPUs -> [comm : Calls \cup {None}, pkt : Calls \cup {None}]]
  BY <1>2, <1>3, CallOfType DEF TypeOK
<1> QED
  BY <1>1, <1>4 DEF ReturnComm, TypeOK

(* The copy of the packet keeps the types.                                 *)
LEMMA TypePacket ==
  ASSUME TypeOK, Running, NEW t \in Threads, ReturnPacket(t)
  PROVE  TypeOK'
<1>1. pc' \in [Threads -> {"out", "inside"} \cup Program]
  BY ProgramPcs DEF ReturnPacket, Goto, TypeOK
<1>2. cpu[t] \in CPUs /\ tbl[t] \in Calls \cup {None}
  BY ProgramPcs DEF ReturnPacket, Running, TypeOK
<1>3. PacketRead(t) \subseteq Calls \cup {None}
  BY <1>2, CallOfType DEF PacketRead, Elsewhere, Calls
<1>4. PICK p \in PacketRead(t) : dns_data' = [dns_data EXCEPT ![cpu[t]].pkt = p]
  BY DEF ReturnPacket
<1>5. dns_data' \in [CPUs -> [comm : Calls \cup {None}, pkt : Calls \cup {None}]]
  BY <1>2, <1>3, <1>4 DEF TypeOK
<1> QED
  BY <1>1, <1>5 DEF ReturnPacket, TypeOK

(* The event a return outputs.                                             *)
NewEvent(t) ==
  [by |-> CallOf(t), comm |-> dns_data[cpu[t]].comm,
   pkt |-> dns_data[cpu[t]].pkt, copied |-> answer[t].copied,
   len |-> 4 + 16 + BufLen(answer[t]), moved |-> answer[t].moved, tracked |-> t \in tracked]

(* The output adds one event.                                              *)
LEMMA OutputEffect ==
  ASSUME NEW t \in Threads, ReturnOutput(t)
  PROVE  events' = events \cup {NewEvent(t)}
BY DEF ReturnOutput, NewEvent

(* The output keeps the types.                                             *)
LEMMA TypeOutput ==
  ASSUME TypeOK, Running, Scratch, NEW t \in Threads, ReturnOutput(t)
  PROVE  TypeOK'
<1>1. pc' \in [Threads -> {"out", "inside"} \cup Program]
  BY ProgramPcs DEF ReturnOutput, Goto, TypeOK
<1>2. answer[t] \in Answers /\ Accepted(answer[t])
  BY ProgramPcs DEF ReturnOutput, Running
<1>3. answer[t].copied \in Int /\ 4 + 16 + BufLen(answer[t]) \in 20 .. 531
  BY <1>2, Masked, UdpAssumption
<1>4. dns_data[cpu[t]].comm \in Calls /\ dns_data[cpu[t]].pkt \in Calls
  BY CallOfType DEF ReturnOutput, Scratch
<1>5. (t \in tracked) \in BOOLEAN /\ answer[t].moved \in BOOLEAN
  BY <1>2, UdpAssumption
<1>6. NewEvent(t) \in [by : Calls, comm : Calls, pkt : Calls, copied : Int,
                       len : 20 .. 531, moved : BOOLEAN, tracked : BOOLEAN]
  BY <1>3, <1>4, <1>5, CallOfType DEF NewEvent
<1> QED
  BY <1>1, <1>6, OutputEffect DEF ReturnOutput, TypeOK

(* A step of a thread keeps the types.                                     *)
LEMMA TypeStep ==
  ASSUME TypeOK, Running, Scratch, NEW t \in Threads, Step(t)
  PROVE  TypeOK'
<1>1. CASE ReturnMissed(t)
  BY <1>1, ProgramPcs DEF ReturnMissed, Goto, TypeOK
<1>2. CASE ReturnDelete(t)
  BY <1>2, ProgramPcs DEF ReturnDelete, Goto, TypeOK
<1> QED
  BY <1>1, <1>2, TypeEntry, TypeLookup, TypeComm, TypePacket, TypeOutput DEF Step

-----------------------------------------------------------------------------
(* The other conjuncts of the invariant                                    *)

(* What every step leaves alone: the other threads.                        *)
LEMMA OtherThreads ==
  ASSUME TypeOK, NEW t \in Threads, Step(t), NEW u \in Threads, u # t
  PROVE  /\ pc'[u] = pc[u] /\ num'[u] = num[u] /\ tbl'[u] = tbl[u]
         /\ cpu'[u] = cpu[u] /\ answer'[u] = answer[u]
         /\ u \in tracked' <=> u \in tracked
         /\ u \in missed => u \in missed'
<1>1. CASE trace_udp_recvmsg(t)
  BY <1>1 DEF trace_udp_recvmsg, Goto, TypeOK
<1>2. CASE ReturnMissed(t)
  BY <1>2 DEF ReturnMissed, Goto, TypeOK
<1>3. CASE ReturnLookup(t)
  BY <1>3 DEF ReturnLookup, Goto, TypeOK
<1>4. CASE ReturnComm(t)
  BY <1>4 DEF ReturnComm, Goto, TypeOK
<1>5. CASE ReturnPacket(t)
  BY <1>5 DEF ReturnPacket, Goto, TypeOK
<1>6. CASE ReturnOutput(t)
  BY <1>6 DEF ReturnOutput, Goto, TypeOK
<1>7. CASE ReturnDelete(t)
  BY <1>7 DEF ReturnDelete, Goto, TypeOK
<1> QED
  BY <1>1, <1>2, <1>3, <1>4, <1>5, <1>6, <1>7 DEF Step

(* What a step does to its own thread.                                     *)
LEMMA EntryEffect ==
  ASSUME TypeOK, NEW t \in Threads, trace_udp_recvmsg(t)
  PROVE  /\ pc[t] = "out" /\ pc'[t] = "inside" /\ answer'[t] = None
         /\ num'[t] = num[t] + 1
         /\ \/ t \in tracked' /\ tbl'[t] = <<t, num[t] + 1>>
            \/ t \notin tracked' /\ tbl'[t] = tbl[t]
         /\ UNCHANGED <<missed, cpu, dns_data, events>>
BY DEF trace_udp_recvmsg, Goto, TypeOK

(* The return program ends without an entry, goes on, or returns early     *)
(* through the deletion.                                                   *)
LEMMA LookupEffect ==
  ASSUME TypeOK, NEW t \in Threads, ReturnLookup(t)
  PROVE  /\ pc[t] = "inside"
         /\ answer'[t] \in Answers
         /\ \/ tbl[t] = None /\ pc'[t] = "out"
            \/ /\ tbl[t] # None
               /\ \/ pc'[t] = "comm" /\ Accepted(answer'[t])
                  \/ pc'[t] = "delete" /\ ~Accepted(answer'[t])
               /\ cpu'[t] \in CPUs
               /\ \A u \in Threads : cpu[u] # cpu'[t]
         /\ UNCHANGED <<num, tracked, missed, tbl, dns_data, events>>
<1>1. PICK c \in CPUs, a \in Answers :
        /\ \A u \in Threads : cpu[u] # c
        /\ answer' = [answer EXCEPT ![t] = a]
        /\ \/ tbl[t] = None /\ Goto(t, "out")
           \/ /\ tbl[t] # None
              /\ Goto(t, IF Accepted(a) THEN "comm" ELSE "delete")
              /\ cpu' = [cpu EXCEPT ![t] = c]
  BY DEF ReturnLookup, Idle
<1>2. answer'[t] = a
  BY <1>1 DEF TypeOK
<1>3. CASE tbl[t] = None /\ Goto(t, "out")
  BY <1>2, <1>3 DEF ReturnLookup, Goto, TypeOK
<1>4. CASE /\ tbl[t] # None
           /\ Goto(t, IF Accepted(a) THEN "comm" ELSE "delete")
           /\ cpu' = [cpu EXCEPT ![t] = c]
  <2>1. cpu'[t] = c
    BY <1>4 DEF TypeOK
  <2>2. (pc'[t] = "comm" /\ Accepted(a)) \/ (pc'[t] = "delete" /\ ~Accepted(a))
    BY <1>4 DEF Goto, TypeOK
  <2> QED
    BY <1>1, <1>2, <1>4, <2>1, <2>2 DEF ReturnLookup
<1> QED
  BY <1>1, <1>3, <1>4

(* The process name goes to the scratch memory of the program's CPU.       *)
LEMMA CommEffect ==
  ASSUME TypeOK, Running, NEW t \in Threads, ReturnComm(t)
  PROVE  /\ pc[t] = "comm"
         /\ \/ pc'[t] = "packet" /\ dns_data'[cpu[t]].comm = CallOf(t)
            \/ pc'[t] = "delete" /\ ~answer[t].comm /\ UNCHANGED dns_data
         /\ \A c \in CPUs : c # cpu[t] => dns_data'[c] = dns_data[c]
         /\ UNCHANGED <<num, tracked, missed, tbl, cpu, answer, events>>
<1>1. cpu[t] \in CPUs
  BY ProgramPcs DEF ReturnComm, Running
<1>2. CASE answer[t].comm
  <2>1. dns_data' = [dns_data EXCEPT ![cpu[t]].comm = CallOf(t)] /\ pc'[t] = "packet"
    BY <1>2 DEF ReturnComm, Goto, TypeOK
  <2>2. /\ dns_data'[cpu[t]].comm = CallOf(t)
        /\ \A c \in CPUs : c # cpu[t] => dns_data'[c] = dns_data[c]
    BY <1>1, <2>1 DEF TypeOK
  <2> QED
    BY <2>1, <2>2 DEF ReturnComm
<1>3. CASE ~answer[t].comm
  BY <1>3 DEF ReturnComm, Goto, TypeOK
<1> QED
  BY <1>2, <1>3

(* The packet goes to the same scratch memory.                             *)
LEMMA PacketEffect ==
  ASSUME TypeOK, Running, NEW t \in Threads, ReturnPacket(t)
  PROVE  /\ pc[t] = "packet" /\ pc'[t] = "output"
         /\ dns_data'[cpu[t]].comm = dns_data[cpu[t]].comm
         /\ dns_data'[cpu[t]].pkt \in PacketRead(t)
         /\ \A c \in CPUs : c # cpu[t] => dns_data'[c] = dns_data[c]
         /\ UNCHANGED <<num, tracked, missed, tbl, cpu, answer, events>>
<1>1. cpu[t] \in CPUs
  BY ProgramPcs DEF ReturnPacket, Running
<1>2. PICK p \in PacketRead(t) : dns_data' = [dns_data EXCEPT ![cpu[t]].pkt = p]
  BY DEF ReturnPacket
<1>3. /\ dns_data'[cpu[t]].comm = dns_data[cpu[t]].comm /\ dns_data'[cpu[t]].pkt = p
      /\ \A c \in CPUs : c # cpu[t] => dns_data'[c] = dns_data[c]
  BY <1>1, <1>2 DEF TypeOK
<1> QED
  BY <1>3 DEF ReturnPacket, Goto, TypeOK

(* The output changes nothing but the events.                              *)
LEMMA OutputFacts ==
  ASSUME TypeOK, NEW t \in Threads, ReturnOutput(t)
  PROVE  /\ pc[t] = "output" /\ pc'[t] = "delete"
         /\ UNCHANGED <<num, tracked, missed, tbl, cpu, answer, dns_data>>
BY DEF ReturnOutput, Goto, TypeOK

(* The deletion ends the program and leaves no entry.                      *)
LEMMA DeleteFacts ==
  ASSUME TypeOK, NEW t \in Threads, ReturnDelete(t)
  PROVE  /\ pc[t] = "delete" /\ pc'[t] = "out" /\ tbl'[t] = None
         /\ UNCHANGED <<num, tracked, missed, answer, dns_data, events>>
BY DEF ReturnDelete, Goto, TypeOK

(* A missed return leaves everything as it is.                             *)
LEMMA MissedFacts ==
  ASSUME TypeOK, NEW t \in Threads, ReturnMissed(t)
  PROVE  /\ pc[t] = "inside" /\ pc'[t] = "out" /\ t \in missed'
         /\ UNCHANGED <<num, tracked, tbl, cpu, answer, dns_data, events>>
BY DEF ReturnMissed, Goto, TypeOK

(* A step keeps Running: a return program has an entry, a CPU and an       *)
(* answer.                                                                 *)
LEMMA RunningStep ==
  ASSUME TypeOK, Running, NEW t \in Threads, Step(t)
  PROVE  Running'
<1> DEFINE R(u) ==
      /\ pc[u] \in Program => tbl[u] # None /\ cpu[u] \in CPUs /\ answer[u] \in Answers
      /\ pc[u] \in {"comm", "packet", "output"} => Accepted(answer[u])
      /\ pc[u] = "inside" => answer[u] = None
<1>1. ASSUME NEW u \in Threads, u # t PROVE R(u)'
  <2>1. R(u)
    BY DEF Running
  <2>2. Accepted(answer[u])' <=> Accepted(answer'[u])
    BY DEF Accepted, BufLen
  <2>3. pc'[u] = pc[u] /\ tbl'[u] = tbl[u] /\ cpu'[u] = cpu[u] /\ answer'[u] = answer[u]
    BY <1>1, OtherThreads
  <2> QED
    BY <2>1, <2>2, <2>3
<1>2. R(t)
  BY DEF Running
<1>3. Accepted(answer[t])' <=> Accepted(answer'[t])
  BY DEF Accepted, BufLen
<1>4. R(t)'
  <2>1. CASE trace_udp_recvmsg(t)
    BY <2>1, EntryEffect, ProgramPcs
  <2>2. CASE ReturnMissed(t)
    BY <2>2, MissedFacts, ProgramPcs
  <2>3. CASE ReturnLookup(t)
    BY <1>3, <2>3, LookupEffect, ProgramPcs
  <2>4. CASE ReturnComm(t)
    BY <1>2, <1>3, <2>4, CommEffect, ProgramPcs
  <2>5. CASE ReturnPacket(t)
    BY <1>2, <1>3, <2>5, PacketEffect, ProgramPcs
  <2>6. CASE ReturnOutput(t)
    BY <1>2, <1>3, <2>6, OutputFacts, ProgramPcs
  <2>7. CASE ReturnDelete(t)
    BY <2>7, DeleteFacts, ProgramPcs
  <2> QED
    BY <2>1, <2>2, <2>3, <2>4, <2>5, <2>6, <2>7 DEF Step
<1> QED
  BY <1>1, <1>4 DEF Running

(* A CPU is taken only when no other program runs on it.                   *)
LEMMA ExclusiveStep ==
  ASSUME TypeOK, Exclusive, NEW t \in Threads, Step(t)
  PROVE  Exclusive'
<1>1. ASSUME NEW u \in Threads, u # t, pc'[t] \in Program, pc'[u] \in Program
      PROVE  cpu'[t] # cpu'[u]
  <2>1. pc'[u] = pc[u] /\ cpu'[u] = cpu[u]
    BY <1>1, OtherThreads
  <2>2. CASE ReturnLookup(t)
    BY <1>1, <2>1, <2>2, LookupEffect, ProgramPcs
  <2>3. CASE ReturnComm(t) \/ ReturnPacket(t) \/ ReturnOutput(t)
    <3>1. pc[t] \in Program /\ cpu'[t] = cpu[t]
      BY <2>3, ProgramPcs DEF ReturnComm, ReturnPacket, ReturnOutput
    <3> QED
      BY <1>1, <2>1, <3>1 DEF Exclusive
  <2>4. CASE trace_udp_recvmsg(t) \/ ReturnMissed(t) \/ ReturnDelete(t)
    BY <1>1, <2>4, EntryEffect, MissedFacts, DeleteFacts, ProgramPcs
  <2> QED
    BY <2>2, <2>3, <2>4 DEF Step
<1>2. ASSUME NEW u \in Threads, NEW v \in Threads, u # v, u # t, v # t,
             pc'[u] \in Program, pc'[v] \in Program
      PROVE  cpu'[u] # cpu'[v]
  <2>1. pc'[u] = pc[u] /\ cpu'[u] = cpu[u] /\ pc'[v] = pc[v] /\ cpu'[v] = cpu[v]
    BY <1>2, OtherThreads
  <2> QED
    BY <1>2, <2>1 DEF Exclusive
<1> QED
  BY <1>1, <1>2 DEF Exclusive

(* A step keeps Entries: an entry is of the current receive or of a missed *)
(* one.                                                                    *)
LEMMA EntriesStep ==
  ASSUME TypeOK, Entries, NEW t \in Threads, Step(t)
  PROVE  Entries'
<1> DEFINE E(u) ==
      /\ tbl[u] # None => tbl[u][1] = u
      /\ pc[u] # "out" /\ u \in tracked => tbl[u] = CallOf(u)
      /\ tbl[u] # None => u \in missed \/ (u \in tracked /\ pc[u] # "out")
<1>1. ASSUME NEW u \in Threads, u # t PROVE E(u)'
  <2>1. E(u)
    BY DEF Entries
  <2> QED
    BY <1>1, <2>1, OtherThreads DEF CallOf
<1>2. E(t)
  BY DEF Entries
<1>3. E(t)'
  <2>1. CASE trace_udp_recvmsg(t)
    <3>1. CASE t \in tracked' /\ tbl'[t] = <<t, num[t] + 1>>
      BY <2>1, <3>1, EntryEffect DEF CallOf
    <3>2. CASE t \notin tracked' /\ tbl'[t] = tbl[t]
      BY <1>2, <2>1, <3>2, EntryEffect
    <3> QED
      BY <2>1, <3>1, <3>2, EntryEffect
  <2>2. CASE ReturnMissed(t)
    BY <1>2, <2>2, MissedFacts DEF CallOf
  <2>3. CASE ReturnLookup(t)
    BY <1>2, <2>3, LookupEffect DEF CallOf
  <2>4. CASE ReturnComm(t)
    BY <1>2, <2>4 DEF CallOf, ReturnComm, Goto, TypeOK
  <2>5. CASE ReturnPacket(t)
    BY <1>2, <2>5 DEF CallOf, ReturnPacket, Goto, TypeOK
  <2>6. CASE ReturnOutput(t)
    BY <1>2, <2>6, OutputFacts DEF CallOf
  <2>7. CASE ReturnDelete(t)
    BY <2>7, DeleteFacts
  <2> QED
    BY <2>1, <2>2, <2>3, <2>4, <2>5, <2>6, <2>7 DEF Step
<1> QED
  BY <1>1, <1>3 DEF Entries

(* No step of another thread writes to the scratch memory a program uses.  *)
LEMMA ScratchKept ==
  ASSUME TypeOK, Running, Exclusive, NEW t \in Threads, Step(t),
         NEW u \in Threads, u # t, pc[u] \in Program
  PROVE  dns_data'[cpu'[u]] = dns_data[cpu[u]]
<1>1. cpu'[u] = cpu[u] /\ cpu[u] \in CPUs
  BY OtherThreads DEF Running
<1>2. CASE ReturnComm(t)
  BY <1>1, <1>2, CommEffect, ProgramPcs DEF Exclusive
<1>3. CASE ReturnPacket(t)
  BY <1>1, <1>3, PacketEffect, ProgramPcs DEF Exclusive
<1>4. CASE /\ ~ReturnComm(t) /\ ~ReturnPacket(t)
  <2>1. dns_data' = dns_data
    BY <1>4 DEF Step, trace_udp_recvmsg, ReturnMissed, ReturnLookup, ReturnOutput, ReturnDelete
  <2> QED
    BY <1>1, <2>1
<1> QED
  BY <1>2, <1>3, <1>4

(* A step keeps Scratch: the scratch memory of a CPU holds what its        *)
(* program wrote.                                                          *)
LEMMA ScratchStep ==
  ASSUME TypeOK, Running, Exclusive, Entries, Scratch, NEW t \in Threads, Step(t)
  PROVE  Scratch'
<1> DEFINE S(u) ==
      /\ pc[u] \in {"packet", "output"} => dns_data[cpu[u]].comm = CallOf(u)
      /\ pc[u] = "output" =>
           /\ dns_data[cpu[u]].pkt \in Calls
           /\ dns_data[cpu[u]].pkt[1] = u
           /\ u \in tracked /\ ~answer[u].moved => dns_data[cpu[u]].pkt = CallOf(u)
<1>1. ASSUME NEW u \in Threads, u # t PROVE S(u)'
  <2>1. S(u)
    BY DEF Scratch
  <2>2. /\ pc'[u] = pc[u] /\ CallOf(u)' = CallOf(u) /\ (u \in tracked' <=> u \in tracked)
        /\ answer'[u] = answer[u]
    BY <1>1, OtherThreads DEF CallOf
  <2>3. CASE pc[u] \in Program
    <3>1. dns_data'[cpu'[u]] = dns_data[cpu[u]]
      BY <1>1, <2>3, ScratchKept
    <3> QED
      BY <2>1, <2>2, <3>1
  <2>4. CASE pc[u] \notin Program
    BY <2>2, <2>4, ProgramPcs
  <2> QED
    BY <2>3, <2>4
<1>2. S(t)'
  <2>1. CASE ReturnComm(t)
    BY <2>1, CommEffect DEF CallOf
  <2>2. CASE ReturnPacket(t)
    <3>1. dns_data[cpu[t]].comm = CallOf(t)
      BY <2>2, PacketEffect DEF Scratch
    <3>2. tbl[t] # None /\ tbl[t] \in Calls
      BY <2>2, ProgramPcs, PacketEffect DEF Running, TypeOK
    <3>3. tbl[t][1] = t /\ (t \in tracked => tbl[t] = CallOf(t))
      BY <2>2, <3>2, PacketEffect DEF Entries
    <3>4. CallOf(t)' = CallOf(t) /\ CallOf(t) \in Calls /\ CallOf(t)[1] = t
      BY <2>2, PacketEffect, CallOfType DEF CallOf
    <3>5. cpu' = cpu /\ tracked' = tracked /\ answer' = answer /\ pc'[t] = "output"
      BY <2>2, PacketEffect
    <3>6. dns_data'[cpu[t]].comm = dns_data[cpu[t]].comm
      BY <2>2, PacketEffect
    <3>7. dns_data'[cpu[t]].pkt \in PacketRead(t)
      BY <2>2, PacketEffect
    <3>8. \A p \in PacketRead(t) : p \in Calls /\ p[1] = t
      BY <3>2, <3>3, <3>4 DEF PacketRead, Elsewhere, Calls
    <3>9. t \in tracked /\ ~answer[t].moved => dns_data'[cpu[t]].pkt = CallOf(t)
      BY <3>3, <3>7 DEF PacketRead
    <3> QED
      BY <3>1, <3>4, <3>5, <3>6, <3>7, <3>8, <3>9
  <2>3. CASE ~ReturnComm(t) /\ ~ReturnPacket(t)
    <3>1. pc'[t] \notin {"packet", "output"}
      BY <2>3, EntryEffect, MissedFacts, LookupEffect, OutputFacts, DeleteFacts DEF Step
    <3> QED
      BY <3>1
  <2> QED
    BY <2>1, <2>2, <2>3
<1> QED
  BY <1>1, <1>2 DEF Scratch

-----------------------------------------------------------------------------
(* The events                                                              *)

(* Only the output adds an event, and missed returns stay missed.          *)
LEMMA OtherSteps ==
  ASSUME NEW t \in Threads, Step(t), ~ReturnOutput(t)
  PROVE  events' = events /\ missed \subseteq missed'
BY DEF Step, trace_udp_recvmsg, ReturnMissed, ReturnLookup, ReturnComm, ReturnPacket, ReturnDelete

(* The event about to be output is of one receive, unless a return was     *)
(* missed.                                                                 *)
LEMMA NewEventFacts ==
  ASSUME TypeOK, Running, Entries, Scratch, NEW t \in Threads, ReturnOutput(t)
  PROVE  /\ NewEvent(t).comm = NewEvent(t).by
         /\ NewEvent(t).pkt[1] = NewEvent(t).by[1]
         /\ NewEvent(t).tracked /\ ~NewEvent(t).moved => NewEvent(t).pkt = NewEvent(t).by
         /\ NewEvent(t).tracked \/ NewEvent(t).by[1] \in missed
<1>1. pc[t] = "output"
  BY OutputFacts
<1>2. /\ dns_data[cpu[t]].comm = CallOf(t)
      /\ dns_data[cpu[t]].pkt[1] = t
      /\ t \in tracked /\ ~answer[t].moved => dns_data[cpu[t]].pkt = CallOf(t)
  BY <1>1 DEF Scratch
<1>3. t \in tracked \/ t \in missed
  BY <1>1, ProgramPcs DEF Running, Entries
<1> QED
  BY <1>2, <1>3, CallOfType DEF NewEvent

(* Every step keeps what is claimed of the events.                         *)
LEMMA EventsStep ==
  ASSUME TypeOK, Running, Entries, Scratch, EventOfOneReceive, OnlyStoredReported,
         NEW t \in Threads, Step(t)
  PROVE  EventOfOneReceive' /\ OnlyStoredReported'
<1>1. CASE ReturnOutput(t)
  BY <1>1, NewEventFacts, OutputEffect, OutputFacts DEF EventOfOneReceive, OnlyStoredReported
<1>2. CASE ~ReturnOutput(t)
  BY <1>2, OtherSteps DEF EventOfOneReceive, OnlyStoredReported
<1> QED
  BY <1>1, <1>2

(* Events are not taken back.                                              *)
LEMMA EventsGrow == ASSUME NEW t \in Threads, Step(t) PROVE events \subseteq events'
<1>1. CASE ReturnOutput(t)
  BY <1>1, OutputEffect
<1>2. CASE ~ReturnOutput(t)
  BY <1>2, OtherSteps
<1> QED
  BY <1>1, <1>2

(* A program goes to the deletion without an event only if the answer is   *)
(* not one to report.                                                      *)
LEMMA ReportingStep ==
  ASSUME TypeOK, Running, Entries, Reporting, NEW t \in Threads, Step(t)
  PROVE  Reporting'
<1> DEFINE Due(u) ==
      /\ pc[u] \in {"delete", "out"} /\ u \in tracked /\ answer[u] # None
      /\ Reportable(answer[u])
<1>1. ASSUME NEW u \in Threads, CallOf(u)' = CallOf(u), answer'[u] = answer[u], HasEvent(u)
      PROVE  HasEvent(u)'
  BY <1>1, EventsGrow DEF HasEvent
<1>2. ASSUME NEW u \in Threads PROVE Reportable(answer[u])' <=> Reportable(answer'[u])
  BY DEF Reportable
<1>3. ASSUME NEW u \in Threads, u # t, Due(u)' PROVE HasEvent(u)'
  <2>1. /\ pc'[u] = pc[u] /\ answer'[u] = answer[u] /\ CallOf(u)' = CallOf(u)
        /\ u \in tracked' <=> u \in tracked
    BY <1>3, OtherThreads DEF CallOf
  <2>2. HasEvent(u)
    BY <1>2, <1>3, <2>1 DEF Reporting
  <2> QED
    BY <1>1, <2>1, <2>2
<1>4. ASSUME Due(t)' PROVE HasEvent(t)'
  <2>1. CASE trace_udp_recvmsg(t)
    BY <1>4, <2>1, EntryEffect
  <2>2. CASE ReturnMissed(t)
    <3>1. answer'[t] = None
      BY <2>2, MissedFacts DEF Running
    <3> QED
      BY <1>4, <3>1
  <2>3. CASE ReturnLookup(t)
    <3>1. Accepted(answer'[t])
      BY <1>2, <1>4, <2>3, LookupEffect, ReportableAccepted
    <3>2. t \in tracked /\ pc[t] = "inside"
      BY <1>4, <2>3, LookupEffect
    <3>3. tbl[t] # None
      BY <3>2, CallOfType, CallFacts DEF Entries
    <3>4. pc'[t] = "comm"
      BY <2>3, <3>1, <3>3, LookupEffect
    <3> QED
      BY <1>4, <3>4
  <2>4. CASE ReturnComm(t)
    <3>1. Reportable(answer[t])
      BY <1>2, <1>4, <2>4, CommEffect
    <3> QED
      BY <1>4, <2>4, <3>1, CommEffect DEF Reportable
  <2>5. CASE ReturnPacket(t)
    BY <1>4, <2>5, PacketEffect
  <2>6. CASE ReturnOutput(t)
    <3>1. answer[t] \in Answers /\ Accepted(answer[t])
      BY <2>6, OutputFacts, ProgramPcs DEF Running
    <3>2. BufLen(answer[t]) \in 0 .. 511
      BY <3>1, Masked
    <3>3. answer[t].copied \in Int /\ answer[t].copied < MAX_PKT
      <4>1. Reportable(answer[t])
        BY <1>2, <1>4, <2>6, OutputFacts
      <4> QED
        BY <3>1, <4>1, UdpAssumption DEF Reportable, MAX_PKT
    <3>4. NewEvent(t).len = 20 + answer[t].copied
      BY <3>1, <3>2, <3>3, Masked DEF NewEvent
    <3>5. NewEvent(t) \in events' /\ NewEvent(t).by = CallOf(t)
      BY <2>6, OutputEffect DEF NewEvent
    <3>6. CallOf(t)' = CallOf(t) /\ answer' = answer
      BY <2>6, OutputFacts DEF CallOf
    <3> QED
      BY <3>4, <3>5, <3>6 DEF HasEvent
  <2>7. CASE ReturnDelete(t)
    <3>1. /\ pc[t] = "delete" /\ CallOf(t)' = CallOf(t) /\ answer'[t] = answer[t]
          /\ tracked' = tracked
      BY <2>7, DeleteFacts DEF CallOf
    <3>2. HasEvent(t)
      BY <1>2, <1>4, <3>1 DEF Reporting
    <3> QED
      BY <1>1, <3>1, <3>2
  <2> QED
    BY <2>1, <2>2, <2>3, <2>4, <2>5, <2>6, <2>7 DEF Step
<1> QED
  BY <1>3, <1>4 DEF Reporting

-----------------------------------------------------------------------------
(* The theorems                                                            *)

IInv ==
  /\ TypeOK /\ Running /\ Exclusive /\ Entries /\ Scratch
  /\ EventOfOneReceive /\ OnlyStoredReported /\ Reporting

(* The inductive invariant holds in the first state.                       *)
LEMMA InitIInv == Init => IInv
<1> SUFFICES ASSUME Init PROVE IInv
  OBVIOUS
<1>1. Exclusive /\ Scratch
  BY ProgramPcs DEF Init, Exclusive, Scratch
<1>2. Entries /\ Reporting
  BY DEF Init, Entries, Reporting
<1>3. EventOfOneReceive /\ OnlyStoredReported
  BY DEF Init, EventOfOneReceive, OnlyStoredReported
<1> QED
  BY <1>1, <1>2, <1>3, TypeInit DEF IInv

(* Stuttering keeps the inductive invariant.                               *)
LEMMA StutterIInv == IInv /\ UNCHANGED vars => IInv'
<1> SUFFICES ASSUME IInv, UNCHANGED vars PROVE IInv'
  OBVIOUS
<1> USE DEF vars
<1>1. TypeOK'
  BY DEF IInv, TypeOK
<1>2. Running' /\ Exclusive' /\ Entries'
  BY DEF IInv, Running, Exclusive, Entries, Accepted, BufLen, CallOf
<1>3. Scratch'
  BY DEF IInv, Scratch, CallOf
<1>4. EventOfOneReceive' /\ OnlyStoredReported'
  BY DEF IInv, EventOfOneReceive, OnlyStoredReported
<1>5. Reporting'
  BY DEF IInv, Reporting, Reportable, HasEvent, CallOf
<1> QED
  BY <1>1, <1>2, <1>3, <1>4, <1>5 DEF IInv

(* Every step keeps the inductive invariant.                               *)
LEMMA NextIInv == IInv /\ [Next]_vars => IInv'
<1> SUFFICES ASSUME IInv, [Next]_vars PROVE IInv'
  OBVIOUS
<1>1. ASSUME NEW t \in Threads, Step(t) PROVE IInv'
  <2>1. TypeOK' /\ Running'
    BY <1>1, TypeStep, RunningStep DEF IInv
  <2>2. Exclusive' /\ Entries' /\ Scratch'
    BY <1>1, ExclusiveStep, EntriesStep, ScratchStep DEF IInv
  <2>3. EventOfOneReceive' /\ OnlyStoredReported'
    BY <1>1, EventsStep DEF IInv
  <2>4. Reporting'
    BY <1>1, ReportingStep DEF IInv
  <2> QED
    BY <2>1, <2>2, <2>3, <2>4 DEF IInv
<1>2. CASE UNCHANGED vars
  BY <1>2, StutterIInv
<1> QED
  BY <1>1, <1>2 DEF Next, Step, Quiet

(* The inductive invariant holds in every reachable state.                 *)
LEMMA Invariant == Spec => []IInv
BY InitIInv, NextIInv, PTL DEF Spec

(* The types of the state: in particular the length given to               *)
(* bpf_perf_event_output is between 20 and 531 bytes for every result of   *)
(* udp_recvmsg, so it stays within the scratch memory.                     *)
THEOREM TypeCorrect == Spec => []TypeOK
<1>1. IInv => TypeOK
  BY DEF IInv
<1> QED
  BY <1>1, Invariant, PTL

(* Whatever the number of threads and CPUs, an event has the command and   *)
(* the packet of one receive: the scratch memory of a CPU is not shared by *)
(* two programs, and a stored receive finds its own msghdr.  Only a        *)
(* receive that filled its first buffer can have other memory in place of  *)
(* the packet.                                                             *)
THEOREM EventsOfOneReceive == Spec => []EventOfOneReceive
<1>1. IInv => EventOfOneReceive
  BY DEF IInv
<1> QED
  BY <1>1, Invariant, PTL

(* A receive whose entry was not stored is reported only in a thread that  *)
(* had a return missed.                                                    *)
THEOREM OnlyStoredReceivesReported == Spec => []OnlyStoredReported
<1>1. IInv => OnlyStoredReported
  BY DEF IInv
<1> QED
  BY <1>1, Invariant, PTL

(* A thread that is in no receive has an entry in tbl_udp_msg_hdr only if  *)
(* a return of it was missed.                                              *)
THEOREM EntriesEndWithReceive == Spec => []EntryEndsWithReceive
<1>1. IInv => EntryEndsWithReceive
  BY DEF IInv, Entries, EntryEndsWithReceive
<1> QED
  BY <1>1, Invariant, PTL

(* A stored and caught receive of less than MAX_PKT bytes, which leave     *)
(* room in its first buffer, is reported before the thread receives again, *)
(* with all its bytes.                                                     *)
THEOREM ReceivesReported == Spec => []StoredReceiveReported
<1>1. IInv => StoredReceiveReported
  BY DEF IInv, Reporting, Reportable, HasEvent, StoredReceiveReported
<1> QED
  BY <1>1, Invariant, PTL
=============================================================================

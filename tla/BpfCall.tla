------------------------------- MODULE BpfCall ------------------------------
(***************************************************************************)
(* tracepoint_sys_enter_bpf: the program that reports the calls of bpf(2). *)
(* Its event is too large for the stack, so make_event stores an empty one *)
(* in the LRU map bpf_context under the thread and looks it up again; the  *)
(* program then fills it through the pointer and outputs it.  Nothing      *)
(* deletes the entry: the map is emptied only by eviction, which does not  *)
(* know whether a program on another CPU still uses the element.           *)
(*                                                                         *)
(* The programs run concurrently, one on a CPU; every helper call is a     *)
(* step.  What an element holds is the call that wrote it.  Which elements *)
(* are evicted, and when, is left open: the kernel keeps the order of use  *)
(* only roughly, has lists per CPU and evicts several elements at once.    *)
(***************************************************************************)
EXTENDS Integers

CONSTANTS
  Threads,      \* threads that call bpf(2) (values of pid_tgid)
  NumCPUs,
  Elements,     \* the elements of bpf_context, 2048 in the code
  PerfEntries,  \* entries of the perf event array, 64 in the code
  MaxCalls      \* bound: calls altogether

Nil == <<>>

ASSUME BpfAssumption ==
  /\ NumCPUs \in Nat
  /\ Nil \notin Threads \cup Elements

VARIABLES
  calls,     \* calls made so far
  cur,       \* the current or latest call of a thread
  pc,        \* where a thread is
  cpu,       \* the CPU on which it runs the program, or none
  node,      \* the element an update has taken and not stored yet
  ptr,       \* the element that the program writes to
  key,       \* bpf_context: the thread that an element is stored for
  content,   \* the two parts of the event in an element
  disturbed, \* the threads whose current or latest call shared an element
  events,    \* the events output
  lost       \* the calls for which none was

vars == <<calls, cur, pc, cpu, node, ptr, key, content, disturbed, events, lost>>

CPUs == 0 .. NumCPUs - 1
None == -1
Empty == [cmd |-> 0, procinfo |-> 0]

Goto(t, to) == pc' = [pc EXCEPT ![t] = to]

Init ==
  /\ calls = 0
  /\ cur = [t \in Threads |-> 0]
  /\ pc = [t \in Threads |-> "out"]
  /\ cpu = [t \in Threads |-> None]
  /\ node = [t \in Threads |-> Nil]
  /\ ptr = [t \in Threads |-> Nil]
  /\ key = [e \in Elements |-> Nil]
  /\ content = [e \in Elements |-> Empty]
  /\ disturbed = {}
  /\ events = {}
  /\ lost = {}

-----------------------------------------------------------------------------
(* The map (external): an LRU hash map with preallocated elements          *)

Stored == {e \in Elements : key[e] # Nil}
Free == {e \in Elements \ Stored : \A t \in Threads : node[t] # e}

-----------------------------------------------------------------------------
(* make_event                                                              *)

(* Faulty variant: one key for all.                                        *)
KeyOfAll(t) == CHOOSE u \in Threads : TRUE

(* The key of the entry, bpf_get_current_pid_tgid.                         *)
KeyOf(t) == t

ElementOf(t) == {e \in Stored : key[e] = KeyOf(t)}

Idle(c) == \A t \in Threads : cpu[t] # c

(* The programs past their update whose element is among gone.             *)
Robbed(gone) ==
  {u \in Threads : pc[u] \notin {"out", "store"} /\ ElementOf(u) \cap gone # {}}

(* A thread begins a call on an idle CPU.                                  *)
Begin(t) ==
  /\ pc[t] = "out"
  /\ calls < MaxCalls
  /\ calls' = calls + 1
  /\ cur' = [cur EXCEPT ![t] = calls + 1]
  /\ \E c \in CPUs : Idle(c) /\ cpu' = [cpu EXCEPT ![t] = c]
  /\ UNCHANGED <<ptr, events, lost>>

(* The map evicts the elements gone and gives e, a free or evicted one, to *)
(* t, with the empty event of bpf_context_gen in it.  A program that loses *)
(* its element is disturbed, and so is the call that gets an element to    *)
(* which another program still has a pointer.                              *)
Take(t, e, gone) ==
  /\ node' = [node EXCEPT ![t] = e]
  /\ key' = [f \in Elements |-> IF f \in gone THEN Nil ELSE key[f]]
  /\ content' = [content EXCEPT ![e] = Empty]
  /\ disturbed' = (disturbed \ {t}) \cup Robbed(gone)
                    \cup {u \in {t} : \E v \in Threads : ptr[v] = e}
  /\ Goto(t, "store")

(* The map has no element to give.                                         *)
Refuse(t) ==
  /\ Free = {}
  /\ disturbed' = disturbed \cup {t}
  /\ Goto(t, "lookup")
  /\ UNCHANGED <<node, key, content>>

(* Faulty variant: the update has the flag BPF_EXIST, with which it only   *)
(* replaces an entry.                                                      *)
UpdateTakeExist(t) ==
  /\ Begin(t)
  /\ \/ /\ ElementOf(t) = {}
        /\ disturbed' = disturbed \ {t}
        /\ Goto(t, "lookup")
        /\ UNCHANGED <<node, key, content>>
     \/ /\ ElementOf(t) # {}
        /\ \E gone \in SUBSET Stored : \E e \in Free \cup gone : Take(t, e, gone)

(* bpf_map_update_elem, its first half: take an element.  The program does *)
(* not notice a refused update.                                            *)
UpdateTake(t) ==
  /\ Begin(t)
  /\ \/ \E gone \in SUBSET Stored : \E e \in Free \cup gone : Take(t, e, gone)
     \/ Refuse(t)

(* Its second half: store the new element and free the one the thread had. *)
UpdateStore(t) ==
  /\ pc[t] = "store"
  /\ key' = [e \in Elements |-> IF e = node[t] THEN KeyOf(t)
                               ELSE IF e \in ElementOf(t) THEN Nil ELSE key[e]]
  /\ node' = [node EXCEPT ![t] = Nil]
  /\ Goto(t, "lookup")
  /\ UNCHANGED <<calls, cur, cpu, ptr, content, disturbed, events, lost>>

(* The end of the program for a call without an event.                     *)
Drop(t, why) ==
  /\ lost' = lost \cup {[by |-> cur[t], why |-> why, disturbed |-> t \in disturbed]}
  /\ Goto(t, "out")
  /\ cpu' = [cpu EXCEPT ![t] = None]
  /\ ptr' = [ptr EXCEPT ![t] = Nil]

(* bpf_map_lookup_elem.  Without an element the program returns.           *)
Lookup(t) ==
  /\ pc[t] = "lookup"
  /\ \/ ElementOf(t) = {} /\ Drop(t, "no element")
     \/ \E e \in ElementOf(t) :
          /\ ptr' = [ptr EXCEPT ![t] = e]
          /\ Goto(t, "cmd")
          /\ UNCHANGED <<cpu, lost>>
  /\ UNCHANGED <<calls, cur, node, key, content, disturbed, events>>

-----------------------------------------------------------------------------
(* tracepoint_sys_enter_bpf, after make_event                              *)

FillCmd(t) ==
  /\ pc[t] = "cmd"
  /\ content' = [content EXCEPT ![ptr[t]].cmd = cur[t]]
  /\ Goto(t, "procinfo")
  /\ UNCHANGED <<calls, cur, cpu, node, ptr, key, disturbed, events, lost>>

get_common_proc(t) ==
  /\ pc[t] = "procinfo"
  /\ content' = [content EXCEPT ![ptr[t]].procinfo = cur[t]]
  /\ Goto(t, "send")
  /\ UNCHANGED <<calls, cur, cpu, node, ptr, key, disturbed, events, lost>>

(* The output goes to the entry of the array that has the CPU's number; it *)
(* fails without one, and the result is not looked at.                     *)
send_event(t) ==
  /\ pc[t] = "send"
  /\ IF cpu[t] < PerfEntries
     THEN /\ events' = events \cup {[by |-> cur[t], cmd |-> content[ptr[t]].cmd,
                                     procinfo |-> content[ptr[t]].procinfo,
                                     disturbed |-> t \in disturbed]}
          /\ Goto(t, "out")
          /\ cpu' = [cpu EXCEPT ![t] = None]
          /\ ptr' = [ptr EXCEPT ![t] = Nil]
          /\ UNCHANGED lost
     ELSE Drop(t, "no entry") /\ UNCHANGED events
  /\ UNCHANGED <<calls, cur, node, key, content, disturbed>>

(* The bound on the calls is reached and every program has ended.          *)
Quiet ==
  /\ calls = MaxCalls
  /\ \A t \in Threads : pc[t] = "out"
  /\ UNCHANGED vars

Next ==
  \/ \E t \in Threads :
       \/ UpdateTake(t) \/ UpdateStore(t) \/ Lookup(t)
       \/ FillCmd(t) \/ get_common_proc(t) \/ send_event(t)
  \/ Quiet

Spec == Init /\ [][Next]_vars

-----------------------------------------------------------------------------
(* Properties                                                              *)

Exact(e) == e.cmd = e.by /\ e.procinfo = e.by

(* Nothing protects the element of a running program from eviction.  But   *)
(* the event of a call that kept its element, and got none that another    *)
(* program still writes to, has the command and the process of that call   *)
(* and nothing of another, however calls on other CPUs interleave with     *)
(* make_event and the writes through its pointer.                          *)
EventOfOneCall == \A e \in events : ~e.disturbed => Exact(e)

(* Every call that has ended has an event, but for two reasons: make_event *)
(* did not find the element, because it was evicted in that very program   *)
(* or the map had none, or the program ran on a CPU beyond the entries of  *)
(* the perf event array.                                                   *)
LostForAReason ==
  /\ \A l \in lost : l.why = "no element" => l.disturbed
  /\ \A t \in Threads : pc[t] = "out" /\ cur[t] # 0 =>
       \E r \in events \cup lost : r.by = cur[t]
=============================================================================

----------------------------- MODULE DnsLookup -----------------------------
(***************************************************************************)
(* getaddrinfo_entry and getaddrinfo_return: the uprobe pair that reports  *)
(* a DNS lookup.  The entry probe stores the host name in the map start    *)
(* and the address of the result in the map currres, both keyed by the     *)
(* process; the return probe picks them up, outputs an event and deletes   *)
(* them.  Threads run the probes concurrently, and every map operation is  *)
(* a step of its own.  The two probes are attached one after the other     *)
(* while processes run, so that a call may be hooked at its entry and not  *)
(* at its return.                                                          *)
(*                                                                         *)
(* A call is identified by its thread and its number there; a host name or *)
(* a result pointer is the call it was passed to.  Number 0 is no call.    *)
(***************************************************************************)
EXTENDS Naturals, FiniteSets

CONSTANTS
  Threads,      \* threads that call getaddrinfo
  Procs,        \* processes (values of the upper half of pid_tgid)
  ProcOf,       \* the process of a thread
  MaxEntries,   \* max_entries of each map, 1024 in the code
  MaxCalls,     \* bound: calls of each thread
  MaxKills      \* bound: processes killed

ASSUME DnsAssumption ==
  /\ ProcOf \in [Threads -> Procs]
  /\ MaxEntries \in Nat
  /\ MaxCalls \in [Threads -> Nat]
  /\ MaxKills \in Nat

VARIABLES
  attached,  \* the probes attached so far
  pc,        \* where a thread is
  num,       \* the number of its current or latest call
  hooked,    \* threads whose current call will run the return probe
  noRes,     \* the calls with a NULL result pointer
  stored,    \* the maps in which the current call found a place
  start,     \* the maps: for a process, the call stored there, or none
  currres,
  valp,      \* what the return probe's lookups found
  res,
  refused,   \* the calls that were refused a place in a map
  missed,    \* the calls that ended without the return probe
  kills,     \* processes killed so far
  events     \* the events output

probeVars == <<pc, valp, res>>
callVars == <<attached, hooked, noRes, num>>
vars == <<probeVars, callVars, stored, start, currres, refused, missed, kills, events>>

Calls == Threads \X (Nat \ {0})
None == <<>>

Pcs == {"out", "entry_start", "entry_res", "inside", "ret_res", "output", "delete_start",
        "delete_res"}

CallOf(t) == <<t, num[t]>>

Goto(t, to) == pc' = [pc EXCEPT ![t] = to]

Init ==
  /\ attached = {}
  /\ hooked = {}
  /\ noRes = {}
  /\ missed = {}
  /\ pc = [t \in Threads |-> "out"]
  /\ num = [t \in Threads |-> 0]
  /\ stored = [t \in Threads |-> {}]
  /\ start = [p \in Procs |-> None]
  /\ currres = [p \in Procs |-> None]
  /\ valp = [t \in Threads |-> None]
  /\ res = [t \in Threads |-> None]
  /\ refused = {}
  /\ kills = 0
  /\ events = {}

(* Start attaches the probes in the order of the list.                     *)
Attach(probe) ==
  /\ probe \notin attached
  /\ probe = "return" => "entry" \in attached
  /\ attached' = attached \cup {probe}
  /\ UNCHANGED <<probeVars, hooked, noRes, num, stored, start, currres, refused, missed,
                 kills, events>>

-----------------------------------------------------------------------------
(* The calling program (external)                                          *)

(* A thread calls getaddrinfo, perhaps with a NULL result pointer.  The    *)
(* entry probe, once attached, returns at once when the node argument is   *)
(* NULL.  The return is hooked now or not at all.                          *)
CallGetaddrinfo(t) ==
  /\ pc[t] = "out"
  /\ num[t] < MaxCalls[t]
  /\ num' = [num EXCEPT ![t] = @ + 1]
  /\ stored' = [stored EXCEPT ![t] = {}]
  /\ hooked' = IF "return" \in attached THEN hooked \cup {t} ELSE hooked \ {t}
  /\ \/ /\ "entry" \in attached
        /\ noRes' \in {noRes, noRes \cup {<<t, num[t] + 1>>}}
        /\ Goto(t, "entry_start")
     \/ /\ Goto(t, "inside")
        /\ UNCHANGED noRes
  /\ UNCHANGED <<attached, valp, res, start, currres, refused, missed, kills, events>>

(* A call returns that began before the uretprobe was attached.            *)
ReturnUnhooked(t) ==
  /\ pc[t] = "inside"
  /\ t \notin hooked
  /\ missed' = missed \cup {CallOf(t)}
  /\ Goto(t, "out")
  /\ UNCHANGED <<callVars, valp, res, stored, start, currres, refused, kills, events>>

(* A process is killed while some thread of it is in getaddrinfo (a probe  *)
(* in progress is not interrupted).  Its number may be given to a new one. *)
Kill(p) ==
  /\ kills < MaxKills
  /\ \E t \in Threads : ProcOf[t] = p /\ pc[t] = "inside"
  /\ \A t \in Threads : ProcOf[t] = p => pc[t] \in {"out", "inside"}
  /\ kills' = kills + 1
  /\ missed' = missed \cup {CallOf(t) : t \in {u \in Threads : ProcOf[u] = p /\ pc[u] = "inside"}}
  /\ pc' = [t \in Threads |-> IF ProcOf[t] = p THEN "out" ELSE pc[t]]
  /\ UNCHANGED <<callVars, valp, res, stored, start, currres, refused, events>>

-----------------------------------------------------------------------------
(* getaddrinfo_entry                                                       *)

Full(map) == Cardinality({p \in Procs : map[p] # None}) >= MaxEntries

(* bpf_map_update_elem with BPF_ANY: a new key is refused when the map is  *)
(* full, and nobody looks at the result.                                   *)
Stored(map, t) == [map EXCEPT ![ProcOf[t]] = CallOf(t)]

Fits(map, t) == map[ProcOf[t]] # None \/ ~Full(map)

(* Faulty variant: the update leaves an entry that is already there.       *)
EntryStartKeepsOld(t) ==
  /\ pc[t] = "entry_start"
  /\ start' = IF start[ProcOf[t]] = None THEN Stored(start, t) ELSE start
  /\ stored' = [stored EXCEPT ![t] = @ \cup {"start"}]
  /\ Goto(t, "entry_res")
  /\ UNCHANGED <<callVars, missed, valp, res, currres, refused, kills, events>>

EntryStart(t) ==
  /\ pc[t] = "entry_start"
  /\ \/ /\ Fits(start, t)
        /\ start' = Stored(start, t)
        /\ stored' = [stored EXCEPT ![t] = @ \cup {"start"}]
        /\ UNCHANGED refused
     \/ /\ ~Fits(start, t)
        /\ refused' = refused \cup {CallOf(t)}
        /\ UNCHANGED <<start, stored>>
  /\ Goto(t, "entry_res")
  /\ UNCHANGED <<callVars, missed, valp, res, currres, kills, events>>

EntryRes(t) ==
  /\ pc[t] = "entry_res"
  /\ \/ /\ Fits(currres, t)
        /\ currres' = Stored(currres, t)
        /\ stored' = [stored EXCEPT ![t] = @ \cup {"currres"}]
        /\ UNCHANGED refused
     \/ /\ ~Fits(currres, t)
        /\ refused' = refused \cup {CallOf(t)}
        /\ UNCHANGED <<currres, stored>>
  /\ Goto(t, "inside")
  /\ UNCHANGED <<callVars, missed, valp, res, start, kills, events>>

-----------------------------------------------------------------------------
(* getaddrinfo_return                                                      *)

(* Faulty variant: no check of the pointer.                                *)
ReturnStartUnchecked(t) ==
  /\ pc[t] = "inside"
  /\ t \in hooked
  /\ valp' = [valp EXCEPT ![t] = start[ProcOf[t]]]
  /\ Goto(t, "ret_res")
  /\ UNCHANGED <<callVars, missed, res, stored, start, currres, refused, kills, events>>

(* The call returns: look start up; without an entry the start was missed. *)
ReturnStart(t) ==
  /\ pc[t] = "inside"
  /\ t \in hooked
  /\ valp' = [valp EXCEPT ![t] = start[ProcOf[t]]]
  /\ Goto(t, IF start[ProcOf[t]] = None THEN "out" ELSE "ret_res")
  /\ UNCHANGED <<callVars, missed, res, stored, start, currres, refused, kills, events>>

(* Faulty variant: the second half of the check is inverted.               *)
ReturnResInverted(t) ==
  /\ pc[t] = "ret_res"
  /\ res' = [res EXCEPT ![t] = currres[ProcOf[t]]]
  /\ Goto(t, IF currres[ProcOf[t]] = None \/ currres[ProcOf[t]] \notin noRes
             THEN "out" ELSE "output")
  /\ UNCHANGED <<callVars, missed, valp, stored, start, currres, refused, kills, events>>

(* Look currres up; without an entry, or with a NULL pointer in it, return *)
(* and leave both maps as they are.                                        *)
ReturnRes(t) ==
  /\ pc[t] = "ret_res"
  /\ res' = [res EXCEPT ![t] = currres[ProcOf[t]]]
  /\ Goto(t, IF currres[ProcOf[t]] \in {None} \cup noRes THEN "out" ELSE "output")
  /\ UNCHANGED <<callVars, missed, valp, stored, start, currres, refused, kills, events>>

(* A pointer into a preallocated hash map, followed after its entry was    *)
(* deleted or replaced: the element may still hold the value found, or one *)
(* stored in it since.                                                     *)
Follow(map, t, found) ==
  IF map[ProcOf[t]] = found THEN {found}
  ELSE {found} \cup ({map[p] : p \in Procs} \ {None})

(* Faulty variant: return right after the output.                          *)
OutputNoCleanup(t) ==
  /\ pc[t] = "output"
  /\ \E h \in Follow(start, t, valp[t]), r \in Follow(currres, t, res[t]) :
       events' = events \cup {[by |-> CallOf(t), host |-> h, res |-> r,
                               tracked |-> stored[t] = {"start", "currres"}]}
  /\ Goto(t, "out")
  /\ UNCHANGED <<callVars, missed, valp, res, stored, start, currres, refused, kills>>

(* Read the host through valp and the result through res, which are not    *)
(* used again, and output the first address.                               *)
Output(t) ==
  /\ pc[t] = "output"
  /\ \E h \in Follow(start, t, valp[t]), r \in Follow(currres, t, res[t]) :
       events' = events \cup {[by |-> CallOf(t), host |-> h, res |-> r,
                               tracked |-> stored[t] = {"start", "currres"}]}
  /\ Goto(t, "delete_start")
  /\ valp' = [valp EXCEPT ![t] = None]
  /\ res' = [res EXCEPT ![t] = None]
  /\ UNCHANGED <<callVars, missed, stored, start, currres, refused, kills>>

DeleteStart(t) ==
  /\ pc[t] = "delete_start"
  /\ start' = [start EXCEPT ![ProcOf[t]] = None]
  /\ Goto(t, "delete_res")
  /\ UNCHANGED <<callVars, missed, valp, res, stored, currres, refused, kills, events>>

DeleteRes(t) ==
  /\ pc[t] = "delete_res"
  /\ currres' = [currres EXCEPT ![ProcOf[t]] = None]
  /\ Goto(t, "out")
  /\ UNCHANGED <<callVars, missed, valp, res, stored, start, refused, kills, events>>

(* Every thread has made all the calls the bound allows.                   *)
Quiet ==
  /\ attached = {"entry", "return"}
  /\ \A t \in Threads : pc[t] = "out" /\ num[t] = MaxCalls[t]
  /\ UNCHANGED vars

Next ==
  \/ \E t \in Threads :
       \/ CallGetaddrinfo(t) \/ ReturnUnhooked(t)
       \/ EntryStart(t) \/ EntryRes(t)
       \/ ReturnStart(t) \/ ReturnRes(t) \/ Output(t) \/ DeleteStart(t) \/ DeleteRes(t)
  \/ \E p \in Procs : Kill(p)
  \/ \E probe \in {"entry", "return"} : Attach(probe)
  \/ Quiet

Spec == Init /\ [][Next]_vars

-----------------------------------------------------------------------------
(* Properties                                                              *)

(* The types of the state: in particular getaddrinfo_return outputs no     *)
(* event without a host and a result of some call.                        *)
TypeOK ==
  /\ pc \in [Threads -> Pcs]
  /\ num \in [Threads -> Nat]
  /\ stored \in [Threads -> SUBSET {"start", "currres"}]
  /\ start \in [Procs -> Calls \cup {None}]
  /\ currres \in [Procs -> Calls \cup {None}]
  /\ valp \in [Threads -> Calls \cup {None}]
  /\ res \in [Threads -> Calls \cup {None}]
  /\ attached \subseteq {"entry", "return"} /\ hooked \subseteq Threads
  /\ noRes \subseteq Calls /\ refused \subseteq Calls /\ missed \subseteq Calls
  /\ kills \in 0 .. MaxKills
  /\ events \subseteq [by : Calls, host : Calls, res : Calls, tracked : BOOLEAN]

SingleThreaded(p) == \A t, u \in Threads : ProcOf[t] = p /\ ProcOf[u] = p => t = u

Paired(e) == e.host = e.by /\ e.res = e.by

(* In a process with one thread, the event output when a call returns has  *)
(* the host and the result of that very call, if the entry probe stored    *)
(* both: neither other processes nor entries left behind by full maps or   *)
(* by a killed process with the same number come between.                  *)
TrackedCallPaired ==
  \A e \in events : SingleThreaded(ProcOf[e.by[1]]) /\ e.tracked => Paired(e)

(* No event of such a process mixes two calls.  One that is output when a  *)
(* call returns that did not store both entries, because a map refused it  *)
(* or it has no node, tells of an earlier call that ended without the      *)
(* return probe: its process was killed, or it had begun before the        *)
(* uretprobe was attached.                                                 *)
UntrackedEventStale ==
  \A e \in events :
    SingleThreaded(ProcOf[e.by[1]]) =>
      /\ e.host = e.res
      /\ ~e.tracked => e.host \in missed

(* In such a process a call that found a place in both maps has been       *)
(* reported by the time the next one can begin, if its result pointer was  *)
(* not NULL and the return probe ran for it.                               *)
TrackedCallReported ==
  \A t \in Threads :
    /\ SingleThreaded(ProcOf[t])
    /\ pc[t] = "out"
    /\ stored[t] = {"start", "currres"}
    /\ CallOf(t) \notin missed \cup noRes
    => \E e \in events : e.by = CallOf(t)

(* Between two calls of such a process an entry is left only by a call     *)
(* that a full map refused its other entry, that had a NULL result pointer *)
(* or that ended without the return probe.                                 *)
EntriesEndWithCall ==
  \A t \in Threads :
    /\ SingleThreaded(ProcOf[t])
    /\ pc[t] = "out"
    => {start[ProcOf[t]], currres[ProcOf[t]]} \subseteq {None} \cup refused \cup noRes \cup missed

=============================================================================

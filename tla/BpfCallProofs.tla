--------------------------- MODULE BpfCallProofs ----------------------------
(***************************************************************************)
(* Proofs about BpfCall, for any threads, any number of CPUs, any elements *)
(* of bpf_context and any number of calls and of perf entries.             *)
(***************************************************************************)
EXTENDS BpfCall, TLAPS

Pcs == {"out", "store", "lookup", "cmd", "procinfo", "send"}
Past == {"lookup", "cmd", "procinfo", "send"}

TypeOK ==
  /\ cur \in [Threads -> Nat] /\ calls \in Nat
  /\ pc \in [Threads -> Pcs]
  /\ cpu \in [Threads -> CPUs \cup {None}]
  /\ node \in [Threads -> Elements \cup {Nil}]
  /\ ptr \in [Threads -> Elements \cup {Nil}]
  /\ key \in [Elements -> Threads \cup {Nil}]
  /\ content \in [Elements -> [cmd : Nat, procinfo : Nat]]

(* An element is taken by one update, or stored under one key, or free,    *)
(* and a program that writes has a pointer.                                *)
OneElementEach ==
  /\ \A t \in Threads : node[t] # Nil <=> pc[t] = "store"
  /\ \A t \in Threads : node[t] # Nil => key[node[t]] = Nil
  /\ \A t, u \in Threads : node[t] = node[u] /\ node[t] # Nil => t = u
  /\ \A e, f \in Elements : key[e] = key[f] /\ key[e] # Nil => e = f
  /\ \A t \in Threads : ptr[t] # Nil <=> pc[t] \in {"cmd", "procinfo", "send"}

(* The program of t has the element e to itself, filled as far as it came. *)
Holds(t, e) ==
  /\ key[e] = t
  /\ \A u \in Threads \ {t} : ptr[u] # e
  /\ pc[t] # "lookup" => ptr[t] = e
  /\ pc[t] \in {"procinfo", "send"} => content[e].cmd = cur[t]
  /\ pc[t] = "send" => content[e].procinfo = cur[t]

(* A program that is not disturbed takes an element that nobody writes to, *)
(* and holds it from its update on.                                        *)
Alone(t) ==
  t \notin disturbed =>
    /\ pc[t] = "store" => \A u \in Threads : ptr[u] # node[t]
    /\ pc[t] \in Past => \E e \in Elements : Holds(t, e)

AloneInv == \A t \in Threads : Alone(t)

IInv == TypeOK /\ OneElementEach /\ AloneInv /\ EventOfOneCall /\ LostForAReason

-----------------------------------------------------------------------------
(* The cases of the actions                                                *)

(* The end of a program.                                                   *)
Ends(t) ==
  /\ pc' = [pc EXCEPT ![t] = "out"]
  /\ cpu' = [cpu EXCEPT ![t] = None]
  /\ ptr' = [ptr EXCEPT ![t] = Nil]
  /\ UNCHANGED <<calls, cur, node, key, content, disturbed>>

(* The lookup that finds e.                                                *)
Finds(t, e) ==
  /\ pc' = [pc EXCEPT ![t] = "cmd"]
  /\ ptr' = [ptr EXCEPT ![t] = e]
  /\ UNCHANGED <<calls, cur, cpu, node, key, content, disturbed, events, lost>>

(* The writes of the program to its element.                               *)
Fills(t) == FillCmd(t) \/ get_common_proc(t)

(* bpf_map_update_elem either takes an element, free or evicted, or is     *)
(* refused.                                                                *)
LEMMA TakeCases ==
  ASSUME NEW t \in Threads, UpdateTake(t)
  PROVE  /\ Begin(t)
         /\ \/ Refuse(t)
            \/ \E gone \in SUBSET Stored : \E e \in Free \cup gone : Take(t, e, gone)
BY DEF UpdateTake

(* bpf_map_lookup_elem of make_event either finds the thread's element or  *)
(* ends the program.                                                       *)
LEMMA LookupCases ==
  ASSUME NEW t \in Threads, Lookup(t)
  PROVE  /\ pc[t] = "lookup"
         /\ \/ /\ Ends(t) /\ ElementOf(t) = {} /\ UNCHANGED events
               /\ lost' = lost \cup {[by |-> cur[t], why |-> "no element",
                                      disturbed |-> t \in disturbed]}
            \/ \E e \in ElementOf(t) : Finds(t, e)
BY DEF Lookup, Drop, Ends, Finds, Goto

(* send_event either outputs what the element holds or loses the call for  *)
(* want of a perf entry.                                                   *)
LEMMA SendCases ==
  ASSUME NEW t \in Threads, send_event(t)
  PROVE  /\ pc[t] = "send" /\ Ends(t)
         /\ \/ /\ events' = events \cup {[by |-> cur[t], cmd |-> content[ptr[t]].cmd,
                                          procinfo |-> content[ptr[t]].procinfo,
                                          disturbed |-> t \in disturbed]}
               /\ UNCHANGED lost
            \/ /\ lost' = lost \cup {[by |-> cur[t], why |-> "no entry",
                                      disturbed |-> t \in disturbed]}
               /\ UNCHANGED events
BY DEF send_event, Drop, Ends, Goto

(* The two writes through the pointer change the program's own element     *)
(* only, one part of it each.                                              *)
LEMMA FillFields ==
  ASSUME TypeOK, OneElementEach, NEW t \in Threads, Fills(t)
  PROVE  /\ ptr[t] \in Elements
         /\ UNCHANGED <<calls, cur, cpu, node, ptr, key, disturbed, events, lost>>
         /\ \A e \in Elements \ {ptr[t]} : content'[e] = content[e]
         /\ content' \in [Elements -> [cmd : Nat, procinfo : Nat]]
         /\ \/ /\ pc[t] = "cmd" /\ pc' = [pc EXCEPT ![t] = "procinfo"]
               /\ content'[ptr[t]].cmd = cur[t]
            \/ /\ pc[t] = "procinfo" /\ pc' = [pc EXCEPT ![t] = "send"]
               /\ content'[ptr[t]].cmd = content[ptr[t]].cmd
               /\ content'[ptr[t]].procinfo = cur[t]
<1>1. ptr[t] \in Elements /\ cur[t] \in Nat
  BY DEF Fills, FillCmd, get_common_proc, OneElementEach, TypeOK
<1>2. CASE FillCmd(t)
  BY <1>1, <1>2 DEF FillCmd, Goto, TypeOK
<1>3. CASE get_common_proc(t)
  BY <1>1, <1>3 DEF get_common_proc, Goto, TypeOK
<1> QED
  BY <1>1, <1>2, <1>3 DEF Fills

-----------------------------------------------------------------------------
(* The invariant step by step                                              *)

(* The first half of an update keeps the structure of the map.             *)
LEMMA TakeShape ==
  ASSUME TypeOK, OneElementEach, NEW t \in Threads, UpdateTake(t)
  PROVE  TypeOK' /\ OneElementEach'
<1>1. /\ pc[t] = "out" /\ calls' = calls + 1 /\ cur' = [cur EXCEPT ![t] = calls + 1]
      /\ \E c \in CPUs : cpu' = [cpu EXCEPT ![t] = c]
      /\ UNCHANGED ptr /\ node[t] = Nil
  BY TakeCases DEF Begin, OneElementEach
<1>2. CASE Refuse(t)
  BY <1>1, <1>2 DEF Refuse, Goto, TypeOK, OneElementEach, Pcs
<1>3. ASSUME NEW gone \in SUBSET Stored, NEW e \in Free \cup gone, Take(t, e, gone)
      PROVE  TypeOK' /\ OneElementEach'
  <2>1. /\ e \in Elements /\ e # Nil /\ \A u \in Threads : node[u] # e
        /\ key'[e] = Nil
    BY <1>3, BpfAssumption DEF Take, Free, Stored, OneElementEach
  <2>2. /\ node' = [node EXCEPT ![t] = e] /\ pc' = [pc EXCEPT ![t] = "store"]
        /\ key' = [f \in Elements |-> IF f \in gone THEN Nil ELSE key[f]]
        /\ content' = [content EXCEPT ![e] = Empty]
    BY <1>3 DEF Take, Goto
  <2>3. TypeOK'
    BY <1>1, <2>1, <2>2 DEF TypeOK, Pcs, Empty
  <2>4. \A f, g \in Elements : key'[f] = key'[g] /\ key'[f] # Nil => f = g
    BY <2>2 DEF OneElementEach
  <2>5. \A u \in Threads : node'[u] # Nil => key'[node'[u]] = Nil
    BY <2>1, <2>2 DEF OneElementEach, TypeOK
  <2>6. \A u, v \in Threads : node'[u] = node'[v] /\ node'[u] # Nil => u = v
    BY <2>1, <2>2 DEF OneElementEach, TypeOK
  <2>7. \A u \in Threads : (node'[u] # Nil <=> pc'[u] = "store")
    BY <1>1, <2>1, <2>2 DEF OneElementEach, TypeOK
  <2>8. \A u \in Threads : (ptr'[u] # Nil <=> pc'[u] \in {"cmd", "procinfo", "send"})
    BY <1>1, <2>2 DEF OneElementEach, TypeOK
  <2> QED
    BY <2>3, <2>4, <2>5, <2>6, <2>7, <2>8 DEF OneElementEach
<1> QED
  BY <1>2, <1>3, TakeCases

(* So does the second half.                                                *)
LEMMA StoreShape ==
  ASSUME TypeOK, OneElementEach, NEW t \in Threads, UpdateStore(t)
  PROVE  TypeOK' /\ OneElementEach'
<1>1. /\ pc[t] = "store" /\ node[t] \in Elements /\ node[t] # Nil /\ t # Nil
      /\ pc' = [pc EXCEPT ![t] = "lookup"] /\ node' = [node EXCEPT ![t] = Nil]
      /\ key' = [e \in Elements |-> IF e = node[t] THEN t
                                    ELSE IF key[e] = t THEN Nil ELSE key[e]]
      /\ UNCHANGED <<calls, cur, cpu, ptr, content>>
  BY BpfAssumption DEF UpdateStore, Goto, KeyOf, ElementOf, Stored, OneElementEach, TypeOK
<1>2. TypeOK'
  BY <1>1 DEF TypeOK, Pcs
<1>3. \A u \in Threads : node'[u] # Nil => key'[node'[u]] = Nil
  BY <1>1 DEF OneElementEach, TypeOK
<1>4. \A e, f \in Elements : key'[e] = key'[f] /\ key'[e] # Nil => e = f
  BY <1>1 DEF OneElementEach, TypeOK
<1>5. \A u, v \in Threads : node'[u] = node'[v] /\ node'[u] # Nil => u = v
  BY <1>1 DEF OneElementEach, TypeOK
<1>6. \A u \in Threads : /\ node'[u] # Nil <=> pc'[u] = "store"
                         /\ ptr'[u] # Nil <=> pc'[u] \in {"cmd", "procinfo", "send"}
  BY <1>1 DEF OneElementEach, TypeOK
<1> QED
  BY <1>2, <1>3, <1>4, <1>5, <1>6 DEF OneElementEach

(* The other steps leave the map alone.                                    *)
LEMMA OtherShape ==
  ASSUME TypeOK, OneElementEach, NEW t \in Threads, Lookup(t) \/ Fills(t) \/ send_event(t)
  PROVE  TypeOK' /\ OneElementEach'
<1>1. ASSUME Ends(t), pc[t] # "store" PROVE TypeOK' /\ OneElementEach'
  BY <1>1 DEF Ends, TypeOK, OneElementEach, Pcs
<1>2. ASSUME NEW e \in ElementOf(t), Finds(t, e), pc[t] = "lookup"
      PROVE  TypeOK' /\ OneElementEach'
  <2>1. e \in Elements /\ e # Nil
    BY BpfAssumption DEF ElementOf, Stored
  <2> QED
    BY <1>2, <2>1 DEF Finds, TypeOK, OneElementEach, Pcs
<1>3. CASE Fills(t)
  <2>1. /\ UNCHANGED <<calls, cur, cpu, node, ptr, key>>
        /\ content' \in [Elements -> [cmd : Nat, procinfo : Nat]]
        /\ pc[t] \in {"cmd", "procinfo"}
        /\ \E to \in {"procinfo", "send"} : pc' = [pc EXCEPT ![t] = to]
    BY <1>3, FillFields
  <2> QED
    BY <2>1 DEF TypeOK, OneElementEach, Pcs
<1> QED
  BY <1>1, <1>2, <1>3, LookupCases, SendCases

(* An update that takes an element disturbs the program that has it, and   *)
(* no other holds or takes that element.                                   *)
LEMMA TakeAlone ==
  ASSUME TypeOK, OneElementEach, AloneInv, NEW t \in Threads, UpdateTake(t)
  PROVE  AloneInv'
<1>1. pc[t] = "out" /\ UNCHANGED ptr /\ \A u \in Threads \ {t} : cur'[u] = cur[u]
  BY TakeCases DEF Begin, TypeOK
<1>2. CASE Refuse(t)
  <2> SUFFICES ASSUME NEW u \in Threads, u \notin disturbed' PROVE Alone(u)'
    BY DEF AloneInv, Alone
  <2>1. /\ u # t /\ u \notin disturbed /\ pc'[u] = pc[u] /\ cur'[u] = cur[u]
        /\ UNCHANGED <<node, key, content>>
    BY <1>1, <1>2 DEF Refuse, Goto, TypeOK
  <2>2. Alone(u)
    BY DEF AloneInv
  <2> QED
    BY <1>1, <2>1, <2>2 DEF Alone, Holds
<1>3. ASSUME NEW gone \in SUBSET Stored, NEW e \in Free \cup gone, Take(t, e, gone)
      PROVE  AloneInv'
  <2> SUFFICES ASSUME NEW u \in Threads, u \notin disturbed' PROVE Alone(u)'
    BY DEF AloneInv, Alone
  <2>1. /\ e \in Elements /\ \A v \in Threads : node[v] # e
        /\ key[e] # Nil => e \in gone
    BY <1>3, BpfAssumption DEF Free, Stored, OneElementEach
  <2>2. /\ node' = [node EXCEPT ![t] = e] /\ pc' = [pc EXCEPT ![t] = "store"]
        /\ key' = [f \in Elements |-> IF f \in gone THEN Nil ELSE key[f]]
        /\ content' = [content EXCEPT ![e] = Empty]
        /\ disturbed' = (disturbed \ {t}) \cup Robbed(gone)
                          \cup {v \in {t} : \E w \in Threads : ptr[w] = e}
    BY <1>3 DEF Take, Goto
  <2>3. CASE u = t
    <3>1. \A w \in Threads : ptr[w] # e
      BY <2>2, <2>3
    <3>2. pc'[t] = "store" /\ node'[t] = e
      BY <2>2 DEF TypeOK
    <3> QED
      BY <1>1, <2>3, <3>1, <3>2 DEF Alone, Past
  <2>4. CASE u # t
    <3>1. /\ u \notin disturbed /\ u \notin Robbed(gone)
          /\ pc'[u] = pc[u] /\ node'[u] = node[u] /\ cur'[u] = cur[u]
      BY <1>1, <2>2, <2>4 DEF TypeOK
    <3>2. Alone(u)
      BY DEF AloneInv
    <3>3. CASE pc[u] = "store"
      BY <1>1, <3>1, <3>2, <3>3 DEF Alone, Past
    <3>4. CASE pc[u] \in Past
      <4>1. PICK f \in Elements : Holds(u, f)
        BY <3>1, <3>2, <3>4 DEF Alone
      <4>2. u # Nil /\ key[f] = u
        BY <4>1, BpfAssumption DEF Holds
      <4>3. f \in ElementOf(u)
        BY <4>2 DEF ElementOf, Stored, KeyOf
      <4>4. f \notin gone
        BY <3>1, <3>4, <4>3 DEF Robbed, Past
      <4>5. f # e /\ key'[f] = key[f] /\ content'[f] = content[f]
        BY <2>1, <2>2, <4>2, <4>4 DEF TypeOK
      <4>6. Holds(u, f)'
        BY <1>1, <3>1, <4>1, <4>5 DEF Holds
      <4> QED
        BY <3>1, <3>4, <4>6 DEF Alone, Past
    <3> QED
      BY <3>1, <3>3, <3>4 DEF Alone
  <2> QED
    BY <2>3, <2>4
<1> QED
  BY <1>2, <1>3, TakeCases

(* A program that stores its element holds it; the element it frees is     *)
(* held by no other.                                                       *)
LEMMA StoreAlone ==
  ASSUME TypeOK, OneElementEach, AloneInv, NEW t \in Threads, UpdateStore(t)
  PROVE  AloneInv'
<1>1. /\ pc[t] = "store" /\ node[t] \in Elements /\ key[node[t]] = Nil /\ t # Nil
      /\ pc' = [pc EXCEPT ![t] = "lookup"] /\ node' = [node EXCEPT ![t] = Nil]
      /\ key' = [e \in Elements |-> IF e = node[t] THEN t
                                    ELSE IF key[e] = t THEN Nil ELSE key[e]]
      /\ UNCHANGED <<cur, ptr, content, disturbed>>
  BY BpfAssumption DEF UpdateStore, Goto, KeyOf, ElementOf, Stored, OneElementEach, TypeOK
<1> SUFFICES ASSUME NEW u \in Threads, u \notin disturbed PROVE Alone(u)'
  BY <1>1 DEF AloneInv, Alone
<1>2. Alone(u)
  BY DEF AloneInv
<1>3. CASE u = t
  <2>1. PICK e \in Elements : e = node[t]
    BY <1>1
  <2>2. pc'[t] = "lookup" /\ key'[e] = t
    BY <1>1, <2>1 DEF TypeOK
  <2>3. \A v \in Threads : ptr'[v] # e
    BY <1>1, <1>2, <1>3, <2>1 DEF Alone
  <2>4. Holds(t, e)'
    BY <2>2, <2>3 DEF Holds
  <2> QED
    BY <1>3, <2>2, <2>4 DEF Alone
<1>4. CASE u # t
  <2>1. pc'[u] = pc[u] /\ node'[u] = node[u]
    BY <1>1, <1>4 DEF TypeOK
  <2>2. ASSUME NEW f \in Elements, Holds(u, f), u # Nil PROVE Holds(u, f)'
    <3>1. key'[f] = u
      BY <1>1, <1>4, <2>2 DEF Holds
    <3> QED
      BY <1>1, <2>1, <2>2, <3>1 DEF Holds
  <2>3. u # Nil
    BY BpfAssumption
  <2> QED
    BY <1>1, <1>2, <2>1, <2>2, <2>3 DEF Alone
<1> QED
  BY <1>3, <1>4

(* A program finds the element it holds and writes to no other.            *)
LEMMA OtherAlone ==
  ASSUME TypeOK, OneElementEach, AloneInv, NEW t \in Threads,
         Lookup(t) \/ Fills(t) \/ send_event(t)
  PROVE  AloneInv'
<1>1. ASSUME Ends(t) PROVE AloneInv'
  <2> SUFFICES ASSUME NEW u \in Threads, u \notin disturbed PROVE Alone(u)'
    BY <1>1 DEF AloneInv, Alone, Ends
  <2>1. Alone(u)
    BY DEF AloneInv
  <2>2. CASE u = t
    BY <1>1, <2>2 DEF Ends, Alone, Past, TypeOK
  <2>3. CASE u # t
    <3>1. /\ pc'[u] = pc[u] /\ ptr'[u] = ptr[u] /\ UNCHANGED <<cur, node, key, content>>
          /\ \A v \in Threads : ptr'[v] \in {ptr[v], Nil}
      BY <1>1, <2>3 DEF Ends, TypeOK
    <3>2. node[u] \in Elements => node[u] # Nil
      BY BpfAssumption
    <3>3. \A f \in Elements : f # Nil /\ (Holds(u, f) => Holds(u, f)')
      BY <3>1, BpfAssumption DEF Holds
    <3> QED
      BY <2>1, <3>1, <3>3 DEF Alone, OneElementEach
  <2> QED
    BY <2>2, <2>3
<1>2. ASSUME NEW e \in ElementOf(t), Finds(t, e), pc[t] = "lookup" PROVE AloneInv'
  <2>1. /\ e \in Elements /\ key[e] = t /\ key[e] # Nil
        /\ pc' = [pc EXCEPT ![t] = "cmd"] /\ ptr' = [ptr EXCEPT ![t] = e]
        /\ UNCHANGED <<cur, node, key, content, disturbed>>
    BY <1>2 DEF ElementOf, Stored, KeyOf, Finds
  <2> SUFFICES ASSUME NEW u \in Threads, u \notin disturbed PROVE Alone(u)'
    BY <2>1 DEF AloneInv, Alone
  <2>2. Alone(u)
    BY DEF AloneInv
  <2>3. CASE u = t
    <3>1. PICK f \in Elements : Holds(t, f)
      BY <1>2, <2>2, <2>3 DEF Alone, Past
    <3>2. f = e
      BY <2>1, <3>1 DEF Holds, OneElementEach
    <3>3. Holds(t, e)'
      BY <2>1, <3>1, <3>2 DEF Holds, TypeOK
    <3> QED
      BY <2>1, <2>3, <3>3 DEF Alone, TypeOK
  <2>4. CASE u # t
    <3>1. pc'[u] = pc[u] /\ node'[u] = node[u]
      BY <2>1, <2>4 DEF TypeOK
    <3>2. \A f \in Elements : Holds(u, f) => Holds(u, f)'
      BY <2>1, <2>4, <3>1 DEF Holds, TypeOK
    <3>3. pc[u] = "store" => e # node[u]
      BY <2>1 DEF OneElementEach
    <3> QED
      BY <2>1, <2>2, <3>1, <3>2, <3>3 DEF Alone, TypeOK
  <2> QED
    BY <2>3, <2>4
<1>3. CASE Fills(t)
  <2> SUFFICES ASSUME NEW u \in Threads, u \notin disturbed PROVE Alone(u)'
    BY <1>3, FillFields DEF AloneInv, Alone
  <2>1. /\ Alone(u) /\ ptr[t] \in Elements
        /\ UNCHANGED <<cur, node, ptr, key, disturbed>>
        /\ \A e \in Elements \ {ptr[t]} : content'[e] = content[e]
    BY <1>3, FillFields DEF AloneInv
  <2>2. CASE u = t
    <3>1. pc[t] \in {"cmd", "procinfo"} /\ pc'[t] \in {"procinfo", "send"}
      BY <1>3, FillFields DEF TypeOK
    <3>2. PICK f \in Elements : Holds(t, f)
      BY <2>1, <2>2, <3>1 DEF Alone, Past
    <3>3. f = ptr[t]
      BY <3>1, <3>2 DEF Holds
    <3>4. Holds(t, f)'
      BY <1>3, <2>1, <3>1, <3>2, <3>3, FillFields DEF Holds, TypeOK
    <3> QED
      BY <2>2, <3>1, <3>4 DEF Alone, Past
  <2>3. CASE u # t
    <3>1. pc'[u] = pc[u]
      BY <1>3, <2>3, FillFields DEF TypeOK
    <3>2. \A f \in Elements : Holds(u, f) => Holds(u, f)'
      BY <2>1, <2>3, <3>1 DEF Holds
    <3> QED
      BY <2>1, <3>1, <3>2 DEF Alone
  <2> QED
    BY <2>2, <2>3
<1> QED
  BY <1>1, <1>2, <1>3, LookupCases, SendCases

(* What is output or lost is accounted for.                                *)
LEMMA OutcomeStep ==
  ASSUME TypeOK, OneElementEach, AloneInv, EventOfOneCall, LostForAReason, NEW t \in Threads,
         \/ UpdateTake(t) \/ UpdateStore(t) \/ Lookup(t) \/ Fills(t) \/ send_event(t)
  PROVE  EventOfOneCall' /\ LostForAReason'
<1>1. ASSUME UNCHANGED <<events, lost>>, pc'[t] # "out",
             \A u \in Threads \ {t} : pc'[u] = pc[u] /\ cur'[u] = cur[u]
      PROVE  EventOfOneCall' /\ LostForAReason'
  BY <1>1 DEF EventOfOneCall, LostForAReason, Exact
<1>2. CASE UpdateTake(t)
  <2>1. /\ UNCHANGED <<events, lost>> /\ pc'[t] # "out"
        /\ \A u \in Threads \ {t} : pc'[u] = pc[u] /\ cur'[u] = cur[u]
    BY <1>2, TakeCases DEF Begin, Refuse, Take, Goto, TypeOK
  <2> QED
    BY <1>1, <2>1
<1>3. CASE UpdateStore(t)
  BY <1>1, <1>3 DEF UpdateStore, Goto, TypeOK
<1>4. CASE Fills(t)
  BY <1>1, <1>4, FillFields DEF TypeOK
<1>5. CASE Lookup(t)
  <2>1. CASE \E e \in ElementOf(t) : Finds(t, e)
    BY <1>1, <2>1 DEF Finds, TypeOK
  <2>2. CASE /\ Ends(t) /\ ElementOf(t) = {} /\ UNCHANGED events
             /\ lost' = lost \cup {[by |-> cur[t], why |-> "no element",
                                    disturbed |-> t \in disturbed]}
    <3>1. t \in disturbed
      <4> SUFFICES ASSUME t \notin disturbed PROVE FALSE
        OBVIOUS
      <4>1. PICK e \in Elements : key[e] = t
        BY <1>5, LookupCases DEF AloneInv, Alone, Holds, Past
      <4>2. t # Nil
        BY BpfAssumption
      <4> QED
        BY <2>2, <4>1, <4>2 DEF ElementOf, Stored, KeyOf
    <3>2. \A u \in Threads : cur'[u] = cur[u] /\ (u # t => pc'[u] = pc[u])
      BY <2>2 DEF Ends, TypeOK
    <3>3. PICK l : l.by = cur[t] /\ l.disturbed /\ lost' = lost \cup {l}
      BY <2>2, <3>1
    <3> QED
      BY <2>2, <3>2, <3>3 DEF EventOfOneCall, LostForAReason, Exact
  <2> QED
    BY <1>5, <2>1, <2>2, LookupCases
<1>6. CASE send_event(t)
  <2>1. t \notin disturbed => content[ptr[t]].cmd = cur[t] /\ content[ptr[t]].procinfo = cur[t]
    BY <1>6, SendCases DEF AloneInv, Alone, Holds, Past
  <2>2. \A u \in Threads : cur'[u] = cur[u] /\ (u # t => pc'[u] = pc[u])
    BY <1>6, SendCases DEF Ends, TypeOK
  <2>3. \/ /\ UNCHANGED lost
           /\ \E e : e.by = cur[t] /\ (~e.disturbed => Exact(e)) /\ events' = events \cup {e}
        \/ /\ UNCHANGED events
           /\ \E l : l.by = cur[t] /\ l.why = "no entry" /\ lost' = lost \cup {l}
    BY <1>6, <2>1, SendCases DEF Exact
  <2>4. CASE \E e : /\ e.by = cur[t] /\ (~e.disturbed => Exact(e)) /\ events' = events \cup {e}
                    /\ UNCHANGED lost
    BY <2>2, <2>4 DEF EventOfOneCall, LostForAReason, Exact
  <2>5. CASE \E l : /\ l.by = cur[t] /\ l.why = "no entry" /\ lost' = lost \cup {l}
                    /\ UNCHANGED events
    BY <2>2, <2>5 DEF EventOfOneCall, LostForAReason, Exact
  <2> QED
    BY <2>3, <2>4, <2>5
<1> QED
  BY <1>2, <1>3, <1>4, <1>5, <1>6

-----------------------------------------------------------------------------
(* The theorems                                                            *)

(* The invariant holds in the first state, where no program runs.          *)
LEMMA InitIInv == Init => IInv
<1> SUFFICES ASSUME Init PROVE IInv
  OBVIOUS
<1>1. TypeOK /\ OneElementEach
  BY DEF Init, TypeOK, OneElementEach, Pcs, Empty
<1>2. AloneInv
  BY DEF Init, AloneInv, Alone, Past
<1>3. EventOfOneCall /\ LostForAReason
  BY DEF Init, EventOfOneCall, LostForAReason
<1> QED
  BY <1>1, <1>2, <1>3 DEF IInv

(* Every step keeps it.                                                    *)
LEMMA NextIInv == IInv /\ [Next]_vars => IInv'
<1> SUFFICES ASSUME IInv, [Next]_vars PROVE IInv'
  OBVIOUS
<1>1. ASSUME NEW t \in Threads,
             UpdateTake(t) \/ UpdateStore(t) \/ Lookup(t) \/ Fills(t) \/ send_event(t)
      PROVE  IInv'
  <2>1. TypeOK' /\ OneElementEach'
    BY <1>1, TakeShape, StoreShape, OtherShape DEF IInv
  <2>2. AloneInv'
    BY <1>1, TakeAlone, StoreAlone, OtherAlone DEF IInv
  <2> QED
    BY <1>1, <2>1, <2>2, OutcomeStep DEF IInv
<1>2. CASE UNCHANGED vars
  <2>1. TypeOK' /\ OneElementEach'
    BY <1>2 DEF vars, IInv, TypeOK, OneElementEach
  <2>2. AloneInv'
    BY <1>2 DEF vars, IInv, AloneInv, Alone, Holds
  <2> QED
    BY <1>2, <2>1, <2>2 DEF vars, IInv, EventOfOneCall, LostForAReason, Exact
<1> QED
  BY <1>1, <1>2 DEF Next, Quiet, Fills

(* The inductive invariant holds in every reachable state.                 *)
LEMMA Invariant == Spec => []IInv
BY InitIInv, NextIInv, PTL DEF Spec

(* Whatever the map evicts and however the programs of other CPUs          *)
(* interleave, the event of a call whose element no other program had at   *)
(* the same time is of that call alone.                                    *)
THEOREM EventsOfOneCall == Spec => []EventOfOneCall
<1>1. IInv => EventOfOneCall
  BY DEF IInv
<1> QED
  BY <1>1, Invariant, PTL

(* A call whose program has ended has an event, or its element was evicted *)
(* or refused while it ran, or there is no perf entry for its CPU.         *)
THEOREM CallsLostForAReason == Spec => []LostForAReason
<1>1. IInv => LostForAReason
  BY DEF IInv
<1> QED
  BY <1>1, Invariant, PTL

=============================================================================

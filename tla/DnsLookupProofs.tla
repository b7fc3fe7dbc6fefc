-------------------------- MODULE DnsLookupProofs --------------------------
(***************************************************************************)
(* Proofs about DnsLookup, for any threads and processes, any size of the  *)
(* maps and any number of calls and kills.                                 *)
(***************************************************************************)
EXTENDS DnsLookup, TLAPS

(* The steps of one thread.                                                *)
Step(t) ==
  \/ CallGetaddrinfo(t) \/ ReturnUnhooked(t)
  \/ EntryStart(t) \/ EntryRes(t)
  \/ ReturnStart(t) \/ ReturnRes(t) \/ Output(t) \/ DeleteStart(t) \/ DeleteRes(t)

Both == {"start", "currres"}

(* A thread in a call has numbered it, and what the lookups of the return  *)
(* probe found is a call.                                                  *)
Looked ==
  \A t \in Threads :
    /\ pc[t] # "out" => num[t] # 0
    /\ pc[t] \in {"ret_res", "output"} => valp[t] # None
    /\ pc[t] = "output" => res[t] # None

(* In a process with one thread the entries of a call stay what they are   *)
(* until the return probe has used them.                                   *)
Own(t) ==
  SingleThreaded(ProcOf[t]) =>
    /\ pc[t] = "entry_start" => stored[t] = {}
    /\ pc[t] = "entry_res" => "currres" \notin stored[t]
    /\ pc[t] \in {"entry_res", "inside", "ret_res", "output"} /\ "start" \in stored[t] =>
         start[ProcOf[t]] = CallOf(t)
    /\ pc[t] \in {"inside", "ret_res", "output"} /\ "currres" \in stored[t] =>
         currres[ProcOf[t]] = CallOf(t)
    /\ pc[t] \in {"ret_res", "output"} => valp[t] = start[ProcOf[t]]
    /\ pc[t] = "output" => res[t] = currres[ProcOf[t]]

(* The calls of which something may be left between calls.                 *)
Excused(c) == c \in {None} \cup refused \cup noRes \cup missed

(* The entries of such a process are of one call, except while that call   *)
(* has replaced the first and not yet the second; a call that a map        *)
(* refused has at most one,                                                *)
Matched(t) ==
  SingleThreaded(ProcOf[t]) =>
    /\ pc[t] = "entry_start" => CallOf(t) \notin refused
    /\ pc[t] = "entry_res" =>
         IF "start" \in stored[t] THEN CallOf(t) \notin refused
         ELSE start[ProcOf[t]] = None /\ CallOf(t) \in refused
    /\ pc[t] \in {"inside", "ret_res", "output"} /\ stored[t] \notin {{}, Both} =>
         /\ start[ProcOf[t]] = None \/ currres[ProcOf[t]] = None
         /\ CallOf(t) \in refused
    /\ pc[t] # "entry_res" /\ start[ProcOf[t]] # None /\ currres[ProcOf[t]] # None =>
         start[ProcOf[t]] = currres[ProcOf[t]] /\ start[ProcOf[t]] \notin refused
    /\ pc[t] = "output" => currres[ProcOf[t]] \notin {None} \cup noRes
    /\ pc[t] = "delete_res" => start[ProcOf[t]] = None

(* what is there was stored by the current call or left by an excused one, *)
Left(t) ==
  SingleThreaded(ProcOf[t]) =>
    /\ pc[t] \in {"out", "entry_start"} =>
         Excused(start[ProcOf[t]]) /\ Excused(currres[ProcOf[t]])
    /\ pc[t] = "entry_res" =>
         ("start" \in stored[t] \/ start[ProcOf[t]] = None) /\ Excused(currres[ProcOf[t]])
    /\ pc[t] \in {"inside", "ret_res", "output"} =>
         /\ "start" \in stored[t] \/ Excused(start[ProcOf[t]])
         /\ "currres" \in stored[t] \/ Excused(currres[ProcOf[t]])

(* and a call that stored both has its event when it deletes them.         *)
Reported(t) ==
  SingleThreaded(ProcOf[t]) =>
    /\ pc[t] \in {"delete_start", "delete_res"} => \E e \in events : e.by = CallOf(t)
    /\ pc[t] = "out" /\ stored[t] = Both /\ CallOf(t) \notin missed \cup noRes =>
         \E e \in events : e.by = CallOf(t)

(* An entry of a process was stored by a thread of it, and only calls that *)
(* have begun were refused.                                                *)
Placed ==
  /\ \A p \in Procs : start[p] # None => ProcOf[start[p][1]] = p
  /\ \A p \in Procs : currres[p] # None => ProcOf[currres[p][1]] = p
  /\ \A c \in refused : c[2] <= num[c[1]]

OwnInv == \A t \in Threads : Own(t)
MatchedInv == \A t \in Threads : Matched(t)
LeftInv == \A t \in Threads : Left(t)
ReportedInv == \A t \in Threads : Reported(t)

IInv ==
  /\ TypeOK /\ Looked /\ Placed /\ OwnInv /\ MatchedInv /\ LeftInv /\ ReportedInv
  /\ TrackedCallPaired /\ UntrackedEventStale

-----------------------------------------------------------------------------
(* The current call of a thread is a call.                                 *)
LEMMA CallOfType ==
  ASSUME TypeOK, NEW t \in Threads, num[t] # 0
  PROVE  CallOf(t) \in Calls
BY DEF TypeOK, CallOf, Calls

(* The current call of a thread is the thread's own.                       *)
LEMMA CallNotNone == ASSUME NEW t \in Threads PROVE CallOf(t) # None /\ CallOf(t)[1] = t
BY DEF CallOf, None

(* A thread is of a process.                                               *)
LEMMA ProcType == ASSUME NEW t \in Threads PROVE ProcOf[t] \in Procs
BY DnsAssumption

(* What each step does to its own thread and to the maps.                  *)
LEMMA CallEffect ==
  ASSUME TypeOK, NEW t \in Threads, CallGetaddrinfo(t)
  PROVE  /\ pc[t] = "out" /\ pc'[t] \in {"entry_start", "inside"}
         /\ num'[t] = num[t] + 1 /\ num'[t] # 0 /\ stored'[t] = {}
         /\ noRes' \in {noRes, noRes \cup {<<t, num[t] + 1>>}}
         /\ UNCHANGED <<valp, res, start, currres, refused, missed, events>>
BY DEF CallGetaddrinfo, Goto, TypeOK

(* A call whose return is not hooked ends and is missed.                   *)
LEMMA UnhookedEffect ==
  ASSUME TypeOK, NEW t \in Threads, ReturnUnhooked(t)
  PROVE  /\ pc[t] = "inside" /\ pc'[t] = "out" /\ missed' = missed \cup {CallOf(t)}
         /\ UNCHANGED <<noRes, num, valp, res, stored, start, currres, refused, events>>
BY DEF ReturnUnhooked, Goto, TypeOK, callVars

(* The entry stores the host in start, or is refused by the full map.      *)
LEMMA EntryStartEffect ==
  ASSUME TypeOK, NEW t \in Threads, EntryStart(t)
  PROVE  /\ pc[t] = "entry_start" /\ pc'[t] = "entry_res"
         /\ \/ /\ start'[ProcOf[t]] = CallOf(t) /\ stored'[t] = stored[t] \cup {"start"}
               /\ refused' = refused
            \/ /\ start'[ProcOf[t]] = None /\ stored'[t] = stored[t]
               /\ start' = start /\ refused' = refused \cup {CallOf(t)}
         /\ UNCHANGED <<noRes, missed, valp, res, num, currres, events>>
<1> USE DEF callVars
<1>1. CASE Fits(start, t)
  BY <1>1, ProcType DEF EntryStart, Goto, Stored, TypeOK
<1>2. CASE ~Fits(start, t)
  BY <1>2, ProcType DEF EntryStart, Goto, Fits, TypeOK
<1> QED
  BY <1>1, <1>2

(* The entry stores the result pointer in currres, or is refused by the    *)
(* full map.                                                               *)
LEMMA EntryResEffect ==
  ASSUME TypeOK, NEW t \in Threads, EntryRes(t)
  PROVE  /\ pc[t] = "entry_res" /\ pc'[t] = "inside"
         /\ \/ /\ currres'[ProcOf[t]] = CallOf(t) /\ stored'[t] = stored[t] \cup {"currres"}
               /\ refused' = refused
            \/ /\ currres'[ProcOf[t]] = None /\ stored'[t] = stored[t]
               /\ currres' = currres /\ refused' = refused \cup {CallOf(t)}
         /\ UNCHANGED <<noRes, missed, valp, res, num, start, events>>
<1> USE DEF callVars
<1>1. CASE Fits(currres, t)
  BY <1>1, ProcType DEF EntryRes, Goto, Stored, TypeOK
<1>2. CASE ~Fits(currres, t)
  BY <1>2, ProcType DEF EntryRes, Goto, Fits, TypeOK
<1> QED
  BY <1>1, <1>2

(* The return looks up start, and ends without it.                         *)
LEMMA ReturnStartEffect ==
  ASSUME TypeOK, NEW t \in Threads, ReturnStart(t)
  PROVE  /\ pc[t] = "inside" /\ valp'[t] = start[ProcOf[t]]
         /\ \/ start[ProcOf[t]] = None /\ pc'[t] = "out"
            \/ start[ProcOf[t]] # None /\ pc'[t] = "ret_res"
         /\ UNCHANGED <<noRes, missed, res, num, stored, start, currres, refused, events>>
BY DEF ReturnStart, Goto, TypeOK, callVars

(* The return looks up currres, and ends without it or without a pointer   *)
(* in it.                                                                  *)
LEMMA ReturnResEffect ==
  ASSUME TypeOK, NEW t \in Threads, ReturnRes(t)
  PROVE  /\ pc[t] = "ret_res" /\ res'[t] = currres[ProcOf[t]]
         /\ \/ currres[ProcOf[t]] \in {None} \cup noRes /\ pc'[t] = "out"
            \/ currres[ProcOf[t]] \notin {None} \cup noRes /\ pc'[t] = "output"
         /\ UNCHANGED <<noRes, missed, valp, num, stored, start, currres, refused, events>>
BY DEF ReturnRes, Goto, TypeOK, callVars

Event(t, h, r) == [by |-> CallOf(t), host |-> h, res |-> r, tracked |-> stored[t] = Both]

(* The output reads through the two pointers found.                        *)
LEMMA OutputEffect ==
  ASSUME TypeOK, NEW t \in Threads, Output(t)
  PROVE  /\ pc[t] = "output" /\ pc'[t] = "delete_start"
         /\ \E h \in Follow(start, t, valp[t]), r \in Follow(currres, t, res[t]) :
              events' = events \cup {Event(t, h, r)}
         /\ UNCHANGED <<noRes, missed, num, stored, start, currres, refused>>
BY DEF Output, Goto, TypeOK, Event, Both, callVars

(* The return deletes the host from start.                                 *)
LEMMA DeleteStartEffect ==
  ASSUME TypeOK, NEW t \in Threads, DeleteStart(t)
  PROVE  /\ pc[t] = "delete_start" /\ pc'[t] = "delete_res" /\ start'[ProcOf[t]] = None
         /\ UNCHANGED <<noRes, missed, valp, res, num, stored, currres, refused, events>>
BY ProcType DEF DeleteStart, Goto, TypeOK, callVars

(* The return deletes the pointer from currres and ends.                   *)
LEMMA DeleteResEffect ==
  ASSUME TypeOK, NEW t \in Threads, DeleteRes(t)
  PROVE  /\ pc[t] = "delete_res" /\ pc'[t] = "out" /\ currres'[ProcOf[t]] = None
         /\ UNCHANGED <<noRes, missed, valp, res, num, stored, start, refused, events>>
BY ProcType DEF DeleteRes, Goto, TypeOK, callVars

(* What a step leaves alone: the other threads, and the entries of other   *)
(* processes.                                                              *)
LEMMA OtherThreads ==
  ASSUME TypeOK, NEW t \in Threads, Step(t), NEW u \in Threads, u # t
  PROVE  /\ pc'[u] = pc[u] /\ num'[u] = num[u] /\ stored'[u] = stored[u]
         /\ valp'[u] = valp[u] /\ res'[u] = res[u]
         /\ ProcOf[u] # ProcOf[t] =>
              start'[ProcOf[u]] = start[ProcOf[u]] /\ currres'[ProcOf[u]] = currres[ProcOf[u]]
<1> USE DEF callVars
<1>1. CASE CallGetaddrinfo(t)
  BY <1>1 DEF CallGetaddrinfo, Goto, TypeOK
<1>2. CASE EntryStart(t)
  BY <1>2, ProcType DEF EntryStart, Goto, Stored, TypeOK
<1>3. CASE EntryRes(t)
  BY <1>3, ProcType DEF EntryRes, Goto, Stored, TypeOK
<1>4. CASE ReturnStart(t)
  BY <1>4 DEF ReturnStart, Goto, TypeOK
<1>5. CASE ReturnRes(t)
  BY <1>5 DEF ReturnRes, Goto, TypeOK
<1>6. CASE Output(t)
  BY <1>6 DEF Output, Goto, TypeOK
<1>7. CASE DeleteStart(t)
  BY <1>7, ProcType DEF DeleteStart, Goto, TypeOK
<1>8. CASE DeleteRes(t)
  BY <1>8, ProcType DEF DeleteRes, Goto, TypeOK
<1>9. CASE ReturnUnhooked(t)
  BY <1>9 DEF ReturnUnhooked, Goto, TypeOK
<1> QED
  BY <1>9, <1>1, <1>2, <1>3, <1>4, <1>5, <1>6, <1>7, <1>8 DEF Step

(* Steps of the programs forget no event and excuse a call for good; the   *)
(* calls newly refused or without a result pointer are the thread's own.   *)
LEMMA SharedState ==
  ASSUME TypeOK, NEW t \in Threads, Step(t)
  PROVE  /\ events \subseteq events' /\ refused \subseteq refused' /\ noRes \subseteq noRes'
         /\ missed \subseteq missed'
         /\ \A c \in (refused' \ refused) \cup (noRes' \ noRes) : c[1] = t
<1> USE DEF callVars, CallOf
<1>1. CASE CallGetaddrinfo(t)
  BY <1>1 DEF CallGetaddrinfo
<1>2. CASE EntryStart(t) \/ EntryRes(t)
  BY <1>2 DEF EntryStart, EntryRes
<1>3. CASE ReturnUnhooked(t) \/ ReturnStart(t) \/ ReturnRes(t)
  BY <1>3 DEF ReturnUnhooked, ReturnStart, ReturnRes
<1>4. CASE Output(t) \/ DeleteStart(t) \/ DeleteRes(t)
  BY <1>4 DEF Output, DeleteStart, DeleteRes
<1> QED
  BY <1>1, <1>2, <1>3, <1>4 DEF Step

(* A read through a pointer to an element finds a call.                    *)
LEMMA FollowType ==
  ASSUME NEW map \in [Procs -> Calls \cup {None}], NEW t \in Threads, NEW found \in Calls
  PROVE  Follow(map, t, found) \subseteq Calls
BY DEF Follow

-----------------------------------------------------------------------------
(* Type correctness                                                        *)

(* A step moves its thread to a position of the program.                   *)
LEMMA GotoType ==
  ASSUME TypeOK, NEW t \in Threads, NEW to \in Pcs, Goto(t, to)
  PROVE  pc' \in [Threads -> Pcs]
BY DEF TypeOK, Goto

(* The maps keep their type when an entry is stored.                       *)
LEMMA StoredType ==
  ASSUME TypeOK, Looked, NEW t \in Threads, pc[t] # "out", NEW map \in [Procs -> Calls \cup {None}]
  PROVE  Stored(map, t) \in [Procs -> Calls \cup {None}]
<1>1. CallOf(t) \in Calls
  BY CallOfType DEF Looked
<1> QED
  BY <1>1 DEF Stored

(* A step of a thread keeps the types.                                     *)
LEMMA TypeStep ==
  ASSUME TypeOK, Looked, NEW t \in Threads, Step(t)
  PROVE  TypeOK'
<1> USE DEF Pcs, callVars
<1>1. CASE CallGetaddrinfo(t)
  <2>1. pc' \in [Threads -> Pcs]
    BY <1>1, GotoType DEF CallGetaddrinfo
  <2>2. num' \in [Threads -> Nat] /\ stored' \in [Threads -> SUBSET {"start", "currres"}]
    BY <1>1 DEF CallGetaddrinfo, TypeOK
  <2>3. hooked' \subseteq Threads /\ noRes' \subseteq Calls
    BY <1>1, <2>2 DEF CallGetaddrinfo, TypeOK, Calls
  <2> QED
    BY <1>1, <2>1, <2>2, <2>3 DEF CallGetaddrinfo, TypeOK
<1>2. CASE EntryStart(t)
  <2>1. pc' \in [Threads -> Pcs]
    BY <1>2, GotoType DEF EntryStart
  <2>2. Stored(start, t) \in [Procs -> Calls \cup {None}]
    BY <1>2, StoredType DEF EntryStart, TypeOK
  <2>0. CallOf(t) \in Calls
    BY <1>2, CallOfType DEF EntryStart, Looked
  <2>3. stored' \in [Threads -> SUBSET {"start", "currres"}] /\ refused' \subseteq Calls
    BY <1>2, <2>0 DEF EntryStart, TypeOK
  <2>4. start' \in [Procs -> Calls \cup {None}]
    BY <1>2, <2>2 DEF EntryStart, TypeOK
  <2> QED
    BY <1>2, <2>1, <2>3, <2>4 DEF EntryStart, TypeOK
<1>3. CASE EntryRes(t)
  <2>1. pc' \in [Threads -> Pcs]
    BY <1>3, GotoType DEF EntryRes
  <2>2. Stored(currres, t) \in [Procs -> Calls \cup {None}]
    BY <1>3, StoredType DEF EntryRes, TypeOK
  <2>0. CallOf(t) \in Calls
    BY <1>3, CallOfType DEF EntryRes, Looked
  <2>3. stored' \in [Threads -> SUBSET {"start", "currres"}] /\ refused' \subseteq Calls
    BY <1>3, <2>0 DEF EntryRes, TypeOK
  <2>4. currres' \in [Procs -> Calls \cup {None}]
    BY <1>3, <2>2 DEF EntryRes, TypeOK
  <2> QED
    BY <1>3, <2>1, <2>3, <2>4 DEF EntryRes, TypeOK
<1>4. CASE ReturnStart(t)
  <2>1. pc' \in [Threads -> Pcs]
    BY <1>4, GotoType DEF ReturnStart
  <2>2. valp' \in [Threads -> Calls \cup {None}]
    BY <1>4, ProcType DEF ReturnStart, TypeOK
  <2> QED
    BY <1>4, <2>1, <2>2 DEF ReturnStart, TypeOK
<1>5. CASE ReturnRes(t)
  <2>1. pc' \in [Threads -> Pcs]
    BY <1>5, GotoType DEF ReturnRes
  <2>2. res' \in [Threads -> Calls \cup {None}]
    BY <1>5, ProcType DEF ReturnRes, TypeOK
  <2> QED
    BY <1>5, <2>1, <2>2 DEF ReturnRes, TypeOK
<1>6. CASE Output(t)
  <2>1. pc' \in [Threads -> Pcs]
    BY <1>6, GotoType DEF Output
  <2>2. CallOf(t) \in Calls /\ valp[t] \in Calls /\ res[t] \in Calls
    BY <1>6, CallOfType, OutputEffect DEF Looked, TypeOK
  <2>3. Follow(start, t, valp[t]) \subseteq Calls /\ Follow(currres, t, res[t]) \subseteq Calls
    BY <2>2, FollowType DEF TypeOK
  <2>4. (stored[t] = Both) \in BOOLEAN
    OBVIOUS
  <2>5. \A h, r \in Calls :
          Event(t, h, r) \in [by : Calls, host : Calls, res : Calls, tracked : BOOLEAN]
    BY <2>2, <2>4 DEF Event
  <2>6. events' \subseteq [by : Calls, host : Calls, res : Calls, tracked : BOOLEAN]
    BY <1>6, <2>3, <2>5, OutputEffect DEF TypeOK
  <2> QED
    BY <1>6, <2>1, <2>6 DEF Output, TypeOK
<1>7. CASE DeleteStart(t)
  <2>1. pc' \in [Threads -> Pcs]
    BY <1>7, GotoType DEF DeleteStart
  <2> QED
    BY <1>7, <2>1 DEF DeleteStart, TypeOK
<1>8. CASE DeleteRes(t)
  <2>1. pc' \in [Threads -> Pcs]
    BY <1>8, GotoType DEF DeleteRes
  <2> QED
    BY <1>8, <2>1 DEF DeleteRes, TypeOK
<1>9. CASE ReturnUnhooked(t)
  <2>1. pc' \in [Threads -> Pcs]
    BY <1>9, GotoType DEF ReturnUnhooked
  <2>2. CallOf(t) \in Calls
    BY <1>9, CallOfType DEF ReturnUnhooked, Looked
  <2> QED
    BY <1>9, <2>1, <2>2 DEF ReturnUnhooked, TypeOK
<1> QED
  BY <1>9, <1>1, <1>2, <1>3, <1>4, <1>5, <1>6, <1>7, <1>8 DEF Step

(* A step keeps Looked: the return program goes on only with what its      *)
(* lookups found.                                                          *)
LEMMA LookedStep ==
  ASSUME TypeOK, Looked, NEW t \in Threads, Step(t)
  PROVE  Looked'
<1> DEFINE L(u) ==
      /\ pc[u] # "out" => num[u] # 0
      /\ pc[u] \in {"ret_res", "output"} => valp[u] # None
      /\ pc[u] = "output" => res[u] # None
<1>1. ASSUME NEW u \in Threads, u # t PROVE L(u)'
  BY <1>1, OtherThreads DEF Looked
<1>2. L(t)
  BY DEF Looked
<1>3. L(t)'
  <2>1. CASE CallGetaddrinfo(t)
    BY <2>1, CallEffect
  <2>2. CASE EntryStart(t)
    BY <1>2, <2>2, EntryStartEffect
  <2>3. CASE EntryRes(t)
    BY <1>2, <2>3, EntryResEffect
  <2>4. CASE ReturnStart(t)
    BY <1>2, <2>4, ReturnStartEffect
  <2>5. CASE ReturnRes(t)
    BY <1>2, <2>5, ReturnResEffect
  <2>6. CASE Output(t)
    BY <1>2, <2>6, OutputEffect
  <2>7. CASE DeleteStart(t)
    BY <1>2, <2>7, DeleteStartEffect
  <2>8. CASE DeleteRes(t)
    BY <2>8, DeleteResEffect
  <2>9. CASE ReturnUnhooked(t)
    BY <2>9, UnhookedEffect
  <2> QED
    BY <2>9, <2>1, <2>2, <2>3, <2>4, <2>5, <2>6, <2>7, <2>8 DEF Step
<1> QED
  BY <1>1, <1>3 DEF Looked

-----------------------------------------------------------------------------
(* A call that stored the host and then the pointer stored both.           *)
LEMMA BothStored ==
  ASSUME TypeOK, NEW t \in Threads, "start" \in stored[t]
  PROVE  stored[t] \cup {"currres"} = Both
BY DEF TypeOK, Both

(* The conjuncts about a process with one thread: no step of another       *)
(* thread concerns it, and its own go through the call in order.           *)

(* A step keeps OwnInv: what a call of a single-threaded process stored    *)
(* stays until the return has used it.                                     *)
LEMMA OwnStep ==
  ASSUME TypeOK, OwnInv, NEW t \in Threads, Step(t)
  PROVE  OwnInv'
<1>1. ASSUME NEW u \in Threads, u # t PROVE Own(u)'
  <2> SUFFICES ASSUME SingleThreaded(ProcOf[u]) PROVE Own(u)'
    BY DEF Own
  <2>1. ProcOf[u] # ProcOf[t] /\ Own(u)
    BY <1>1 DEF SingleThreaded, OwnInv
  <2>2. CallOf(u)' = CallOf(u)
    BY <1>1, OtherThreads DEF CallOf
  <2> QED
    BY <1>1, <2>1, <2>2, OtherThreads, SharedState DEF Own
<1>2. Own(t)'
  <2> SUFFICES ASSUME SingleThreaded(ProcOf[t]) PROVE Own(t)'
    BY DEF Own
  <2>0. Own(t)
    BY DEF OwnInv
  <2>1. CASE CallGetaddrinfo(t)
    BY <2>0, <2>1, CallEffect DEF Own, CallOf
  <2>2. CASE EntryStart(t)
    BY <2>0, <2>2, EntryStartEffect DEF Own, CallOf
  <2>3. CASE EntryRes(t)
    BY <2>0, <2>3, EntryResEffect DEF Own, CallOf
  <2>4. CASE ReturnStart(t)
    BY <2>0, <2>4, ReturnStartEffect DEF Own, CallOf
  <2>5. CASE ReturnRes(t)
    BY <2>0, <2>5, ReturnResEffect DEF Own, CallOf
  <2>6. CASE Output(t)
    BY <2>0, <2>6, OutputEffect DEF Own, CallOf
  <2>7. CASE DeleteStart(t)
    BY <2>0, <2>7, DeleteStartEffect DEF Own, CallOf
  <2>8. CASE DeleteRes(t)
    BY <2>0, <2>8, DeleteResEffect DEF Own, CallOf
  <2>9. CASE ReturnUnhooked(t)
    BY <2>0, <2>9, UnhookedEffect DEF Own, CallOf
  <2> QED
    BY <2>9, <2>1, <2>2, <2>3, <2>4, <2>5, <2>6, <2>7, <2>8 DEF Step
<1> QED
  BY <1>1, <1>2 DEF OwnInv

(* A step keeps Placed.                                                    *)
LEMMA PlacedStep ==
  ASSUME TypeOK, Placed, NEW t \in Threads, Step(t)
  PROVE  Placed'
<1> USE DEF callVars
<1>1. CallOf(t)[1] = t /\ CallOf(t)[2] = num[t] /\ num[t] \in Nat
  BY DEF CallOf, TypeOK
<1>2. \A c \in refused : c[1] \in Threads /\ num[c[1]] \in Nat
  BY DEF TypeOK, Calls
<1>3. CASE CallGetaddrinfo(t)
  <2>1. \A u \in Threads : num[u] <= num'[u]
    BY <1>3 DEF CallGetaddrinfo, TypeOK
  <2>2. \A u \in Threads : num[u] \in Nat /\ num'[u] \in Nat
    BY <1>3 DEF CallGetaddrinfo, TypeOK
  <2>3. \A c \in refused : c[2] \in Nat
    BY DEF TypeOK, Calls
  <2> QED
    BY <1>2, <1>3, <2>1, <2>2, <2>3, CallEffect DEF Placed
<1>4. CASE EntryStart(t)
  <2>1. \A q \in Procs : start'[q] = start[q] \/ (q = ProcOf[t] /\ start'[q] = CallOf(t))
    BY <1>4, ProcType DEF EntryStart, Stored, TypeOK
  <2>2. \A c \in refused' : c \in refused \/ c = CallOf(t)
    BY <1>4 DEF EntryStart
  <2> QED
    BY <1>1, <1>4, <2>1, <2>2, EntryStartEffect DEF Placed
<1>5. CASE EntryRes(t)
  <2>1. \A q \in Procs : currres'[q] = currres[q] \/ (q = ProcOf[t] /\ currres'[q] = CallOf(t))
    BY <1>5, ProcType DEF EntryRes, Stored, TypeOK
  <2>2. \A c \in refused' : c \in refused \/ c = CallOf(t)
    BY <1>5 DEF EntryRes
  <2> QED
    BY <1>1, <1>5, <2>1, <2>2, EntryResEffect DEF Placed
<1>6. CASE ReturnUnhooked(t) \/ ReturnStart(t) \/ ReturnRes(t) \/ Output(t)
  BY <1>6, UnhookedEffect, ReturnStartEffect, ReturnResEffect, OutputEffect DEF Placed
<1>7. CASE DeleteStart(t)
  BY <1>7, DeleteStartEffect DEF DeleteStart, Placed, TypeOK
<1>8. CASE DeleteRes(t)
  BY <1>8, DeleteResEffect DEF DeleteRes, Placed, TypeOK
<1> QED
  BY <1>3, <1>4, <1>5, <1>6, <1>7, <1>8 DEF Step

(* A step of another thread changes nothing about the calls of a process   *)
(* with one thread.                                                        *)
LEMMA ForeignStep ==
  ASSUME TypeOK, Placed, NEW t \in Threads, Step(t), NEW u \in Threads, u # t,
         SingleThreaded(ProcOf[u])
  PROVE  /\ CallOf(u)' = CallOf(u)
         /\ start'[ProcOf[u]] = start[ProcOf[u]] /\ currres'[ProcOf[u]] = currres[ProcOf[u]]
         /\ \A c \in {CallOf(u), start[ProcOf[u]], currres[ProcOf[u]]} \ {None} :
              (c \in refused' <=> c \in refused) /\ (c \in noRes' <=> c \in noRes)
<1>1. ProcOf[u] # ProcOf[t] /\ ProcOf[u] \in Procs
  BY ProcType DEF SingleThreaded
<1>2. ASSUME NEW map \in {start, currres}, map[ProcOf[u]] # None PROVE map[ProcOf[u]][1] = u
  <2>1. map[ProcOf[u]][1] \in Threads /\ ProcOf[map[ProcOf[u]][1]] = ProcOf[u]
    BY <1>1, <1>2 DEF Placed, TypeOK, Calls
  <2> QED
    BY <2>1 DEF SingleThreaded
<1>3. \A c \in {CallOf(u), start[ProcOf[u]], currres[ProcOf[u]]} \ {None} : c[1] = u
  BY <1>2, CallNotNone
<1> QED
  BY <1>1, <1>3, OtherThreads, SharedState DEF CallOf

(* A step keeps MatchedInv: the two entries of a process with one thread   *)
(* are of one call.                                                        *)
LEMMA MatchedStep ==
  ASSUME TypeOK, Placed, OwnInv, MatchedInv, NEW t \in Threads, Step(t)
  PROVE  MatchedInv'
<1>1. ASSUME NEW u \in Threads, u # t PROVE Matched(u)'
  <2> SUFFICES ASSUME SingleThreaded(ProcOf[u]) PROVE Matched(u)'
    BY DEF Matched
  <2>1. Matched(u) /\ CallOf(u) # None
    BY CallNotNone DEF MatchedInv
  <2> QED
    BY <1>1, <2>1, OtherThreads, ForeignStep DEF Matched
<1>2. Matched(t)'
  <2> SUFFICES ASSUME SingleThreaded(ProcOf[t]) PROVE Matched(t)'
    BY DEF Matched
  <2>0. Matched(t) /\ Own(t)
    BY DEF MatchedInv, OwnInv
  <2>1. CASE CallGetaddrinfo(t)
    <3>1. CallOf(t)' \notin refused
      <4>1. CallOf(t)'[1] = t /\ CallOf(t)'[2] = num[t] + 1 /\ num[t] \in Nat
        BY <2>1, CallEffect DEF CallOf, TypeOK
      <4> QED
        BY <4>1 DEF Placed
    <3> QED
      BY <2>0, <2>1, <3>1, CallEffect DEF Matched
  <2>2. CASE EntryStart(t)
    BY <2>0, <2>2, EntryStartEffect DEF Matched, Own, CallOf
  <2>3. CASE EntryRes(t)
    <3>1. CASE "start" \in stored[t]
      <4>1. start[ProcOf[t]] = CallOf(t) /\ CallOf(t) \notin refused /\ "currres" \notin stored[t]
        BY <2>0, <2>3, <3>1, EntryResEffect DEF Own, Matched
      <4>2. pc'[t] = "inside" /\ start'[ProcOf[t]] = CallOf(t) /\ CallOf(t)' = CallOf(t)
        BY <2>3, <4>1, EntryResEffect DEF CallOf
      <4>3. CASE /\ currres'[ProcOf[t]] = CallOf(t) /\ refused' = refused
                 /\ stored'[t] = stored[t] \cup {"currres"}
        <5>1. stored'[t] = Both
          BY <3>1, <4>3, BothStored
        <5> QED
          BY <4>1, <4>2, <4>3, <5>1 DEF Matched
      <4>4. CASE currres'[ProcOf[t]] = None /\ refused' = refused \cup {CallOf(t)}
        BY <4>2, <4>4 DEF Matched
      <4> QED
        BY <2>3, <4>3, <4>4, EntryResEffect
    <3>2. CASE "start" \notin stored[t]
      <4>1. start[ProcOf[t]] = None /\ CallOf(t) \in refused
        BY <2>0, <2>3, <3>2, EntryResEffect DEF Matched
      <4> QED
        BY <2>3, <4>1, EntryResEffect DEF Matched, CallOf
    <3> QED
      BY <3>1, <3>2
  <2>4. CASE ReturnStart(t)
    BY <2>0, <2>4, ReturnStartEffect DEF Matched, CallOf
  <2>5. CASE ReturnRes(t)
    BY <2>0, <2>5, ReturnResEffect DEF Matched, CallOf
  <2>6. CASE Output(t)
    BY <2>0, <2>6, OutputEffect DEF Matched, CallOf
  <2>7. CASE DeleteStart(t)
    BY <2>0, <2>7, DeleteStartEffect DEF Matched, CallOf
  <2>8. CASE DeleteRes(t)
    BY <2>0, <2>8, DeleteResEffect DEF Matched, CallOf
  <2>9. CASE ReturnUnhooked(t)
    BY <2>0, <2>9, UnhookedEffect DEF Matched, CallOf
  <2> QED
    BY <2>1, <2>2, <2>3, <2>4, <2>5, <2>6, <2>7, <2>8, <2>9 DEF Step
<1> QED
  BY <1>1, <1>2 DEF MatchedInv

(* A step keeps LeftInv: what a call leaves behind is excused.             *)
LEMMA LeftStep ==
  ASSUME TypeOK, OwnInv, MatchedInv, LeftInv, NEW t \in Threads, Step(t)
  PROVE  LeftInv'
<1>0. \A c : Excused(c) => Excused(c)'
  BY SharedState DEF Excused
<1>1. ASSUME NEW u \in Threads, u # t PROVE Left(u)'
  <2> SUFFICES ASSUME SingleThreaded(ProcOf[u]) PROVE Left(u)'
    BY DEF Left
  <2>1. ProcOf[u] # ProcOf[t] /\ Left(u)
    BY <1>1 DEF SingleThreaded, LeftInv
  <2>2. /\ start'[ProcOf[u]] = start[ProcOf[u]] /\ currres'[ProcOf[u]] = currres[ProcOf[u]]
        /\ pc'[u] = pc[u] /\ stored'[u] = stored[u]
    BY <1>1, <2>1, OtherThreads
  <2>3. /\ Excused(start[ProcOf[u]]) => Excused(start[ProcOf[u]])'
        /\ Excused(currres[ProcOf[u]]) => Excused(currres[ProcOf[u]])'
    BY <2>2, SharedState DEF Excused
  <2> QED
    BY <2>1, <2>2, <2>3 DEF Left
<1>2. Left(t)'
  <2> SUFFICES ASSUME SingleThreaded(ProcOf[t]) PROVE Left(t)'
    BY DEF Left
  <2>0. Left(t) /\ Matched(t) /\ Own(t)
    BY DEF LeftInv, MatchedInv, OwnInv
  <2> USE DEF Excused
  <2>1. CASE CallGetaddrinfo(t)
    BY <2>0, <2>1, CallEffect DEF Left
  <2>2. CASE EntryStart(t)
    BY <2>0, <2>2, EntryStartEffect DEF Left
  <2>3. CASE EntryRes(t)
    BY <2>0, <2>3, EntryResEffect DEF Left
  <2>4. CASE ReturnStart(t)
    <3>1. start[ProcOf[t]] = None /\ "currres" \in stored[t] => currres[ProcOf[t]] \in refused
      <4>1. start[ProcOf[t]] = None => "start" \notin stored[t]
        BY <2>0, <2>4, ReturnStartEffect, CallNotNone DEF Own
      <4>2. "currres" \in stored[t] => currres[ProcOf[t]] = CallOf(t)
        BY <2>0, <2>4, ReturnStartEffect DEF Own
      <4> QED
        BY <2>0, <2>4, <4>1, <4>2, ReturnStartEffect DEF Matched, Both
    <3> QED
      BY <2>0, <2>4, <3>1, ReturnStartEffect DEF Left
  <2>5. CASE ReturnRes(t)
    <3>1. currres[ProcOf[t]] = None /\ "start" \in stored[t] => start[ProcOf[t]] \in refused
      <4>1. currres[ProcOf[t]] = None => "currres" \notin stored[t]
        BY <2>0, <2>5, ReturnResEffect, CallNotNone DEF Own
      <4>2. "start" \in stored[t] => start[ProcOf[t]] = CallOf(t)
        BY <2>0, <2>5, ReturnResEffect DEF Own
      <4> QED
        BY <2>0, <2>5, <4>1, <4>2, ReturnResEffect DEF Matched, Both
    <3>2. currres[ProcOf[t]] \in noRes /\ currres[ProcOf[t]] # None =>
            start[ProcOf[t]] \in {None, currres[ProcOf[t]]}
      BY <2>0, <2>5, ReturnResEffect DEF Matched
    <3> QED
      BY <2>0, <2>5, <3>1, <3>2, ReturnResEffect DEF Left
  <2>6. CASE Output(t)
    BY <2>0, <2>6, OutputEffect DEF Left
  <2>7. CASE DeleteStart(t)
    BY <2>0, <2>7, DeleteStartEffect DEF Left
  <2>8. CASE DeleteRes(t)
    BY <2>0, <2>8, DeleteResEffect DEF Left, Matched
  <2>9. CASE ReturnUnhooked(t)
    BY <2>0, <2>9, UnhookedEffect DEF Left, Own
  <2> QED
    BY <2>1, <2>2, <2>3, <2>4, <2>5, <2>6, <2>7, <2>8, <2>9 DEF Step
<1> QED
  BY <1>1, <1>2 DEF LeftInv

(* A step keeps ReportedInv: a call that stored both has its event when it *)
(* deletes them.                                                           *)
LEMMA ReportedStep ==
  ASSUME TypeOK, OwnInv, ReportedInv, NEW t \in Threads, Step(t)
  PROVE  ReportedInv'
<1>1. ASSUME NEW u \in Threads, u # t PROVE Reported(u)'
  <2>1. CallOf(u)' = CallOf(u) /\ Reported(u) /\ pc'[u] = pc[u] /\ stored'[u] = stored[u]
    BY <1>1, OtherThreads DEF CallOf, ReportedInv
  <2>2. events \subseteq events' /\ noRes \subseteq noRes' /\ missed \subseteq missed'
    BY SharedState
  <2> QED
    BY <2>1, <2>2 DEF Reported
<1>2. Reported(t)'
  <2> SUFFICES ASSUME SingleThreaded(ProcOf[t]) PROVE Reported(t)'
    BY DEF Reported
  <2>0. Reported(t) /\ Own(t) /\ CallOf(t) # None
    BY CallNotNone DEF ReportedInv, OwnInv
  <2>1. CASE CallGetaddrinfo(t)
    BY <2>1, CallEffect DEF Reported
  <2>2. CASE EntryStart(t)
    BY <2>2, EntryStartEffect DEF Reported
  <2>3. CASE EntryRes(t)
    BY <2>3, EntryResEffect DEF Reported
  <2>4. CASE ReturnStart(t)
    BY <2>0, <2>4, ReturnStartEffect DEF Reported, Own, Both
  <2>5. CASE ReturnRes(t)
    <3>1. CallOf(t)' = CallOf(t)
      BY <2>5, ReturnResEffect DEF CallOf
    <3>2. stored[t] = Both /\ pc'[t] = "out" => CallOf(t) \in noRes
      BY <2>0, <2>5, ReturnResEffect DEF Own, Both
    <3> QED
      BY <2>5, <3>1, <3>2, ReturnResEffect DEF Reported
  <2>6. CASE Output(t)
    <3>1. PICK h, r : events' = events \cup {Event(t, h, r)}
      BY <2>6, OutputEffect
    <3>2. Event(t, h, r) \in events' /\ Event(t, h, r).by = CallOf(t)
      BY <3>1 DEF Event
    <3>3. CallOf(t)' = CallOf(t)
      BY <2>6, OutputEffect DEF CallOf
    <3> QED
      BY <3>2, <3>3 DEF Reported
  <2>7. CASE DeleteStart(t)
    BY <2>0, <2>7, DeleteStartEffect DEF Reported, CallOf
  <2>8. CASE DeleteRes(t)
    BY <2>0, <2>8, DeleteResEffect DEF Reported, CallOf
  <2>9. CASE ReturnUnhooked(t)
    BY <2>9, UnhookedEffect DEF Reported, CallOf
  <2> QED
    BY <2>1, <2>2, <2>3, <2>4, <2>5, <2>6, <2>7, <2>8, <2>9 DEF Step
<1> QED
  BY <1>1, <1>2 DEF ReportedInv

-----------------------------------------------------------------------------
(* The events                                                              *)

(* What a single-threaded process outputs tells of one call: the tracked   *)
(* one that returns, or one that was missed.                               *)
LEMMA OutputPaired ==
  ASSUME TypeOK, Looked, OwnInv, MatchedInv, LeftInv, NEW t \in Threads, Output(t),
         SingleThreaded(ProcOf[t])
  PROVE  \E e : /\ events' = events \cup {e} /\ e.by = CallOf(t) /\ e.host = e.res
                /\ e.tracked => Paired(e)
                /\ ~e.tracked => e.host \in missed
<1>1. PICK h \in Follow(start, t, valp[t]), r \in Follow(currres, t, res[t]) :
        events' = events \cup {Event(t, h, r)}
  BY OutputEffect
<1>2. Own(t) /\ Matched(t) /\ Left(t) /\ pc[t] = "output"
  BY OutputEffect DEF OwnInv, MatchedInv, LeftInv
<1>3. /\ valp[t] = start[ProcOf[t]] /\ valp[t] # None
      /\ res[t] = currres[ProcOf[t]] /\ res[t] # None
  BY <1>2 DEF Own, Looked
<1>4. h = start[ProcOf[t]] /\ r = currres[ProcOf[t]]
  BY <1>3 DEF Follow
<1>5. h = r /\ h \notin {None} \cup noRes \cup refused
  BY <1>2, <1>3, <1>4 DEF Matched
<1>6. stored[t] = Both => h = CallOf(t)
  BY <1>2, <1>4 DEF Own, Both
<1>7. stored[t] # Both => h \in missed
  <2> SUFFICES ASSUME stored[t] # Both PROVE h \in missed
    OBVIOUS
  <2>1. stored[t] = {}
    BY <1>2, <1>3 DEF Matched
  <2> QED
    BY <1>2, <1>4, <1>5, <2>1 DEF Left, Excused
<1>8. /\ Event(t, h, r).by = CallOf(t) /\ Event(t, h, r).host = h /\ Event(t, h, r).res = r
      /\ Event(t, h, r).tracked <=> stored[t] = Both
  BY DEF Event
<1> QED
  BY <1>1, <1>5, <1>6, <1>7, <1>8 DEF Paired

(* Every step keeps what is claimed of the events.                         *)
LEMMA EventsStep ==
  ASSUME TypeOK, Looked, OwnInv, MatchedInv, LeftInv, TrackedCallPaired, UntrackedEventStale,
         NEW t \in Threads, Step(t)
  PROVE  TrackedCallPaired' /\ UntrackedEventStale'
<1>0. missed \subseteq missed'
  BY SharedState
<1>1. CASE Output(t)
  <2>2. CASE SingleThreaded(ProcOf[t])
    <3>1. PICK e : /\ events' = events \cup {e} /\ e.by = CallOf(t) /\ e.host = e.res
                   /\ e.tracked => Paired(e)
                   /\ ~e.tracked => e.host \in missed
      BY <1>1, <2>2, OutputPaired
    <3> QED
      BY <1>0, <3>1 DEF TrackedCallPaired, UntrackedEventStale, Paired
  <2>3. CASE ~SingleThreaded(ProcOf[t])
    <3>1. PICK h, r : events' = events \cup {Event(t, h, r)}
      BY <1>1, OutputEffect
    <3>2. Event(t, h, r).by[1] = t
      BY CallNotNone DEF Event
    <3> QED
      BY <1>0, <2>3, <3>1, <3>2 DEF TrackedCallPaired, UntrackedEventStale, Paired
  <2> QED
    BY <2>2, <2>3
<1>2. CASE ~Output(t)
  <2>1. events' = events
    BY <1>2 DEF Step, CallGetaddrinfo, ReturnUnhooked, EntryStart, EntryRes, ReturnStart,
                ReturnRes, DeleteStart, DeleteRes
  <2> QED
    BY <1>0, <2>1 DEF TrackedCallPaired, UntrackedEventStale, Paired
<1> QED
  BY <1>1, <1>2

-----------------------------------------------------------------------------
(* The theorems                                                            *)

(* The inductive invariant holds in the first state.                       *)
LEMMA InitIInv == Init => IInv
<1> SUFFICES ASSUME Init PROVE IInv
  OBVIOUS
<1>1. TypeOK
  BY DnsAssumption DEF Init, TypeOK, Pcs
<1>2. Looked /\ OwnInv /\ Placed
  BY DEF Init, Looked, OwnInv, Own, Placed
<1>3. MatchedInv /\ LeftInv
  BY ProcType DEF Init, MatchedInv, Matched, LeftInv, Left, Excused
<1>4. ReportedInv
  BY DEF Init, ReportedInv, Reported, Both
<1>5. TrackedCallPaired /\ UntrackedEventStale
  BY DEF Init, TrackedCallPaired, UntrackedEventStale
<1> QED
  BY <1>1, <1>2, <1>3, <1>4, <1>5 DEF IInv

(* A kill takes the threads of a process out of their calls and counts     *)
(* these as missed.                                                        *)
LEMMA KillIInv ==
  ASSUME IInv, NEW p \in Procs, Kill(p)
  PROVE  IInv'
<1> USE DEF callVars
<1>1. /\ kills' \in 0 .. MaxKills /\ missed \subseteq missed'
      /\ UNCHANGED <<attached, hooked, noRes, num, valp, res, stored, start, currres, refused,
                     events>>
  BY DnsAssumption DEF Kill, IInv, TypeOK
<1>2. ASSUME NEW t \in Threads
      PROVE  \/ pc'[t] = pc[t]
             \/ pc[t] = "inside" /\ pc'[t] = "out" /\ CallOf(t) \in missed'
  BY DEF Kill, IInv, TypeOK
<1>3. pc' \in [Threads -> Pcs]
  BY DEF Kill, IInv, TypeOK, Pcs
<1>4. TypeOK'
  <2>1. \A t \in Threads : pc[t] = "inside" => CallOf(t) \in Calls
    BY CallOfType DEF IInv, Looked
  <2>2. missed' \subseteq Calls
    BY <2>1 DEF Kill, IInv, TypeOK
  <2> QED
    BY <1>1, <1>3, <2>2 DEF IInv, TypeOK
<1>5. Looked' /\ Placed'
  BY <1>1, <1>2 DEF IInv, Looked, Placed
<1>6. OwnInv'
  BY <1>1, <1>2 DEF IInv, OwnInv, Own, CallOf
<1>7. \A t \in Threads : CallOf(t)' = CallOf(t)
  BY <1>1 DEF CallOf
<1>8. MatchedInv'
  <2> SUFFICES ASSUME NEW t \in Threads PROVE Matched(t)'
    BY DEF MatchedInv
  <2>1. Matched(t)
    BY DEF IInv, MatchedInv
  <2> QED
    BY <1>1, <1>2, <1>7, <2>1 DEF Matched
<1>9. LeftInv'
  <2> SUFFICES ASSUME NEW t \in Threads, SingleThreaded(ProcOf[t]) PROVE Left(t)'
    BY DEF LeftInv, Left
  <2>1. Left(t) /\ Own(t)
    BY DEF IInv, LeftInv, OwnInv
  <2>2. CASE pc'[t] = pc[t]
    BY <1>1, <2>1, <2>2 DEF Left, Excused
  <2>3. CASE pc[t] = "inside" /\ pc'[t] = "out" /\ CallOf(t) \in missed'
    BY <1>1, <2>1, <2>3 DEF Left, Own, Excused
  <2> QED
    BY <1>2, <2>2, <2>3
<1>10. ReportedInv'
  <2> SUFFICES ASSUME NEW t \in Threads PROVE Reported(t)'
    BY DEF ReportedInv
  <2>1. Reported(t)
    BY DEF IInv, ReportedInv
  <2> QED
    BY <1>1, <1>2, <1>7, <2>1 DEF Reported
<1>11. TrackedCallPaired' /\ UntrackedEventStale'
  BY <1>1 DEF IInv, TrackedCallPaired, UntrackedEventStale, Paired
<1> QED
  BY <1>4, <1>5, <1>6, <1>8, <1>9, <1>10, <1>11 DEF IInv

(* The invariant speaks of neither the attached probes nor the hooked      *)
(* returns, except for their types.                                        *)
LEMMA AttachIInv ==
  ASSUME IInv, attached' \subseteq {"entry", "return"},
         UNCHANGED <<probeVars, hooked, noRes, num, stored, start, currres, refused, missed,
                     kills, events>>
  PROVE  IInv'
<1> USE DEF probeVars
<1>1. TypeOK' /\ Looked' /\ Placed'
  BY DEF IInv, TypeOK, Looked, Placed
<1>2. OwnInv' /\ MatchedInv'
  BY DEF IInv, OwnInv, Own, MatchedInv, Matched, CallOf
<1>3. ReportedInv' /\ LeftInv'
  BY DEF IInv, ReportedInv, Reported, LeftInv, Left, Excused, CallOf
<1>4. TrackedCallPaired' /\ UntrackedEventStale'
  BY DEF IInv, TrackedCallPaired, UntrackedEventStale, Paired
<1> QED
  BY <1>1, <1>2, <1>3, <1>4 DEF IInv

(* Every step keeps the inductive invariant.                               *)
LEMMA NextIInv == IInv /\ [Next]_vars => IInv'
<1> SUFFICES ASSUME IInv, [Next]_vars PROVE IInv'
  OBVIOUS
<1>1. ASSUME NEW t \in Threads, Step(t) PROVE IInv'
  <2>1. TypeOK' /\ Looked' /\ Placed' /\ OwnInv'
    BY <1>1, TypeStep, LookedStep, PlacedStep, OwnStep DEF IInv
  <2>2. MatchedInv' /\ ReportedInv' /\ LeftInv'
    BY <1>1, MatchedStep, ReportedStep, LeftStep DEF IInv
  <2>3. TrackedCallPaired' /\ UntrackedEventStale'
    BY <1>1, EventsStep DEF IInv
  <2> QED
    BY <2>1, <2>2, <2>3 DEF IInv
<1>2. ASSUME NEW p \in Procs, Kill(p) PROVE IInv'
  BY <1>2, KillIInv
<1>3. ASSUME NEW probe \in {"entry", "return"}, Attach(probe) PROVE IInv'
  BY <1>3, AttachIInv DEF Attach, IInv, TypeOK
<1>4. CASE UNCHANGED vars
  BY <1>4, AttachIInv DEF vars, callVars, IInv, TypeOK
<1> QED
  BY <1>1, <1>2, <1>3, <1>4 DEF Next, Step, Quiet

(* The inductive invariant holds in every reachable state.                 *)
LEMMA Invariant == Spec => []IInv
BY InitIInv, NextIInv, PTL DEF Spec

(* The types of the state, with any number of threads in a process: no     *)
(* pointer that a lookup did not find is followed.                         *)
THEOREM TypeCorrect == Spec => []TypeOK
<1>1. IInv => TypeOK
  BY DEF IInv
<1> QED
  BY <1>1, Invariant, PTL

(* In a process with one thread the event of a stored call has the host    *)
(* and the result of that call, whatever other processes do, whatever the  *)
(* maps refuse, whoever is killed and whenever the probes are attached.    *)
THEOREM TrackedCallsPaired == Spec => []TrackedCallPaired
<1>1. IInv => TrackedCallPaired
  BY DEF IInv
<1> QED
  BY <1>1, Invariant, PTL

(* Such a process has no event that mixes two calls, and one that is       *)
(* output for a call that was not stored tells of a call whose return the  *)
(* probe has missed.                                                       *)
THEOREM UntrackedEventsStale == Spec => []UntrackedEventStale
<1>1. IInv => UntrackedEventStale
  BY DEF IInv
<1> QED
  BY <1>1, Invariant, PTL

(* Such a process has every stored call reported when it returns from      *)
(* getaddrinfo, unless its result pointer was NULL or the return probe     *)
(* missed it.                                                              *)
THEOREM TrackedCallsReported == Spec => []TrackedCallReported
<1>1. IInv => TrackedCallReported
  BY DEF IInv, ReportedInv, Reported, Both, TrackedCallReported
<1> QED
  BY <1>1, Invariant, PTL

(* Such a process has no entry left in a map when it is in no call, but of *)
(* calls that a map refused, that had a NULL result pointer or that the    *)
(* return probe missed.                                                    *)
THEOREM EntriesCleared == Spec => []EntriesEndWithCall
<1>1. IInv => EntriesEndWithCall
  BY DEF IInv, LeftInv, Left, Excused, EntriesEndWithCall
<1> QED
  BY <1>1, Invariant, PTL

=============================================================================

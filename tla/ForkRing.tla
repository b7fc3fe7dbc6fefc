------------------------------ MODULE ForkRing ------------------------------
(***************************************************************************)
(* kretprobe_copy_process and the ring buffer ringbuf_proc.  On every CPU  *)
(* the program may run at the same time as on the others: it reserves a    *)
(* record, fills it in place and submits it.  The reader takes the records *)
(* in the order in which they were reserved and waits at one that is not   *)
(* submitted yet.  The memory of the ring is used again and never cleared. *)
(*                                                                         *)
(* A run of the program is its number, in the order of the reservations; a *)
(* field of a record is the number of the run it tells of, 0 if it has     *)
(* only zeros, and Stale if it has bytes of a record that was there before.*)
(***************************************************************************)
EXTENDS Integers, Sequences

CONSTANTS
  CPUs,
  Capacity,   \* records for which the ring has place
  MaxForks    \* bound: runs of the program

ASSUME RingAssumption == Capacity \in Nat \ {0} /\ MaxForks \in Nat

VARIABLES
  forks,      \* runs of the program so far
  failed,     \* the runs after a copy_process that returned an error
  accepted,   \* the runs that found a place, in order
  pc,         \* where a CPU is in the program
  pos,        \* the position of its record in that order
  cons,       \* the records read and given back
  ring,       \* the records
  sample,     \* the copy that the reader has made of a record
  log         \* the records that the reader has handed on

kernelVars == <<forks, failed, accepted, pc, pos>>
vars == <<kernelVars, cons, ring, sample, log>>

Runs == 1 .. MaxForks
Stale == -1
None == <<>>
Cells == 0 .. Capacity - 1

(* Positions, the producer's and the consumer's, count records.            *)
prod == Len(accepted)

(* A record: the mark in its header, the fields that are written first and *)
(* last, and what is written in part or not at all: cwd_level and the end  *)
(* of cmdline.                                                             *)
Zeros == [busy |-> FALSE, type |-> 0, child |-> 0, parents |-> 0, cwd_level |-> 0]

Init ==
  /\ forks = 0
  /\ failed = {}
  /\ accepted = <<>>
  /\ pc = [c \in CPUs |-> "out"]
  /\ pos = [c \in CPUs |-> 1]
  /\ cons = 0
  /\ ring = [k \in Cells |-> Zeros]
  /\ sample = None
  /\ log = <<>>

-----------------------------------------------------------------------------
(* kretprobe_copy_process                                                  *)

Goto(c, to) == pc' = [pc EXCEPT ![c] = to]

Cell(p) == (p - 1) % Capacity

HasPlace == prod - cons < Capacity

(* A record that is reserved has the busy mark, and otherwise the bytes    *)
(* that were there.                                                        *)
Reserved(r) == [r EXCEPT !.busy = TRUE, !.cwd_level = IF r.type = 0 THEN 0 ELSE Stale]

(* copy_process returns, with a task or an error pointer, and the program  *)
(* reserves a record or returns.                                           *)
Reserve(c) ==
  /\ pc[c] = "out"
  /\ forks < MaxForks
  /\ forks' = forks + 1
  /\ failed' \in {failed, failed \cup {forks + 1}}
  /\ IF HasPlace
     THEN /\ accepted' = Append(accepted, forks + 1)
          /\ pos' = [pos EXCEPT ![c] = prod + 1]
          /\ ring' = [ring EXCEPT ![Cell(prod + 1)] = Reserved(@)]
          /\ Goto(c, "task")
     ELSE UNCHANGED <<accepted, pos, ring, pc>>
  /\ UNCHANGED <<cons, sample, log>>

(* What is read through the task: zeros through an error pointer.          *)
FromTask(n) == IF n \in failed THEN 0 ELSE n

(* Faulty variant: the record is submitted before it is filled.            *)
FillTaskSubmits(c) ==
  /\ pc[c] = "task"
  /\ ring' = [ring EXCEPT ![Cell(pos[c])].child = FromTask(accepted[pos[c]]),
                           ![Cell(pos[c])].type = 1,
                           ![Cell(pos[c])].busy = FALSE]
  /\ Goto(c, "parents")
  /\ UNCHANGED <<forks, failed, accepted, pos, cons, sample, log>>

FillTask(c) ==
  /\ pc[c] = "task"
  /\ ring' = [ring EXCEPT ![Cell(pos[c])].child = FromTask(accepted[pos[c]]),
                           ![Cell(pos[c])].type = 1]
  /\ Goto(c, "parents")
  /\ UNCHANGED <<forks, failed, accepted, pos, cons, sample, log>>

(* Faulty variant: when the task cannot be read, return.                   *)
FillParentsReturns(c) ==
  /\ pc[c] = "parents"
  /\ ring' = [ring EXCEPT ![Cell(pos[c])].parents = FromTask(accepted[pos[c]])]
  /\ Goto(c, IF accepted[pos[c]] \in failed THEN "out" ELSE "submit")
  /\ UNCHANGED <<forks, failed, accepted, pos, cons, sample, log>>

FillParents(c) ==
  /\ pc[c] = "parents"
  /\ ring' = [ring EXCEPT ![Cell(pos[c])].parents = FromTask(accepted[pos[c]])]
  /\ Goto(c, "submit")
  /\ UNCHANGED <<forks, failed, accepted, pos, cons, sample, log>>

Submit(c) ==
  /\ pc[c] = "submit"
  /\ ring' = [ring EXCEPT ![Cell(pos[c])].busy = FALSE]
  /\ Goto(c, "out")
  /\ UNCHANGED <<forks, failed, accepted, pos, cons, sample, log>>

-----------------------------------------------------------------------------
(* The reader of the ring (external), called by ringbufEventReader         *)

(* Faulty variant: nobody looks where the records end.                     *)
ReadCopyPast ==
  /\ sample = None
  /\ cons < MaxForks
  /\ ~ring[Cell(cons + 1)].busy
  /\ sample' = ring[Cell(cons + 1)]
  /\ UNCHANGED <<kernelVars, cons, ring, log>>

(* It copies the next record, unless that is busy.                         *)
ReadCopy ==
  /\ sample = None
  /\ cons < prod
  /\ ~ring[Cell(cons + 1)].busy
  /\ sample' = ring[Cell(cons + 1)]
  /\ UNCHANGED <<kernelVars, cons, ring, log>>

(* It gives the place back and hands the copy on.                          *)
ReadDone ==
  /\ sample # None
  /\ cons' = cons + 1
  /\ log' = Append(log, sample)
  /\ sample' = None
  /\ UNCHANGED <<kernelVars, ring>>

(* The bound on the runs is reached and no program runs.                   *)
Quiet ==
  /\ forks = MaxForks
  /\ \A c \in CPUs : pc[c] = "out"
  /\ UNCHANGED vars

Program(c) == FillTask(c) \/ FillParents(c) \/ Submit(c)
Read == ReadCopy \/ ReadDone

Next == (\E c \in CPUs : Reserve(c) \/ Program(c)) \/ Read \/ Quiet

Spec == Init /\ [][Next]_vars

(* A program that has begun runs to its end, and the reader keeps reading. *)
FairSpec == Spec /\ (\A c \in CPUs : WF_vars(Program(c))) /\ WF_vars(Read)

-----------------------------------------------------------------------------
(* Properties                                                              *)

(* The types of the state.                                                 *)
Fields == [busy : BOOLEAN, type : {0, 1}, child : 0 .. MaxForks, parents : 0 .. MaxForks,
           cwd_level : {0, Stale}]

TypeOK ==
  /\ forks \in 0 .. MaxForks
  /\ failed \subseteq 1 .. forks
  /\ accepted \in Seq(1 .. forks)
  /\ pc \in [CPUs -> {"out", "task", "parents", "submit"}]
  /\ pos \in [CPUs -> Nat \ {0}]
  /\ cons \in 0 .. prod
  /\ ring \in [Cells -> Fields]
  /\ sample \in Fields \cup {None}
  /\ log \in Seq(Fields)

(* Every record that reaches the decoder is whole and of one run: both     *)
(* halves are those of the run that reserved the record in that place of   *)
(* the order, also when programs of several CPUs overlap, overtake each    *)
(* other or reuse the place of an old record, and a failed copy_process    *)
(* gives a record of zeros.                                                *)
RecordsWhole ==
  \A i \in DOMAIN log :
    /\ i \in DOMAIN accepted
    /\ log[i].child = FromTask(accepted[i])
    /\ log[i].parents = FromTask(accepted[i])

(* What has become of the n-th run, in the terms of LossyStream.  It is    *)
(* reported by a record in its place of the order that holds all of it; if *)
(* another record was handed on there it is "garbled", which is no fate of *)
(* a LossyStream.                                                          *)
Told(n) ==
  \E i \in DOMAIN log :
    /\ i \in DOMAIN accepted /\ accepted[i] = n
    /\ log[i].child = FromTask(n) /\ log[i].parents = FromTask(n)

Fate(n) ==
  IF n > forks THEN "none"
  ELSE IF \A i \in DOMAIN accepted : accepted[i] # n THEN "lost"
  ELSE IF \E i \in 1 .. cons : accepted[i] = n
       THEN IF Told(n) THEN "reported" ELSE "garbled"
       ELSE "flight"

Stream ==
  INSTANCE LossyStream
  WITH Maps <- {"ringbuf_proc"}, MaxSamples <- MaxForks,
       fate <- [q \in {"ringbuf_proc"} |-> [n \in Runs |-> Fate(n)]], closed <- {}

(* The ring buffer implements a LossyStream that is never closed: with     *)
(* programs on several CPUs, a run that got a record when it reserved is   *)
(* reported exactly once, by its own data and in the order of the          *)
(* reservations, although the records are filled and submitted in any      *)
(* order.  A run that finds the ring full is lost.                         *)
ImplementsStream == Stream!Spec

(* Every record that was reserved is read at last: no record stays behind  *)
(* a busy one for ever.                                                    *)
ReservedIsRead == \A n \in Runs : Fate(n) = "flight" ~> Fate(n) = "reported"
=============================================================================

--------------------------- MODULE ForkRingProofs ---------------------------
(***************************************************************************)
(* Proofs about ForkRing, for any CPUs, any capacity of the ring and any   *)
(* number of runs of the program.                                          *)
(***************************************************************************)
EXTENDS ForkRing, TLAPS

(* The positions of the records that are not given back yet.               *)
Window == cons + 1 .. prod

Holds(r, n) == r.child = FromTask(n) /\ r.parents = FromTask(n)

(* The ring never has more records than cells, and the runs are accepted   *)
(* in their order.                                                         *)
Bounded == prod - cons <= Capacity

Ordered == \A i, j \in 1 .. prod : i < j => accepted[i] < accepted[j]

(* A program has a record of its own, busy and written as far as it is.    *)
Owned ==
  \A c \in CPUs :
    pc[c] # "out" =>
      /\ pos[c] \in Window
      /\ ring[Cell(pos[c])].busy = TRUE
      /\ pc[c] \in {"parents", "submit"} =>
           ring[Cell(pos[c])].child = FromTask(accepted[pos[c]])
      /\ pc[c] = "submit" => ring[Cell(pos[c])].parents = FromTask(accepted[pos[c]])

Apart ==
  \A c, d \in CPUs : c # d /\ pc[c] # "out" /\ pc[d] # "out" => pos[c] # pos[d]

(* A record that is not busy is whole.                                     *)
Whole ==
  \A p \in Window : ring[Cell(p)].busy = FALSE => Holds(ring[Cell(p)], accepted[p])

(* The copy is the one of the oldest record.                               *)
Copied ==
  sample # None =>
    /\ cons < prod
    /\ ring[Cell(cons + 1)].busy = FALSE
    /\ Holds(sample, accepted[cons + 1])

Logged == Len(log) = cons /\ \A i \in 1 .. cons : Holds(log[i], accepted[i])

IInv == TypeOK /\ Bounded /\ Ordered /\ Owned /\ Apart /\ Whole /\ Copied /\ Logged

-----------------------------------------------------------------------------
(* Two records of the window are in different cells.                       *)
LEMMA CellsDiffer ==
  ASSUME NEW K \in Nat \ {0}, NEW a \in Int, NEW b \in Int, a < b, b - a < K
  PROVE  a % K # b % K
<1> SUFFICES ASSUME a % K = b % K PROVE FALSE
  OBVIOUS
<1>1. a = K * (a \div K) + (a % K) /\ b = K * (b \div K) + (b % K)
  OBVIOUS
<1> DEFINE x == a \div K
           y == b \div K
<1>2. x \in Int /\ y \in Int
  OBVIOUS
<1> HIDE DEF x, y
<1>3. b - a = K * y - K * x
  BY <1>1, <1>2 DEF x, y
<1>4. K * y - K * x = K * (y - x)
  BY <1>2
<1>5. CASE y - x >= 1
  <2>1. K * (y - x) >= K
    BY <1>2, <1>5
  <2> QED
    BY <1>2, <1>3, <1>4, <2>1
<1>6. CASE y - x <= 0
  <2>1. K * (y - x) <= 0
    BY <1>2, <1>6
  <2> QED
    BY <1>2, <1>3, <1>4, <2>1
<1> QED
  BY <1>2, <1>5, <1>6

(* A position is in a cell of the ring.                                    *)
LEMMA CellType == ASSUME NEW p \in Int PROVE Cell(p) \in Cells
BY RingAssumption DEF Cell, Cells

(* Positions less than the capacity apart are in different cells.          *)
LEMMA CellsApart ==
  ASSUME NEW p \in Int, NEW q \in Int, p # q, p - q < Capacity, q - p < Capacity
  PROVE  Cell(p) # Cell(q)
<1>1. CASE p < q
  <2>1. p - 1 \in Int /\ q - 1 \in Int /\ p - 1 < q - 1 /\ (q - 1) - (p - 1) < Capacity
    BY <1>1
  <2> QED
    BY <2>1, CellsDiffer, RingAssumption, Zenon DEF Cell
<1>2. CASE q < p
  <2>1. p - 1 \in Int /\ q - 1 \in Int /\ q - 1 < p - 1 /\ (p - 1) - (q - 1) < Capacity
    BY <1>2
  <2> QED
    BY <2>1, CellsDiffer, RingAssumption, Zenon DEF Cell
<1> QED
  BY <1>1, <1>2

(* The types of the two positions and of the count of the runs.            *)
LEMMA LenType == TypeOK => prod \in Nat /\ cons \in Nat /\ cons <= prod /\ forks \in Nat
BY DEF TypeOK, prod

(* Two records between consumer and producer are in different cells.       *)
LEMMA WindowApart ==
  ASSUME TypeOK, Bounded, NEW p \in Window, NEW q \in Window, p # q
  PROVE  Cell(p) # Cell(q)
<1>1. p - q < Capacity /\ q - p < Capacity
  BY LenType, RingAssumption DEF Window, Bounded
<1> QED
  BY <1>1, CellsApart, LenType DEF Window

(* A record in the ring is of a run of the program.                        *)
LEMMA AcceptedType ==
  ASSUME TypeOK, NEW i \in 1 .. prod
  PROVE  accepted[i] \in 1 .. forks /\ FromTask(accepted[i]) \in 0 .. MaxForks
<1>1. accepted[i] \in 1 .. forks
  BY DEF TypeOK, prod
<1>2. forks \in 0 .. MaxForks /\ MaxForks \in Nat
  BY RingAssumption DEF TypeOK
<1> QED
  BY <1>1, <1>2 DEF FromTask

(* A sequence over a set is one over a larger set.                         *)
LEMMA SeqWider ==
  ASSUME NEW S, NEW T, S \subseteq T, NEW s \in Seq(S)
  PROVE  s \in Seq(T)
<1>1. Len(s) \in Nat /\ s \in [1 .. Len(s) -> T]
  OBVIOUS
<1> QED
  BY <1>1

(* The inductive invariant holds for the empty ring.                       *)
LEMMA InitIInv == Init => IInv
<1> SUFFICES ASSUME Init PROVE IInv
  OBVIOUS
<1>1. prod = 0 /\ cons = 0 /\ Window = {}
  BY DEF Init, prod, Window
<1>2. Zeros \in Fields
  BY RingAssumption DEF Zeros, Fields
<1>3. TypeOK
  BY <1>1, <1>2, RingAssumption DEF Init, TypeOK
<1>4. Bounded /\ Ordered
  BY <1>1, RingAssumption DEF Bounded, Ordered
<1>5. Owned /\ Apart /\ Whole /\ Copied
  BY <1>1 DEF Init, Owned, Apart, Whole, Copied
<1>6. Logged
  BY <1>1 DEF Init, Logged
<1> QED
  BY <1>3, <1>4, <1>5, <1>6 DEF IInv

-----------------------------------------------------------------------------
(* The steps of the program that fill and submit a record                  *)

(* The record that a running program fills is in the ring.                 *)
LEMMA OwnRecord ==
  ASSUME IInv, NEW c \in CPUs, pc[c] # "out"
  PROVE  /\ pos[c] \in Window /\ pos[c] \in 1 .. prod
         /\ Cell(pos[c]) \in Cells /\ ring[Cell(pos[c])] \in Fields
         /\ accepted[pos[c]] \in 1 .. forks
         /\ FromTask(accepted[pos[c]]) \in 0 .. MaxForks
<1>1. pos[c] \in Window /\ pos[c] \in 1 .. prod
  BY LenType DEF IInv, Owned, Window
<1>2. Cell(pos[c]) \in Cells
  BY <1>1, CellType
<1> QED
  BY <1>1, <1>2, AcceptedType DEF IInv, TypeOK

(* The record a program leaves in its cell.                                *)
Filled(c) ==
  CASE pc[c] = "task" ->
         [ring[Cell(pos[c])] EXCEPT !.child = FromTask(accepted[pos[c]]), !.type = 1]
    [] pc[c] = "parents" ->
         [ring[Cell(pos[c])] EXCEPT !.parents = FromTask(accepted[pos[c]])]
    [] OTHER -> [ring[Cell(pos[c])] EXCEPT !.busy = FALSE]

After(c) ==
  CASE pc[c] = "task" -> "parents" [] pc[c] = "parents" -> "submit" [] OTHER -> "out"

(* A program fills or submits its own record and changes nothing else.     *)
LEMMA ProgramEffect ==
  ASSUME IInv, NEW c \in CPUs, Program(c)
  PROVE  /\ pc[c] \in {"task", "parents", "submit"}
         /\ ring' = [ring EXCEPT ![Cell(pos[c])] = Filled(c)]
         /\ Filled(c) \in Fields
         /\ pc' = [pc EXCEPT ![c] = After(c)]
         /\ UNCHANGED <<forks, failed, accepted, pos, cons, sample, log>>
<1>1. CASE FillTask(c)
  <2>1. pc[c] = "task" /\ pc[c] # "out"
    BY <1>1 DEF FillTask
  <2>2. ring' = [ring EXCEPT ![Cell(pos[c])] = Filled(c)] /\ Filled(c) \in Fields
    BY <1>1, <2>1, OwnRecord DEF FillTask, Filled, Fields
  <2> QED
    BY <1>1, <2>1, <2>2 DEF FillTask, Goto, After
<1>2. CASE FillParents(c)
  <2>1. pc[c] = "parents" /\ pc[c] # "out"
    BY <1>2 DEF FillParents
  <2>2. ring' = [ring EXCEPT ![Cell(pos[c])] = Filled(c)] /\ Filled(c) \in Fields
    BY <1>2, <2>1, OwnRecord DEF FillParents, Filled, Fields
  <2> QED
    BY <1>2, <2>1, <2>2 DEF FillParents, Goto, After
<1>3. CASE Submit(c)
  <2>1. pc[c] = "submit" /\ pc[c] # "out"
    BY <1>3 DEF Submit
  <2>2. ring' = [ring EXCEPT ![Cell(pos[c])] = Filled(c)] /\ Filled(c) \in Fields
    BY <1>3, <2>1, OwnRecord DEF Submit, Filled, Fields
  <2> QED
    BY <1>3, <2>1, <2>2 DEF Submit, Goto, After
<1> QED
  BY <1>1, <1>2, <1>3 DEF Program

(* The new record of the program, field by field.                          *)
LEMMA FilledFields ==
  ASSUME IInv, NEW c \in CPUs, Program(c)
  PROVE  /\ After(c) # "out" => Filled(c).busy = TRUE
         /\ After(c) \in {"parents", "submit", "out"} => Filled(c).child = FromTask(accepted[pos[c]])
         /\ After(c) \in {"submit", "out"} => Filled(c).parents = FromTask(accepted[pos[c]])
<1>1. /\ pc[c] \in {"task", "parents", "submit"} /\ ring[Cell(pos[c])] \in Fields
      /\ ring[Cell(pos[c])].busy = TRUE
      /\ pc[c] \in {"parents", "submit"} =>
           ring[Cell(pos[c])].child = FromTask(accepted[pos[c]])
      /\ pc[c] = "submit" => ring[Cell(pos[c])].parents = FromTask(accepted[pos[c]])
  BY ProgramEffect, OwnRecord DEF IInv, Owned
<1> DEFINE r == ring[Cell(pos[c])]
           n == FromTask(accepted[pos[c]])
<1>2. CASE pc[c] = "task"
  <2>1. Filled(c) = [r EXCEPT !.child = n, !.type = 1] /\ After(c) = "parents"
    BY <1>2 DEF Filled, After
  <2> QED
    BY <1>1, <2>1 DEF Fields
<1>3. CASE pc[c] = "parents"
  <2>1. Filled(c) = [r EXCEPT !.parents = n] /\ After(c) = "submit"
    BY <1>3 DEF Filled, After
  <2> QED
    BY <1>1, <1>3, <2>1 DEF Fields
<1>4. CASE pc[c] = "submit"
  <2>1. Filled(c) = [r EXCEPT !.busy = FALSE] /\ After(c) = "out"
    BY <1>4 DEF Filled, After
  <2> QED
    BY <1>1, <1>4, <2>1 DEF Fields
<1> QED
  BY <1>1, <1>2, <1>3, <1>4

(* Filling and submitting keep the inductive invariant.                    *)
LEMMA ProgramIInv ==
  ASSUME IInv, NEW c \in CPUs, Program(c)
  PROVE  IInv'
<1>1. /\ pc[c] # "out" /\ pos[c] \in Window /\ Cell(pos[c]) \in Cells
      /\ After(c) \in {"parents", "submit", "out"}
  BY ProgramEffect, OwnRecord DEF After
<1>2. /\ forks' = forks /\ failed' = failed /\ accepted' = accepted /\ pos' = pos
      /\ cons' = cons /\ sample' = sample /\ log' = log
  BY ProgramEffect
<1>3. prod' = prod /\ Window' = Window /\ \A n : FromTask(n)' = FromTask(n)
  BY <1>2 DEF prod, Window, FromTask
<1>4. \A r, n : Holds(r, n)' <=> Holds(r, n)
  BY <1>3 DEF Holds
<1>5. ring'[Cell(pos[c])] = Filled(c) /\ pc'[c] = After(c)
  BY <1>1, ProgramEffect DEF IInv, TypeOK
<1>6. \A d \in CPUs : d # c => pc'[d] = pc[d]
  BY ProgramEffect DEF IInv, TypeOK
<1>7. ASSUME NEW p \in Window, p # pos[c] PROVE ring'[Cell(p)] = ring[Cell(p)]
  <2>1. Cell(p) # Cell(pos[c]) /\ Cell(p) \in Cells
    BY <1>1, <1>7, WindowApart, CellType DEF IInv, Window
  <2> QED
    BY <2>1, ProgramEffect DEF IInv, TypeOK
<1>8. TypeOK'
  <2>1. ring' \in [Cells -> Fields]
    BY ProgramEffect DEF IInv, TypeOK
  <2>2. pc' \in [CPUs -> {"out", "task", "parents", "submit"}]
    <3>1. After(c) \in {"out", "task", "parents", "submit"}
      BY <1>1
    <3>2. pc' = [pc EXCEPT ![c] = After(c)]
      BY ProgramEffect
    <3> QED
      BY <3>1, <3>2 DEF IInv, TypeOK
  <2> QED
    BY <1>2, <1>3, <2>1, <2>2 DEF IInv, TypeOK
<1>9. Bounded' /\ Ordered' /\ Logged'
  BY <1>2, <1>3, <1>4 DEF IInv, Bounded, Ordered, Logged
<1>10. Owned'
  <2> SUFFICES ASSUME NEW d \in CPUs, pc'[d] # "out"
               PROVE  /\ pos[d] \in Window
                      /\ ring'[Cell(pos[d])].busy = TRUE
                      /\ pc'[d] \in {"parents", "submit"} =>
                           ring'[Cell(pos[d])].child = FromTask(accepted[pos[d]])
                      /\ pc'[d] = "submit" =>
                           ring'[Cell(pos[d])].parents = FromTask(accepted[pos[d]])
    BY <1>2, <1>3, Zenon DEF Owned, Cell
  <2>1. CASE d = c
    BY <1>1, <1>5, <2>1, FilledFields
  <2>2. CASE d # c
    <3>1. pos[d] \in Window /\ pos[d] # pos[c]
      BY <1>1, <1>6, <2>2 DEF IInv, Owned, Apart
    <3> QED
      BY <1>6, <1>7, <2>2, <3>1 DEF IInv, Owned
  <2> QED
    BY <2>1, <2>2
<1>11. Apart'
  <2>1. \A d \in CPUs : pc'[d] # "out" => pc[d] # "out"
    BY <1>1, <1>6
  <2> QED
    BY <1>2, <2>1 DEF IInv, Apart
<1>12. Whole'
  <2> SUFFICES ASSUME NEW p \in Window, ring'[Cell(p)].busy = FALSE
               PROVE  Holds(ring'[Cell(p)], accepted[p])
    BY <1>2, <1>3, <1>4, Zenon DEF Whole, Cell
  <2>1. CASE p = pos[c]
    <3>1. After(c) = "out"
      BY <1>5, <2>1, FilledFields
    <3> QED
      BY <1>5, <2>1, <3>1, FilledFields DEF Holds
  <2>2. CASE p # pos[c]
    BY <1>7, <2>2 DEF IInv, Whole
  <2> QED
    BY <2>1, <2>2
<1>13. Copied'
  <2> SUFFICES ASSUME sample # None
               PROVE  /\ cons < prod
                      /\ ring'[Cell(cons + 1)].busy = FALSE
                      /\ Holds(sample, accepted[cons + 1])
    BY <1>2, <1>3, <1>4, Zenon DEF Copied, Cell
  <2>1. /\ cons < prod /\ ring[Cell(cons + 1)].busy = FALSE
        /\ Holds(sample, accepted[cons + 1])
    BY DEF IInv, Copied
  <2>2. cons + 1 \in Window
    BY <2>1, LenType DEF IInv, Window
  <2>3. cons + 1 # pos[c]
    BY <1>1, <2>1 DEF IInv, Owned
  <2> QED
    BY <1>7, <2>1, <2>2, <2>3
<1> QED
  BY <1>8, <1>9, <1>10, <1>11, <1>12, <1>13 DEF IInv

-----------------------------------------------------------------------------
(* The reservation                                                         *)

(* A run without a place: only the counters change.                        *)
LEMMA RefusedIInv ==
  ASSUME IInv, NEW c \in CPUs, Reserve(c), ~HasPlace
  PROVE  IInv'
<1>1. /\ forks' = forks + 1 /\ forks' \in 0 .. MaxForks
      /\ failed' \in {failed, failed \cup {forks + 1}}
      /\ UNCHANGED <<accepted, pos, ring, pc, cons, sample, log>>
  BY RingAssumption DEF Reserve, IInv, TypeOK
<1>2. prod' = prod /\ Window' = Window
  BY <1>1 DEF prod, Window
<1>3. ASSUME NEW i \in 1 .. prod PROVE FromTask(accepted[i])' = FromTask(accepted[i])
  <2>1. accepted[i] # forks + 1
    BY AcceptedType, LenType DEF IInv
  <2> QED
    BY <1>1, <2>1 DEF FromTask
<1>4. ASSUME NEW i \in 1 .. prod, NEW r PROVE Holds(r, accepted[i])' <=> Holds(r, accepted[i])
  BY <1>1, <1>3 DEF Holds
<1>5. TypeOK'
  <2>1. failed' \subseteq 1 .. forks'
    BY <1>1, LenType DEF IInv, TypeOK
  <2>2. 1 .. forks \subseteq 1 .. forks'
    BY <1>1, LenType DEF IInv
  <2>3. accepted \in Seq(1 .. forks')
    BY <2>2, SeqWider DEF IInv, TypeOK
  <2> QED
    BY <1>1, <1>2, <2>1, <2>3 DEF IInv, TypeOK
<1>6. Bounded' /\ Ordered' /\ Apart'
  BY <1>1, <1>2 DEF IInv, Bounded, Ordered, Apart
<1>7. Owned'
  <2> SUFFICES ASSUME NEW d \in CPUs, pc[d] # "out"
               PROVE  /\ pos[d] \in Window
                      /\ ring[Cell(pos[d])].busy = TRUE
                      /\ pc[d] \in {"parents", "submit"} =>
                           ring[Cell(pos[d])].child = FromTask(accepted[pos[d]])'
                      /\ pc[d] = "submit" =>
                           ring[Cell(pos[d])].parents = FromTask(accepted[pos[d]])'
    BY <1>1, <1>2 DEF Owned, Cell
  <2>1. pos[d] \in 1 .. prod
    BY OwnRecord
  <2>2. FromTask(accepted[pos[d]])' = FromTask(accepted[pos[d]])
    BY <1>1, <1>3, <2>1
  <2> QED
    BY <2>2 DEF IInv, Owned
<1>8. Whole'
  <2> SUFFICES ASSUME NEW p \in Window, ring[Cell(p)].busy = FALSE
               PROVE  Holds(ring[Cell(p)], accepted[p])'
    BY <1>1, <1>2 DEF Whole, Cell
  <2>1. p \in 1 .. prod
    BY LenType DEF IInv, Window
  <2> QED
    BY <1>1, <1>4, <2>1 DEF IInv, Whole
<1>9. Copied'
  <2>1. CASE sample # None
    <3>1. cons < prod /\ cons + 1 \in 1 .. prod
      BY <2>1, LenType DEF IInv, Copied
    <3> QED
      BY <1>1, <1>2, <1>4, <2>1, <3>1 DEF IInv, Copied, Cell
  <2>2. CASE sample = None
    BY <1>1, <2>2 DEF Copied
  <2> QED
    BY <2>1, <2>2
<1>10. Logged'
  <2>1. \A i \in 1 .. cons : i \in 1 .. prod
    BY LenType DEF IInv
  <2> QED
    BY <1>1, <1>4, <2>1 DEF IInv, Logged
<1> QED
  BY <1>5, <1>6, <1>7, <1>8, <1>9, <1>10 DEF IInv

(* What bpf_ringbuf_reserve changes when there is a place.                 *)
LEMMA PlacedEffect ==
  ASSUME IInv, NEW c \in CPUs, Reserve(c), HasPlace
  PROVE  /\ pc[c] = "out" /\ pc' = [pc EXCEPT ![c] = "task"]
         /\ forks' = forks + 1 /\ forks' \in 0 .. MaxForks
         /\ failed' \in {failed, failed \cup {forks + 1}}
         /\ accepted' \in Seq(1 .. forks')
         /\ prod' = prod + 1 /\ accepted'[prod + 1] = forks + 1
         /\ \A i \in 1 .. prod : accepted'[i] = accepted[i]
         /\ pos' = [pos EXCEPT ![c] = prod + 1]
         /\ ring' = [ring EXCEPT ![Cell(prod + 1)] = Reserved(ring[Cell(prod + 1)])]
         /\ UNCHANGED <<cons, sample, log>>
<1>1. accepted' = Append(accepted, forks + 1) /\ forks' = forks + 1
  BY DEF Reserve
<1>2. forks' \in 0 .. MaxForks /\ 1 .. forks \subseteq 1 .. forks' /\ forks + 1 \in 1 .. forks'
  BY RingAssumption DEF Reserve, IInv, TypeOK
<1>3. accepted \in Seq(1 .. forks')
  BY <1>2, SeqWider DEF IInv, TypeOK
<1>4. /\ accepted' \in Seq(1 .. forks') /\ Len(accepted') = Len(accepted) + 1
      /\ accepted'[Len(accepted) + 1] = forks + 1
      /\ \A i \in 1 .. Len(accepted) : accepted'[i] = accepted[i]
  BY <1>1, <1>2, <1>3
<1> QED
  BY <1>1, <1>2, <1>4 DEF Reserve, Goto, prod

(* A reserved record is busy.                                              *)
LEMMA ReservedType ==
  ASSUME NEW r \in Fields
  PROVE  Reserved(r) \in Fields /\ Reserved(r).busy = TRUE
BY DEF Reserved, Fields, Stale

(* A reservation keeps the inductive invariant: its cell is no other       *)
(* record's.                                                               *)
LEMMA PlacedIInv ==
  ASSUME IInv, NEW c \in CPUs, Reserve(c), HasPlace
  PROVE  IInv'
<1>1. /\ prod \in Nat /\ cons \in Nat /\ cons <= prod /\ forks \in Nat
      /\ prod' = prod + 1 /\ cons' = cons /\ prod - cons < Capacity
      /\ sample' = sample /\ log' = log
  BY PlacedEffect, LenType DEF IInv, HasPlace
<1>2. \A p \in Window' : p \in Window \/ p = prod + 1
  BY <1>1 DEF Window
<1>3. Window \subseteq Window' /\ prod + 1 \in Window' /\ Window \subseteq 1 .. prod
  BY <1>1 DEF Window
<1>4. Cell(prod + 1) \in Cells
  BY <1>1, CellType
<1>5. ASSUME NEW p \in Window PROVE ring'[Cell(p)] = ring[Cell(p)]
  <2>1. p \in Int /\ prod + 1 \in Int /\ p # prod + 1
        /\ p - (prod + 1) < Capacity /\ (prod + 1) - p < Capacity
    BY <1>1, RingAssumption DEF Window
  <2>2. Cell(p) # Cell(prod + 1) /\ Cell(p) \in Cells
    BY <2>1, CellsApart, CellType
  <2> QED
    BY <2>2, PlacedEffect DEF IInv, TypeOK
<1>6. ASSUME NEW i \in 1 .. prod
      PROVE  /\ accepted'[i] = accepted[i]
             /\ FromTask(accepted[i])' = FromTask(accepted[i])
             /\ \A r : Holds(r, accepted[i])' <=> Holds(r, accepted[i])
  <2>1. accepted[i] # forks + 1 /\ accepted'[i] = accepted[i]
    BY <1>1, AcceptedType, PlacedEffect DEF IInv
  <2>2. FromTask(accepted[i])' = FromTask(accepted[i])
    BY <2>1, PlacedEffect DEF FromTask
  <2> QED
    BY <2>1, <2>2 DEF Holds
<1>7. TypeOK'
  <2>1. ring[Cell(prod + 1)] \in Fields
    BY <1>4 DEF IInv, TypeOK
  <2>2. ring' \in [Cells -> Fields]
    BY <2>1, PlacedEffect, ReservedType DEF IInv, TypeOK
  <2>3. failed' \subseteq 1 .. forks'
    <3>1. failed \subseteq 1 .. forks /\ forks' = forks + 1
      BY PlacedEffect DEF IInv, TypeOK
    <3>2. failed' \subseteq failed \cup {forks + 1}
      BY PlacedEffect
    <3> QED
      BY <1>1, <3>1, <3>2
  <2>4. pos' \in [CPUs -> Nat \ {0}] /\ pc' \in [CPUs -> {"out", "task", "parents", "submit"}]
    <3>1. prod + 1 \in Nat \ {0} /\ pos \in [CPUs -> Nat \ {0}]
      BY <1>1 DEF IInv, TypeOK
    <3>2. pc \in [CPUs -> {"out", "task", "parents", "submit"}]
      BY DEF IInv, TypeOK
    <3>3. pos' = [pos EXCEPT ![c] = prod + 1] /\ pc' = [pc EXCEPT ![c] = "task"]
      BY PlacedEffect
    <3> QED
      BY <3>1, <3>2, <3>3
  <2>5. cons' \in 0 .. prod'
    BY <1>1
  <2> QED
    BY <1>1, <2>2, <2>3, <2>4, <2>5, PlacedEffect DEF IInv, TypeOK
<1>8. Bounded'
  BY <1>1, RingAssumption DEF Bounded
<1>9. Ordered'
  <2> SUFFICES ASSUME NEW i \in 1 .. prod', NEW j \in 1 .. prod', i < j
               PROVE  accepted'[i] < accepted'[j]
    BY Zenon DEF Ordered
  <2>1. i \in 1 .. prod /\ (j \in 1 .. prod \/ j = prod + 1)
    BY <1>1
  <2>2. CASE j \in 1 .. prod
    BY <1>6, <2>1, <2>2 DEF IInv, Ordered
  <2>3. CASE j = prod + 1
    <3>1. accepted'[i] \in 1 .. forks
      BY <1>6, <2>1, AcceptedType DEF IInv
    <3>2. accepted'[j] = forks + 1
      BY <2>3, PlacedEffect
    <3> QED
      BY <1>1, <3>1, <3>2
  <2> QED
    BY <2>1, <2>2, <2>3
<1>10. Owned'
  <2> SUFFICES ASSUME NEW d \in CPUs, pc'[d] # "out"
               PROVE  /\ pos'[d] \in Window'
                      /\ ring'[Cell(pos'[d])].busy = TRUE
                      /\ pc'[d] \in {"parents", "submit"} =>
                           ring'[Cell(pos'[d])].child = FromTask(accepted[pos[d]])'
                      /\ pc'[d] = "submit" =>
                           ring'[Cell(pos'[d])].parents = FromTask(accepted[pos[d]])'
    BY DEF Owned, Cell
  <2>1. CASE d = c
    <3>1. pc'[d] = "task" /\ pos'[d] = prod + 1
      BY <2>1, PlacedEffect DEF IInv, TypeOK
    <3>2. ring'[Cell(prod + 1)] = Reserved(ring[Cell(prod + 1)])
      BY <1>4, PlacedEffect DEF IInv, TypeOK
    <3>3. ring'[Cell(prod + 1)].busy = TRUE
      BY <1>4, <3>2, ReservedType DEF IInv, TypeOK
    <3> QED
      BY <1>3, <3>1, <3>3
  <2>2. CASE d # c
    <3>1. pc'[d] = pc[d] /\ pos'[d] = pos[d]
      BY <2>2, PlacedEffect DEF IInv, TypeOK
    <3>2. pos[d] \in Window /\ pos[d] \in 1 .. prod
      BY <3>1, OwnRecord
    <3>3. ring'[Cell(pos[d])] = ring[Cell(pos[d])]
      BY <1>5, <3>2
    <3>4. FromTask(accepted[pos[d]])' = FromTask(accepted[pos[d]])
      BY <1>6, <3>1, <3>2 DEF FromTask
    <3> QED
      BY <1>3, <3>1, <3>2, <3>3, <3>4 DEF IInv, Owned
  <2> QED
    BY <2>1, <2>2
<1>11. Apart'
  <2>1. ASSUME NEW d \in CPUs, d # c, pc'[d] # "out" PROVE pos'[d] # pos'[c]
    <3>1. pc[d] # "out" /\ pos'[d] = pos[d] /\ pos'[c] = prod + 1
      BY <2>1, PlacedEffect DEF IInv, TypeOK
    <3>2. pos[d] \in 1 .. prod
      BY <3>1, OwnRecord
    <3> QED
      BY <1>1, <3>1, <3>2
  <2>2. ASSUME NEW d \in CPUs, NEW e \in CPUs, d # c, e # c, d # e,
               pc'[d] # "out", pc'[e] # "out"
        PROVE  pos'[d] # pos'[e]
    <3>1. pc[d] = pc'[d] /\ pos'[d] = pos[d] /\ pc[e] = pc'[e] /\ pos'[e] = pos[e]
      BY <2>2, PlacedEffect DEF IInv, TypeOK
    <3> QED
      BY <2>2, <3>1 DEF IInv, Apart
  <2> QED
    BY <2>1, <2>2, Zenon DEF Apart
<1>12. Whole'
  <2> SUFFICES ASSUME NEW p \in Window', ring'[Cell(p)].busy = FALSE
               PROVE  Holds(ring[Cell(p)], accepted[p])'
    BY Zenon DEF Whole, Cell
  <2>1. CASE p \in Window
    <3>1. p \in 1 .. prod /\ ring'[Cell(p)] = ring[Cell(p)]
      BY <1>3, <1>5, <2>1
    <3>2. Holds(ring[Cell(p)], accepted[p])
      BY <2>1, <3>1 DEF IInv, Whole
    <3> QED
      BY <1>6, <3>1, <3>2 DEF Holds, Cell
  <2>2. CASE p = prod + 1
    <3>1. ring'[Cell(prod + 1)] = Reserved(ring[Cell(prod + 1)])
      BY <1>4, PlacedEffect DEF IInv, TypeOK
    <3> QED
      BY <1>4, <2>2, <3>1, ReservedType DEF IInv, TypeOK
  <2> QED
    BY <1>2, <2>1, <2>2
<1>13. Copied'
  <2>1. CASE sample # None
    <3>1. cons < prod /\ cons + 1 \in 1 .. prod /\ cons + 1 \in Window
      BY <1>1, <2>1 DEF IInv, Copied, Window
    <3>2. ring'[Cell(cons + 1)] = ring[Cell(cons + 1)]
      BY <1>5, <3>1
    <3>3. Holds(sample, accepted[cons + 1])'
      BY <1>1, <1>6, <2>1, <3>1 DEF IInv, Copied, Holds
    <3> QED
      BY <1>1, <2>1, <3>1, <3>2, <3>3 DEF IInv, Copied, Cell
  <2>2. CASE sample = None
    BY <1>1, <2>2 DEF Copied
  <2> QED
    BY <2>1, <2>2
<1>14. Logged'
  <2>1. \A i \in 1 .. cons : i \in 1 .. prod
    BY <1>1
  <2>2. ASSUME NEW i \in 1 .. cons PROVE Holds(log[i], accepted[i])'
    BY <1>1, <1>6, <2>1 DEF IInv, Logged, Holds
  <2> QED
    BY <1>1, <2>2 DEF IInv, Logged
<1> QED
  BY <1>7, <1>8, <1>9, <1>10, <1>11, <1>12, <1>13, <1>14 DEF IInv

-----------------------------------------------------------------------------
(* The reader                                                              *)

(* The reader's copy of a submitted record keeps the inductive invariant.  *)
LEMMA ReadCopyIInv ==
  ASSUME IInv, ReadCopy
  PROVE  IInv'
<1>1. /\ cons < prod /\ ring[Cell(cons + 1)].busy # TRUE /\ sample' = ring[Cell(cons + 1)]
      /\ UNCHANGED <<forks, failed, accepted, pc, pos, cons, ring, log>>
  BY DEF ReadCopy, kernelVars
<1>2. cons + 1 \in Window /\ Cell(cons + 1) \in Cells
  BY <1>1, LenType, CellType DEF IInv, Window
<1>3. ring[Cell(cons + 1)] \in Fields
  BY <1>2 DEF IInv, TypeOK
<1>4. ring[Cell(cons + 1)].busy = FALSE
  BY <1>1, <1>3 DEF Fields
<1>5. Holds(sample', accepted[cons + 1])
  BY <1>1, <1>2, <1>4 DEF IInv, Whole
<1>6. TypeOK'
  BY <1>1, <1>3 DEF IInv, TypeOK, prod
<1>7. Copied'
  BY <1>1, <1>4, <1>5 DEF Copied, Cell, prod, Holds, FromTask
<1>8. Bounded' /\ Ordered' /\ Apart' /\ Logged'
  BY <1>1 DEF IInv, Bounded, Ordered, Apart, Logged, prod, Holds, FromTask
<1>9. Owned' /\ Whole'
  BY <1>1 DEF IInv, Owned, Whole, Window, Cell, prod, Holds, FromTask
<1> QED
  BY <1>6, <1>7, <1>8, <1>9 DEF IInv

(* The reader's release of a record keeps the inductive invariant.         *)
LEMMA ReadDoneIInv ==
  ASSUME IInv, ReadDone
  PROVE  IInv'
<1>1. /\ sample # None /\ cons' = cons + 1 /\ log' = Append(log, sample) /\ sample' = None
      /\ UNCHANGED <<forks, failed, accepted, pc, pos, ring>>
  BY DEF ReadDone, kernelVars
<1>2. /\ cons < prod /\ ring[Cell(cons + 1)].busy = FALSE
      /\ Holds(sample, accepted[cons + 1])
      /\ prod \in Nat /\ cons \in Nat /\ prod' = prod
  BY <1>1, LenType DEF IInv, Copied, prod
<1>3. Window' \subseteq Window /\ \A p \in Window : p # cons + 1 => p \in Window'
  BY <1>1, <1>2 DEF Window
<1>4. /\ \A r, n : Holds(r, n)' <=> Holds(r, n)
      /\ \A n : FromTask(n)' = FromTask(n)
  BY <1>1 DEF Holds, FromTask
<1>5. sample \in Fields /\ log \in Seq(Fields) /\ Len(log) = cons
  BY <1>1 DEF IInv, TypeOK, Logged
<1>6. /\ log' \in Seq(Fields) /\ Len(log') = cons + 1 /\ log'[cons + 1] = sample
      /\ \A i \in 1 .. cons : log'[i] = log[i]
  BY <1>1, <1>5
<1>7. TypeOK'
  <2>1. cons' \in 0 .. prod'
    BY <1>1, <1>2
  <2> QED
    BY <1>1, <1>2, <1>6, <2>1 DEF IInv, TypeOK
<1>8. Bounded' /\ Ordered' /\ Apart'
  BY <1>1, <1>2, RingAssumption DEF IInv, Bounded, Ordered, Apart
<1>9. Owned'
  <2>1. ASSUME NEW c \in CPUs, pc[c] # "out" PROVE pos[c] \in Window'
    BY <1>2, <1>3, <2>1 DEF IInv, Owned
  <2> QED
    BY <1>1, <1>4, <2>1 DEF IInv, Owned, Cell
<1>10. Whole'
  BY <1>1, <1>3, <1>4 DEF IInv, Whole, Cell
<1>11. Copied'
  BY <1>1 DEF Copied
<1>12. Logged'
  <2>1. ASSUME NEW i \in 1 .. cons' PROVE Holds(log'[i], accepted[i])
    <3>1. CASE i = cons + 1
      BY <1>2, <1>6, <3>1
    <3>2. CASE i \in 1 .. cons
      BY <1>6, <3>2 DEF IInv, Logged
    <3>3. i = cons + 1 \/ i \in 1 .. cons
      BY <1>1, <1>2
    <3> QED
      BY <3>1, <3>2, <3>3
  <2> QED
    BY <1>1, <1>4, <1>6, <2>1 DEF Logged
<1> QED
  BY <1>7, <1>8, <1>9, <1>10, <1>11, <1>12 DEF IInv

(* Stuttering keeps the inductive invariant.                               *)
LEMMA StutterIInv == IInv /\ UNCHANGED vars => IInv'
<1> SUFFICES ASSUME IInv, UNCHANGED vars PROVE IInv'
  OBVIOUS
<1> USE DEF vars, kernelVars
<1>1. TypeOK' /\ Bounded' /\ Ordered' /\ Apart'
  BY DEF IInv, TypeOK, Bounded, Ordered, Apart, prod
<1>2. Owned' /\ Whole'
  BY DEF IInv, Owned, Whole, Window, Cell, prod, Holds, FromTask
<1>3. Copied' /\ Logged'
  BY DEF IInv, Copied, Logged, Cell, prod, Holds, FromTask
<1> QED
  BY <1>1, <1>2, <1>3 DEF IInv

(* Every step keeps the inductive invariant.                               *)
LEMMA NextIInv == IInv /\ [Next]_vars => IInv'
<1> SUFFICES ASSUME IInv, [Next]_vars PROVE IInv'
  OBVIOUS
<1>1. ASSUME NEW c \in CPUs, Reserve(c) PROVE IInv'
  BY <1>1, PlacedIInv, RefusedIInv
<1>2. ASSUME NEW c \in CPUs, Program(c) PROVE IInv'
  BY <1>2, ProgramIInv
<1>3. CASE Read
  BY <1>3, ReadCopyIInv, ReadDoneIInv DEF Read
<1>4. CASE UNCHANGED vars
  BY <1>4, StutterIInv
<1> QED
  BY <1>1, <1>2, <1>3, <1>4 DEF Next, Quiet

(* The inductive invariant holds in every reachable state.                 *)
LEMMA Invariant == Spec => []IInv
BY InitIInv, NextIInv, PTL DEF Spec

(* The types of the state: in particular the reader never passes the       *)
(* producer, whatever the size of the ring.                                *)
THEOREM TypeCorrect == Spec => []TypeOK
<1>1. IInv => TypeOK
  BY DEF IInv
<1> QED
  BY <1>1, Invariant, PTL

(* Every record handed to the decoder is whole and of one run of           *)
(* kretprobe_copy_process, however the programs of any number of CPUs      *)
(* overlap and however often the cells of the ring are used again.         *)
THEOREM RecordsAreWhole == Spec => []RecordsWhole
<1>1. ASSUME IInv PROVE RecordsWhole
  <2>1. DOMAIN log = 1 .. cons /\ DOMAIN accepted = 1 .. prod
    BY <1>1 DEF IInv, TypeOK, Logged, prod
  <2>2. \A i \in 1 .. cons : i \in 1 .. prod
    BY <1>1, LenType DEF IInv
  <2> QED
    BY <1>1, <2>1, <2>2 DEF IInv, Logged, Holds, RecordsWhole
<1> QED
  BY <1>1, Invariant, PTL

-----------------------------------------------------------------------------
(* The refinement                                                          *)

(* The state of the abstract stream.                                       *)
Fates == [q \in {"ringbuf_proc"} |-> [n \in Runs |-> Fate(n)]]

(* What is logged is whole, so that the fate of a run can be read from the *)
(* positions of producer and consumer.                                     *)
Progress(n) ==
  IF n > forks THEN "none"
  ELSE IF \A i \in DOMAIN accepted : accepted[i] # n THEN "lost"
  ELSE IF \E i \in 1 .. cons : accepted[i] = n THEN "reported" ELSE "flight"

Progresses == [q \in {"ringbuf_proc"} |-> [n \in Runs |-> Progress(n)]]

(* A run whose record was given back has been told of.                     *)
LEMMA ReleasedIsTold ==
  ASSUME IInv, NEW i \in 1 .. cons
  PROVE  Told(accepted[i])
<1>1. DOMAIN log = 1 .. cons /\ DOMAIN accepted = 1 .. prod /\ cons \in 0 .. prod /\ prod \in Nat
  BY LenType DEF IInv, TypeOK, Logged, prod
<1>2. i \in DOMAIN log /\ i \in DOMAIN accepted /\ Holds(log[i], accepted[i])
  BY <1>1 DEF IInv, Logged
<1> QED
  BY <1>2 DEF Told, Holds

(* So it is before a step and after it.                                    *)
LEMMA FateIsProgress == IInv => Fates = Progresses
<1> SUFFICES ASSUME IInv, NEW n \in Runs PROVE Fate(n) = Progress(n)
  BY DEF Fates, Progresses
<1>1. (\E i \in 1 .. cons : accepted[i] = n) => Told(n)
  BY ReleasedIsTold
<1> QED
  BY <1>1 DEF Fate, Progress

LEMMA FateIsProgressNext == IInv' => (Fates = Progresses)'
BY FateIsProgress, PTL

(* The positions that make a run new and under way.                        *)
LEMMA FateValues ==
  ASSUME IInv, NEW n \in Runs
  PROVE  /\ Progress(n) = "none" <=> n > forks
         /\ Progress(n) = "flight" <=>
              /\ n <= forks
              /\ \E i \in 1 .. prod : accepted[i] = n
              /\ ~\E i \in 1 .. cons : accepted[i] = n
<1>1. DOMAIN accepted = 1 .. prod /\ forks \in Int /\ n \in Int
  BY DEF IInv, TypeOK, prod, Runs
<1> QED
  BY <1>1 DEF Progress

(* One sample changes its fate.                                            *)
LEMMA OneFateChanges ==
  ASSUME NEW n \in Runs, NEW f, Progress(n)' = f, \A m \in Runs : m # n => Progress(m)' = Progress(m)
  PROVE  Progresses' = [Progresses EXCEPT !["ringbuf_proc"][n] = f]
<1>1. [m \in Runs |-> Progress(m)]' = [[m \in Runs |-> Progress(m)] EXCEPT ![n] = f]
  OBVIOUS
<1> QED
  BY <1>1 DEF Progresses

(* A step that moves neither position changes no fate.                     *)
LEMMA NoFateChanges ==
  ASSUME UNCHANGED <<forks, accepted, cons>>
  PROVE  Progresses' = Progresses
BY DEF Progresses, Progress

(* A reservation, placed or refused, is a sample produced in LossyStream.  *)
LEMMA ReserveRefines ==
  ASSUME IInv, IInv', NEW c \in CPUs, Reserve(c)
  PROVE  Stream!Produce("ringbuf_proc", forks + 1)
<1>0. PICK n \in Runs : n = forks + 1
  BY RingAssumption DEF Reserve, IInv, TypeOK, Runs
<1>1. n = forks + 1 /\ forks \in Nat /\ prod \in Nat /\ cons \in Nat /\ cons <= prod
  BY <1>0, LenType DEF IInv
<1>2. forks' = n /\ cons' = cons
  BY <1>0 DEF Reserve
<1>3. DOMAIN accepted = 1 .. prod
  BY DEF IInv, TypeOK, prod
<1>4. \A i \in 1 .. prod : accepted[i] # n
  BY <1>1, AcceptedType DEF IInv
<1>5. \E f \in {"flight", "lost"} :
        Progress(n)' = f /\ \A m \in Runs : m # n => Progress(m)' = Progress(m)
  <2>1. CASE HasPlace
    <3>1. /\ DOMAIN accepted' = 1 .. prod + 1 /\ accepted'[prod + 1] = n
          /\ \A i \in 1 .. prod : accepted'[i] = accepted[i]
      BY <1>1, <2>1, PlacedEffect DEF prod
    <3>2. ASSUME NEW m \in Runs, m # n PROVE Progress(m)' = Progress(m)
      <4>1. m > forks' <=> m > forks
        BY <1>1, <1>2, <3>2 DEF Runs
      <4>2. (\A i \in DOMAIN accepted' : accepted'[i] # m)
              <=> (\A i \in DOMAIN accepted : accepted[i] # m)
        BY <1>1, <1>3, <3>1, <3>2
      <4>3. (\E i \in 1 .. cons : accepted'[i] = m) <=> (\E i \in 1 .. cons : accepted[i] = m)
        BY <1>1, <3>1
      <4> QED
        BY <1>2, <4>1, <4>2, <4>3 DEF Progress
    <3>3. Progress(n)' = "flight"
      <4>1. ~(n > forks') /\ prod + 1 \in DOMAIN accepted'
        BY <1>1, <1>2, <3>1
      <4>2. ~\E i \in 1 .. cons' : accepted'[i] = n
        BY <1>1, <1>2, <1>4, <3>1
      <4> QED
        BY <3>1, <4>1, <4>2 DEF Progress
    <3> QED
      BY <3>2, <3>3
  <2>2. CASE ~HasPlace
    <3>1. accepted' = accepted
      BY <2>2 DEF Reserve
    <3>2. ASSUME NEW m \in Runs, m # n PROVE Progress(m)' = Progress(m)
      <4>1. m > forks' <=> m > forks
        BY <1>1, <1>2, <3>2 DEF Runs
      <4> QED
        BY <1>2, <3>1, <4>1 DEF Progress
    <3>3. Progress(n)' = "lost"
      BY <1>1, <1>2, <1>3, <1>4, <3>1 DEF Progress
    <3> QED
      BY <3>2, <3>3
  <2> QED
    BY <2>1, <2>2
<1>6. \E f \in {"flight", "lost"} : Progresses' = [Progresses EXCEPT !["ringbuf_proc"][n] = f]
  BY <1>1, <1>5, OneFateChanges
<1>7. Progress(n) = "none" /\ \A k \in Runs : k < n => Progress(k) # "none"
  BY <1>1, FateValues DEF Runs
<1>8. Fates = Progresses /\ Fates' = Progresses'
  BY FateIsProgress, FateIsProgressNext
<1>9. \E f \in {"flight", "lost"} : Fates' = [Fates EXCEPT !["ringbuf_proc"][n] = f]
  BY <1>6, <1>8
<1>10. /\ Fates["ringbuf_proc"][n] = "none"
       /\ \A k \in Runs : k < n => Fates["ringbuf_proc"][k] # "none"
  BY <1>7, <1>8 DEF Progresses
<1> QED
  BY <1>1, <1>9, <1>10 DEF Stream!Produce, Stream!Samples, Fates, Runs

(* A record released by the reader is a sample settled in LossyStream.     *)
LEMMA ReadDoneRefines ==
  ASSUME IInv, IInv', ReadDone
  PROVE  \E n \in Runs : Stream!Settle("ringbuf_proc", n)
<1>1. /\ cons' = cons + 1 /\ forks' = forks /\ accepted' = accepted
      /\ cons < prod /\ prod \in Nat /\ cons \in Nat /\ forks \in Nat
  BY LenType DEF ReadDone, kernelVars, IInv, Copied
<1>2. DOMAIN accepted = 1 .. prod /\ cons + 1 \in 1 .. prod
  BY <1>1 DEF IInv, TypeOK, prod
<1>3. PICK n \in Runs : n = accepted[cons + 1] /\ n <= forks
  BY <1>1, <1>2, AcceptedType, RingAssumption DEF IInv, TypeOK, Runs
<1>4. ASSUME NEW i \in 1 .. cons PROVE accepted[i] # n
  <2>1. i \in 1 .. prod /\ i < cons + 1
    BY <1>1
  <2>2. accepted[i] \in 1 .. forks /\ accepted[cons + 1] \in 1 .. forks
    BY <1>2, <2>1, AcceptedType DEF IInv
  <2> QED
    BY <1>1, <1>2, <1>3, <2>1, <2>2 DEF IInv, Ordered
<1>5. Progress(n) = "flight"
  BY <1>2, <1>3, <1>4, FateValues
<1>6. Progress(n)' = "reported"
  <2>1. cons + 1 \in 1 .. cons' /\ ~(n > forks')
    BY <1>1, <1>3 DEF Runs
  <2> QED
    BY <1>1, <1>2, <1>3, <2>1 DEF Progress
<1>7. ASSUME NEW m \in Runs, m # n PROVE Progress(m)' = Progress(m)
  <2>1. (\E i \in 1 .. cons + 1 : accepted[i] = m) <=> (\E i \in 1 .. cons : accepted[i] = m)
    BY <1>1, <1>3, <1>7
  <2> QED
    BY <1>1, <2>1 DEF Progress
<1>8. Progresses' = [Progresses EXCEPT !["ringbuf_proc"][n] = "reported"]
  BY <1>6, <1>7, OneFateChanges
<1>9. ASSUME NEW k \in Runs, k < n PROVE Progress(k) # "flight"
  <2> SUFFICES ASSUME Progress(k) = "flight" PROVE FALSE
    OBVIOUS
  <2>1. PICK i \in 1 .. prod : accepted[i] = k
    BY FateValues
  <2>2. i \notin 1 .. cons
    BY <2>1, FateValues
  <2>3. i = cons + 1 \/ cons + 1 < i
    BY <1>1, <2>2
  <2>4. accepted[i] \in Int /\ n \in Int /\ (cons + 1 < i => n < accepted[i])
    BY <1>2, <1>3, <2>1, AcceptedType DEF IInv, Ordered, Runs
  <2> QED
    BY <1>3, <1>9, <2>1, <2>3, <2>4 DEF Runs
<1>10. Fates = Progresses /\ Fates' = Progresses'
  BY FateIsProgress, FateIsProgressNext
<1>11. Fates' = [Fates EXCEPT !["ringbuf_proc"][n] = "reported"]
  BY <1>8, <1>10
<1>12. /\ Fates["ringbuf_proc"][n] = "flight"
       /\ \A k \in Runs : k < n => Fates["ringbuf_proc"][k] # "flight"
  BY <1>5, <1>9, <1>10 DEF Progresses
<1> QED
  BY <1>11, <1>12 DEF Stream!Settle, Stream!Samples, Fates, Runs

(* Every step is a step of LossyStream or changes no fate.                 *)
LEMMA NextRefines == IInv /\ [Next]_vars => [Stream!Next]_<<Fates, {}>>
<1> SUFFICES ASSUME IInv, [Next]_vars PROVE Stream!Next \/ Fates' = Fates
  OBVIOUS
<1>0. IInv' /\ Fates = Progresses /\ Fates' = Progresses'
  BY NextIInv, FateIsProgress, FateIsProgressNext
<1>1. ASSUME NEW c \in CPUs, Reserve(c) PROVE Stream!Next
  <2>1. forks + 1 \in Stream!Samples
    BY <1>1, RingAssumption DEF Reserve, IInv, TypeOK, Stream!Samples
  <2>2. "ringbuf_proc" \in {"ringbuf_proc"}
    OBVIOUS
  <2> QED
    BY <1>0, <1>1, <2>1, <2>2, ReserveRefines DEF Stream!Next
<1>2. ASSUME NEW c \in CPUs, Program(c) PROVE Fates' = Fates
  BY <1>0, <1>2, ProgramEffect, NoFateChanges
<1>3. CASE ReadCopy
  BY <1>0, <1>3, NoFateChanges DEF ReadCopy, kernelVars
<1>4. CASE ReadDone
  <2>1. \E n \in Stream!Samples : Stream!Settle("ringbuf_proc", n)
    BY <1>0, <1>4, ReadDoneRefines DEF Stream!Samples, Runs
  <2>2. "ringbuf_proc" \in {"ringbuf_proc"}
    OBVIOUS
  <2> QED
    BY <2>1, <2>2 DEF Stream!Next
<1>5. CASE UNCHANGED vars
  BY <1>0, <1>5, NoFateChanges DEF vars, kernelVars
<1> QED
  BY <1>1, <1>2, <1>3, <1>4, <1>5 DEF Next, Read, Quiet

(* The ring begins as LossyStream does.                                    *)
LEMMA InitRefines == Init => Stream!Init
<1> SUFFICES ASSUME Init PROVE Stream!Init
  OBVIOUS
<1>1. \A n \in Runs : Fate(n) = "none"
  BY RingAssumption DEF Init, Fate, Runs
<1> QED
  BY <1>1 DEF Stream!Init, Stream!Samples, Runs

(* The ring buffer with its programs and its reader implements the lossy   *)
(* stream: a run that got a record is reported exactly once, by its own    *)
(* data and in the order of the reservations, whatever the order in which  *)
(* the records are filled and submitted.                                   *)
THEOREM RingImplementsStream == Spec => ImplementsStream
<1>1. IInv /\ [Next]_vars => [Stream!Next]_<<[q \in {"ringbuf_proc"} |-> [n \in Runs |-> Fate(n)]], {}>>
  BY NextRefines DEF Fates
<1> QED
  BY <1>1, Invariant, InitRefines, PTL DEF Spec, ImplementsStream, Stream!Spec
=============================================================================

-------------------------- MODULE EventDecodeProofs -------------------------
(***************************************************************************)
(* Proofs about EventDecode, for any calls of the programs and any number  *)
(* of them: the places of all fields and reads are computed by induction,  *)
(* and what follows for a sample holds of every line by the invariant.     *)
(***************************************************************************)
EXTENDS EventDecode, FiniteSetTheorems, WellFoundedInduction, TLAPS

-----------------------------------------------------------------------------
(* Induction                                                               *)

(* A non-empty set of numbers has a smallest one, so that the recursive    *)
(* functions of the layouts can be reasoned about by induction.            *)
LEMMA Least ==
  ASSUME NEW T, T \subseteq Nat, T # {}
  PROVE  \E m \in T : \A n \in T : m <= n
<1> DEFINE R == OpToRel(<, Nat)
<1>1. IsWellFoundedOn(R, Nat)
  BY NatLessThanWellFounded
<1> HIDE DEF R
<1>2. PICK m \in T : \A n \in T : <<n, m>> \notin R
  BY <1>1, WFMin, Zenon
<1>3. \A n \in Nat : n < m => <<n, m>> \in R
  BY DEF R, OpToRel
<1>4. m \in Nat /\ \A n \in T : n \in Nat /\ ~(n < m)
  BY <1>2, <1>3, Zenon
<1> QED
  BY <1>4

(* Induction over the numbers, for the set of those a fact holds of.       *)
LEMMA Induction ==
  ASSUME NEW S, 0 \in S, \A n \in Nat : n \in S => n + 1 \in S
  PROVE  Nat \subseteq S
<1> SUFFICES ASSUME Nat \ S # {} PROVE FALSE
  OBVIOUS
<1>1. PICK m \in Nat \ S : \A n \in Nat \ S : m <= n
  BY Least
<1>2. m # 0 /\ m - 1 \in Nat /\ m - 1 \notin Nat \ S
  BY <1>1
<1> QED
  BY <1>1, <1>2

-----------------------------------------------------------------------------
(* Layouts                                                                 *)

(* The offsets of a struct are the only sequence that obeys the compiler's *)
(* rule: the first field at 0, each next one at the first multiple of its  *)
(* alignment after the field before it.                                    *)
LEMMA OffsetsAre ==
  ASSUME NEW s, NEW n \in Nat, DOMAIN s = 1 .. n,
         NEW g, DOMAIN g = 1 .. n, g = [i \in 1 .. n |-> g[i]], n >= 1 => g[1] = 0,
         \A i \in 2 .. n : g[i] = AlignUp(g[i - 1] + s[i - 1].size, s[i].align)
  PROVE  Offsets(s) = g
<1> DEFINE Step(h) == [i \in 1 .. n |-> IF i = 1 THEN 0
                                       ELSE AlignUp(h[i - 1] + s[i - 1].size, s[i].align)]
           S == {k \in Nat : k \in 1 .. n => Offsets(s)[k] = g[k]}
<1>1. g = Step(g)
  <2>1. \A i \in 1 .. n : g[i] = Step(g)[i]
    <3>1. \A i \in 1 .. n : i # 1 => i \in 2 .. n
      OBVIOUS
    <3>2. \A i \in 1 .. n : i = 1 => g[i] = 0
      OBVIOUS
    <3> QED
      BY <3>1, <3>2
  <2> QED
    BY <2>1
<1>2. Offsets(s) = Step(Offsets(s))
  BY <1>1 DEF Offsets
<1>3. 0 \in S
  OBVIOUS
<1>4. ASSUME NEW k \in Nat, k \in S PROVE k + 1 \in S
  <2> SUFFICES ASSUME k + 1 \in 1 .. n PROVE Offsets(s)[k + 1] = g[k + 1]
    OBVIOUS
  <2>1. Offsets(s)[k + 1] = Step(Offsets(s))[k + 1]
    BY <1>2
  <2>2. CASE k = 0
    BY <2>1, <2>2
  <2>3. CASE k # 0
    <3>1. (k + 1) - 1 = k /\ k \in 1 .. n /\ k + 1 \in 2 .. n /\ k + 1 # 1
      BY <2>3
    <3>2. Offsets(s)[k] = g[k]
      BY <1>4, <3>1
    <3> QED
      BY <2>1, <3>1, <3>2
  <2> QED
    BY <2>2, <2>3
<1>5. Nat \subseteq S
  <2> HIDE DEF S
  <2> QED
    BY <1>3, <1>4, Induction
<1>6. \A k \in 1 .. n : Offsets(s)[k] = g[k]
  BY <1>5
<1>7. Offsets(s) = [i \in 1 .. n |-> Offsets(s)[i]]
  BY <1>2
<1> QED
  BY <1>6, <1>7

(* The n reads of r begin at g.                                            *)
Starts(r, n, g) ==
  /\ n \in Nat /\ DOMAIN r = 1 .. n
  /\ DOMAIN g = 1 .. n /\ g = [i \in 1 .. n |-> g[i]] /\ (n >= 1 => g[1] = 0)
  /\ \A i \in 2 .. n : g[i] = g[i - 1] + r[i - 1].size

(* The places of a decoder's reads, binary.Read after binary.Read from one *)
(* buffer, are the running sums of the widths before them.                 *)
LEMMA ReadsAre ==
  ASSUME NEW r, NEW n, NEW g, Starts(r, n, g)
  PROVE  /\ DOMAIN Sequential(r) = 1 .. n
         /\ \A i \in 1 .. n :
              Sequential(r)[i] = [go |-> r[i].go, at |-> <<g[i], g[i] + r[i].size>>, c |-> r[i].c]
<1> USE DEF Starts
<1> DEFINE Step(h) == [i \in 1 .. n |-> IF i = 1 THEN 0 ELSE h[i - 1] + r[i - 1].size]
           at == CHOOSE h : h = [i \in DOMAIN r |-> IF i = 1 THEN 0 ELSE h[i - 1] + r[i - 1].size]
           S == {k \in Nat : k \in 1 .. n => at[k] = g[k]}
<1>1. g = Step(g)
  <2>1. \A i \in 1 .. n : g[i] = Step(g)[i]
    <3>1. \A i \in 1 .. n : i # 1 => i \in 2 .. n
      OBVIOUS
    <3>2. \A i \in 1 .. n : i = 1 => g[i] = 0
      OBVIOUS
    <3> QED
      BY <3>1, <3>2
  <2> QED
    BY <2>1
<1>2. at = Step(at)
  BY <1>1
<1>3. Sequential(r) = [i \in DOMAIN r |->
         [go |-> r[i].go, at |-> Span(at[i], at[i] + r[i].size), c |-> r[i].c]]
  BY DEF Sequential
<1> HIDE DEF at
<1>4. 0 \in S
  OBVIOUS
<1>5. ASSUME NEW k \in Nat, k \in S PROVE k + 1 \in S
  <2> SUFFICES ASSUME k + 1 \in 1 .. n PROVE at[k + 1] = g[k + 1]
    OBVIOUS
  <2>1. at[k + 1] = Step(at)[k + 1]
    BY <1>2
  <2>2. CASE k = 0
    BY <2>1, <2>2
  <2>3. CASE k # 0
    <3>1. (k + 1) - 1 = k /\ k \in 1 .. n /\ k + 1 \in 2 .. n /\ k + 1 # 1
      BY <2>3
    <3>2. at[k] = g[k]
      BY <1>5, <3>1
    <3> QED
      BY <2>1, <3>1, <3>2
  <2> QED
    BY <2>2, <2>3
<1>6. Nat \subseteq S
  <2> HIDE DEF S
  <2> QED
    BY <1>4, <1>5, Induction
<1>7. \A k \in 1 .. n : at[k] = g[k]
  <2>1. \A k \in 1 .. n : k \in S
    <3> HIDE DEF S
    <3> QED
      BY <1>6
  <2> QED
    BY <2>1
<1> QED
  BY <1>3, <1>7 DEF Span

(* The length of a sequence given by its fields.                           *)
LEMMA LenIs ==
  ASSUME NEW s, NEW n \in Nat, s = [i \in 1 .. n |-> s[i]]
  PROVE  Len(s) = n
<1>1. s \in [1 .. n -> {s[i] : i \in 1 .. n}]
  OBVIOUS
<1>2. s \in Seq({s[i] : i \in 1 .. n}) /\ DOMAIN s = 1 .. n
  BY <1>1
<1> QED
  BY <1>2

(* sizeof of a struct: the end of the last field, rounded up to the        *)
(* largest alignment.                                                      *)
LEMMA SizeIs ==
  ASSUME NEW s, NEW m \in DOMAIN s,
         \A i \in DOMAIN s : s[i].align \in Nat /\ s[i].align <= s[m].align
  PROVE  SizeOf(s) = AlignUp(Offsets(s)[Len(s)] + s[Len(s)].size, s[m].align)
<1> DEFINE largest == CHOOSE a \in {s[i].align : i \in DOMAIN s} :
                        \A i \in DOMAIN s : s[i].align <= a
<1>1. \E a \in {s[i].align : i \in DOMAIN s} : \A i \in DOMAIN s : s[i].align <= a
  OBVIOUS
<1>2. largest \in {s[i].align : i \in DOMAIN s} /\ \A i \in DOMAIN s : s[i].align <= largest
  BY <1>1
<1>3. largest = s[m].align
  BY <1>2
<1>4. SizeOf(s) = AlignUp(Offsets(s)[Len(s)] + s[Len(s)].size, largest)
  BY DEF SizeOf
<1> HIDE DEF largest
<1> QED
  BY <1>3, <1>4

(* A field is found by its name, no other having it.                       *)
LEMMA PlaceIs ==
  ASSUME NEW s, NEW i \in DOMAIN s, \A j \in DOMAIN s : s[j].name = s[i].name => j = i
  PROVE  Place(s, s[i].name) = <<Offsets(s)[i], Offsets(s)[i] + s[i].size>>
<1>1. IndexOf(s, s[i].name) = i
  BY DEF IndexOf
<1> QED
  BY <1>1 DEF Place, Span

(* The struct s has n fields with different names, g are their offsets and *)
(* field m has the largest alignment.                                      *)
LaidOut(s, n, g, m) ==
  /\ n \in Nat \ {0} /\ m \in 1 .. n
  /\ DOMAIN s = 1 .. n /\ s = [i \in 1 .. n |-> s[i]]
  /\ DOMAIN g = 1 .. n /\ g = [i \in 1 .. n |-> g[i]]
  /\ g[1] = 0 /\ \A i \in 2 .. n : g[i] = AlignUp(g[i - 1] + s[i - 1].size, s[i].align)
  /\ \A i \in 1 .. n : s[i].align \in Nat /\ s[i].align <= s[m].align
  /\ \A i, j \in 1 .. n : s[i].name = s[j].name => i = j

(* The size and the place of every field of a struct that is laid out so.  *)
LEMMA LayoutIs ==
  ASSUME NEW s, NEW n, NEW g, NEW m, LaidOut(s, n, g, m)
  PROVE  /\ SizeOf(s) = AlignUp(g[n] + s[n].size, s[m].align)
         /\ \A i \in 1 .. n : Place(s, s[i].name) = <<g[i], g[i] + s[i].size>>
<1> USE DEF LaidOut
<1>1. Offsets(s) = g
  BY OffsetsAre, ZenonT(40)
<1>2. Len(s) = n
  BY LenIs
<1>3. SizeOf(s) = AlignUp(Offsets(s)[Len(s)] + s[Len(s)].size, s[m].align)
  <2>1. m \in DOMAIN s /\ \A i \in DOMAIN s : s[i].align \in Nat /\ s[i].align <= s[m].align
    OBVIOUS
  <2> HIDE DEF LaidOut
  <2> QED
    BY <2>1, SizeIs
<1>4. \A i \in 1 .. n : Place(s, s[i].name) = <<Offsets(s)[i], Offsets(s)[i] + s[i].size>>
  BY PlaceIs, Zenon
<1> QED
  BY <1>1, <1>2, <1>3, <1>4, Zenon

(* What a sample is decoded to when no read is beyond its end.             *)
ReadsWhole(s, q) ==
  /\ q = ReadsOf(s.decoder, s.len)
  /\ \A i \in DOMAIN q : InPayload(s, q[i])
  /\ \A i, j \in DOMAIN q : q[i].go = q[j].go => i = j

(* When no read is beyond the end, Decode returns no error but that of a   *)
(* packet that is no DNS message, and every field has the bytes of its     *)
(* read.                                                                   *)
LEMMA FieldsAre ==
  ASSUME NEW s, NEW q, ReadsWhole(s, q)
  PROVE  /\ s.decoder \in Decoders \ {"UDPEvent"} => Decode(s) = "ok"
         /\ s.decoder = "UDPEvent" => Decode(s) = IF calls[s.call].message THEN "ok" ELSE "error"
         /\ \A go \in DOMAIN Fields(s) : \E i \in DOMAIN q : q[i].go = go
         /\ \A i \in DOMAIN q : q[i].go \in DOMAIN Fields(s) /\ Fields(s)[q[i].go] = q[i].at
<1> USE DEF ReadsWhole
<1> DEFINE short == {i \in DOMAIN q : ~InPayload(s, q[i])}
           whole == {i \in DOMAIN q : InPayload(s, q[i])}
<1>1. short = {} /\ whole = DOMAIN q
  OBVIOUS
<1>2. Fields(s) = [g \in {q[i].go : i \in whole} |-> q[CHOOSE i \in whole : q[i].go = g].at]
  BY DEF Fields
<1>3. ASSUME NEW i \in DOMAIN q PROVE Fields(s)[q[i].go] = q[i].at
  <2>1. (CHOOSE j \in whole : q[j].go = q[i].go) = i
    BY <1>1
  <2> HIDE DEF whole
  <2> QED
    BY <1>1, <1>2, <2>1
<1>4. /\ s.decoder \in Decoders \ {"UDPEvent"} => Decode(s) = "ok"
      /\ s.decoder = "UDPEvent" => Decode(s) = IF calls[s.call].message THEN "ok" ELSE "error"
  <2>1. Decode(s) =
          CASE s.decoder = "TCPEvent" -> IF short \subseteq {Len(q)} THEN "ok" ELSE "error"
            [] s.decoder = "BpfCallEvent" -> IF short = {} THEN "ok" ELSE "panic"
            [] s.decoder = "UDPEvent" ->
                 IF 1 \in short THEN "error" ELSE IF short # {} THEN "panic"
                 ELSE IF calls[s.call].message THEN "ok" ELSE "error"
            [] s.decoder \notin {"TCPEvent", "BpfCallEvent", "UDPEvent"} ->
                 IF short = {} THEN "ok" ELSE "error"
    BY DEF Decode
  <2> HIDE DEF short
  <2> QED
    BY <1>1, <2>1
<1> QED
  BY <1>1, <1>2, <1>3, <1>4

(* The struct's field that a field of the event stands for is the one its  *)
(* read names.                                                             *)
LEMMA MeantIs ==
  ASSUME NEW d, NEW q, q = ReadsOf(d, 0), NEW i \in DOMAIN q,
         \A j \in DOMAIN q : q[j].go = q[i].go => j = i
  PROVE  Meant(d, q[i].go) = q[i].c
<1>1. (CHOOSE j \in DOMAIN q : q[j].go = q[i].go) = i
  OBVIOUS
<1> QED
  BY <1>1 DEF Meant

(* The field go is read from the w lowest bytes of the numeric field f and *)
(* of no other.                                                            *)
ReadFrom(s, go, f, w) ==
  /\ go \in DOMAIN Fields(s) /\ f \in DOMAIN s.num /\ s.num[f] \in Nat /\ w \in Nat
  /\ Fields(s)[go][1] \in Nat /\ Fields(s)[go][2] = Fields(s)[go][1] + w
  /\ Fields(s)[go][1] = Place(StructOf(s.decoder), f)[1]
  /\ \A x \in DOMAIN s.num : Place(StructOf(s.decoder), x)[1] <= Fields(s)[go][1]
                             /\ Fields(s)[go][2] <= Place(StructOf(s.decoder), x)[2] <=> x = f

(* A number read from the low bytes of one field of the struct is that     *)
(* field, cut to the width of the read.                                    *)
LEMMA NumberIs ==
  ASSUME NEW s, NEW go, NEW f, NEW w, ReadFrom(s, go, f, w)
  PROVE  Number(s, go) = IF w >= 4 THEN s.num[f] ELSE s.num[f] % Weight(w)
<1> USE DEF ReadFrom
<1> DEFINE r == Fields(s)[go]
           place(x) == Place(StructOf(s.decoder), x)
           in == {x \in DOMAIN s.num : place(x)[1] <= r[1] /\ r[2] <= place(x)[2]}
<1>1. in = {f}
  OBVIOUS
<1>2. (CHOOSE x \in in : TRUE) = f
  BY <1>1
<1>3. NumberAt(s, r) =
        IF in = {} THEN -1
        ELSE IF r[2] - r[1] >= 4
             THEN s.num[CHOOSE x \in in : TRUE]
                    \div Weight(r[1] - place(CHOOSE x \in in : TRUE)[1])
             ELSE (s.num[CHOOSE x \in in : TRUE]
                    \div Weight(r[1] - place(CHOOSE x \in in : TRUE)[1])) % Weight(r[2] - r[1])
  BY DEF NumberAt
<1>4. Weight(r[1] - place(f)[1]) = 1
  <2>1. r[1] - place(f)[1] = 0
    OBVIOUS
  <2> QED
    BY <2>1 DEF Weight
<1>5. s.num[f] \div 1 = s.num[f]
  OBVIOUS
<1>6. r[2] - r[1] = w
  OBVIOUS
<1> HIDE DEF in, place
<1> QED
  BY <1>1, <1>2, <1>3, <1>4, <1>5, <1>6 DEF Number

(* The sample s is decoded by the n reads of r, of different fields, which *)
(* begin at g and end within the payload.                                  *)
ReadInOrder(s, r, n, g) ==
  /\ s.decoder \in Decoders \ {"UDPEvent"}
  /\ ReadsOf(s.decoder, s.len) = Sequential(r) /\ ReadsOf(s.decoder, 0) = Sequential(r)
  /\ Starts(r, n, g)
  /\ \A i \in 1 .. n : g[i] \in Nat /\ r[i].size \in Nat /\ g[i] + r[i].size <= s.len
  /\ \A i, j \in 1 .. n : r[i].go = r[j].go => i = j

(* Decode fills every field of the n reads of r, at g.                     *)
Filled(s, r, n, g) ==
  /\ Decode(s) = "ok"
  /\ \A i \in 1 .. n :
       /\ r[i].go \in DOMAIN Fields(s) /\ Fields(s)[r[i].go] = <<g[i], g[i] + r[i].size>>
       /\ Meant(s.decoder, r[i].go) = r[i].c

(* A decoder that reads in order within its payload fills every field.     *)
LEMMA SequentialFields ==
  ASSUME NEW s, NEW r, NEW n, NEW g, ReadInOrder(s, r, n, g)
  PROVE  Filled(s, r, n, g)
<1> DEFINE q == Sequential(r)
<1>1. /\ DOMAIN q = 1 .. n
      /\ \A i \in 1 .. n : q[i] = [go |-> r[i].go, at |-> <<g[i], g[i] + r[i].size>>, c |-> r[i].c]
  BY ReadsAre DEF ReadInOrder
<1> HIDE DEF q
<1>2. \A i \in 1 .. n : q[i].go = r[i].go /\ q[i].at = <<g[i], g[i] + r[i].size>> /\ q[i].c = r[i].c
  BY <1>1
<1>3. \A i \in DOMAIN q : InPayload(s, q[i])
  BY <1>1, <1>2 DEF InPayload, ReadInOrder, Starts
<1>4. \A i, j \in DOMAIN q : q[i].go = q[j].go => i = j
  BY <1>1, <1>2 DEF ReadInOrder
<1>5. q = ReadsOf(s.decoder, 0) /\ ReadsWhole(s, q)
  BY <1>3, <1>4 DEF q, ReadInOrder, ReadsWhole
<1>6. /\ Decode(s) = "ok"
      /\ \A i \in DOMAIN q : q[i].go \in DOMAIN Fields(s) /\ Fields(s)[q[i].go] = q[i].at
  <2>1. s.decoder \in Decoders \ {"UDPEvent"}
    BY DEF ReadInOrder
  <2> QED
    BY <1>5, <2>1, FieldsAre
<1>7. \A i \in DOMAIN q : Meant(s.decoder, q[i].go) = q[i].c
  BY <1>4, <1>5, MeantIs
<1> QED
  BY <1>1, <1>2, <1>6, <1>7 DEF Filled

-----------------------------------------------------------------------------
(* The structs and the decoders                                            *)

(* The positions in a struct of 24 fields or fewer, one by one.            *)
LEMMA Indices ==
  \A i \in 1 .. 24 :
    \/ i = 1 \/ i = 2 \/ i = 3 \/ i = 4 \/ i = 5 \/ i = 6 \/ i = 7 \/ i = 8
    \/ i = 9 \/ i = 10 \/ i = 11 \/ i = 12 \/ i = 13 \/ i = 14 \/ i = 15 \/ i = 16
    \/ i = 17 \/ i = 18 \/ i = 19 \/ i = 20 \/ i = 21 \/ i = 22 \/ i = 23 \/ i = 24
OBVIOUS

(* sizeof(struct event_t), and where the compiler puts its fields.         *)
LEMMA Layout_event_t ==
  LET g == <<0, 8, 16, 20, 24, 26, 30, 32, 33, 41, 49, 65, 67>> IN
  /\ SizeOf(event_t) = 71
  /\ \A i \in 1 .. 13 : Place(event_t, event_t[i].name) = <<g[i], g[i] + event_t[i].size>>
<1> DEFINE g == <<0, 8, 16, 20, 24, 26, 30, 32, 33, 41, 49, 65, 67>>
<1>1. DOMAIN event_t = 1 .. 13 /\ event_t = [i \in 1 .. 13 |-> event_t[i]]
  BY DEF event_t, U, Bytes, Packed
<1>2. g = [i \in 1 .. 13 |-> g[i]] /\ DOMAIN g = 1 .. 13 /\ g[1] = 0
  BY Indices
<1>3. \A i \in 2 .. 13 : g[i] = AlignUp(g[i - 1] + event_t[i - 1].size, event_t[i].align)
  BY Indices DEF event_t, U, Bytes, Packed, AlignUp
<1>4. \A i \in 1 .. 13 : event_t[i].align \in Nat /\ event_t[i].align <= event_t[1].align
  BY Indices DEF event_t, U, Bytes, Packed
<1>5. \A i, j \in 1 .. 13 : event_t[i].name = event_t[j].name => i = j
  BY Indices DEF event_t, U, Bytes, Packed
<1>6. AlignUp(g[13] + event_t[13].size, event_t[1].align) = 71
  BY DEF event_t, U, Bytes, Packed, AlignUp
<1> HIDE DEF g
<1>7. LaidOut(event_t, 13, g, 1)
  BY <1>1, <1>2, <1>3, <1>4, <1>5 DEF LaidOut
<1>8. /\ SizeOf(event_t) = AlignUp(g[13] + event_t[13].size, event_t[1].align)
      /\ \A i \in 1 .. 13 : Place(event_t, event_t[i].name) = <<g[i], g[i] + event_t[i].size>>
  BY <1>7, LayoutIs
<1> QED
  BY <1>6, <1>8 DEF g

(* sizeof(struct ipv4_event_t), and where the compiler puts its fields.    *)
LEMMA Layout_ipv4_event_t ==
  LET g == <<0, 8, 12, 16, 20, 24, 26, 30, 32>> IN
  /\ SizeOf(ipv4_event_t) = 48
  /\ \A i \in 1 .. 9 : Place(ipv4_event_t, ipv4_event_t[i].name)
       = <<g[i], g[i] + ipv4_event_t[i].size>>
<1> DEFINE g == <<0, 8, 12, 16, 20, 24, 26, 30, 32>>
<1>1. DOMAIN ipv4_event_t = 1 .. 9 /\ ipv4_event_t = [i \in 1 .. 9 |-> ipv4_event_t[i]]
  BY DEF ipv4_event_t, U, Bytes, Packed
<1>2. g = [i \in 1 .. 9 |-> g[i]] /\ DOMAIN g = 1 .. 9 /\ g[1] = 0
  BY Indices
<1>3. \A i \in 2 .. 9 : g[i] = AlignUp(g[i - 1] + ipv4_event_t[i - 1].size, ipv4_event_t[i].align)
  BY Indices DEF ipv4_event_t, U, Bytes, Packed, AlignUp
<1>4. \A i \in 1 .. 9 : ipv4_event_t[i].align \in Nat
        /\ ipv4_event_t[i].align <= ipv4_event_t[1].align
  BY Indices DEF ipv4_event_t, U, Bytes, Packed
<1>5. \A i, j \in 1 .. 9 : ipv4_event_t[i].name = ipv4_event_t[j].name => i = j
  BY Indices DEF ipv4_event_t, U, Bytes, Packed
<1>6. AlignUp(g[9] + ipv4_event_t[9].size, ipv4_event_t[1].align) = 48
  BY DEF ipv4_event_t, U, Bytes, Packed, AlignUp
<1> HIDE DEF g
<1>7. LaidOut(ipv4_event_t, 9, g, 1)
  BY <1>1, <1>2, <1>3, <1>4, <1>5 DEF LaidOut
<1>8. /\ SizeOf(ipv4_event_t) = AlignUp(g[9] + ipv4_event_t[9].size, ipv4_event_t[1].align)
      /\ \A i \in 1 .. 9 : Place(ipv4_event_t, ipv4_event_t[i].name)
           = <<g[i], g[i] + ipv4_event_t[i].size>>
  BY <1>7, LayoutIs
<1> QED
  BY <1>6, <1>8 DEF g

(* sizeof(struct ipv6_event_t), and where the compiler puts its fields.    *)
LEMMA Layout_ipv6_event_t ==
  LET g == <<0, 8, 12, 16, 20, 36, 52>> IN
  /\ SizeOf(ipv6_event_t) = 54
  /\ \A i \in 1 .. 7 : Place(ipv6_event_t, ipv6_event_t[i].name)
       = <<g[i], g[i] + ipv6_event_t[i].size>>
<1> DEFINE g == <<0, 8, 12, 16, 20, 36, 52>>
<1>1. DOMAIN ipv6_event_t = 1 .. 7 /\ ipv6_event_t = [i \in 1 .. 7 |-> ipv6_event_t[i]]
  BY DEF ipv6_event_t, U, Bytes, Packed
<1>2. g = [i \in 1 .. 7 |-> g[i]] /\ DOMAIN g = 1 .. 7 /\ g[1] = 0
  BY Indices
<1>3. \A i \in 2 .. 7 : g[i] = AlignUp(g[i - 1] + ipv6_event_t[i - 1].size, ipv6_event_t[i].align)
  BY Indices DEF ipv6_event_t, U, Bytes, Packed, AlignUp
<1>4. \A i \in 1 .. 7 : ipv6_event_t[i].align \in Nat
        /\ ipv6_event_t[i].align <= ipv6_event_t[1].align
  BY Indices DEF ipv6_event_t, U, Bytes, Packed
<1>5. \A i, j \in 1 .. 7 : ipv6_event_t[i].name = ipv6_event_t[j].name => i = j
  BY Indices DEF ipv6_event_t, U, Bytes, Packed
<1>6. AlignUp(g[7] + ipv6_event_t[7].size, ipv6_event_t[1].align) = 54
  BY DEF ipv6_event_t, U, Bytes, Packed, AlignUp
<1> HIDE DEF g
<1>7. LaidOut(ipv6_event_t, 7, g, 1)
  BY <1>1, <1>2, <1>3, <1>4, <1>5 DEF LaidOut
<1>8. /\ SizeOf(ipv6_event_t) = AlignUp(g[7] + ipv6_event_t[7].size, ipv6_event_t[1].align)
      /\ \A i \in 1 .. 7 : Place(ipv6_event_t, ipv6_event_t[i].name)
           = <<g[i], g[i] + ipv6_event_t[i].size>>
  BY <1>7, LayoutIs
<1> QED
  BY <1>6, <1>8 DEF g

(* sizeof(struct other_socket_event_t), and where the compiler puts its    *)
(* fields.                                                                 *)
LEMMA Layout_other_socket_event_t ==
  LET g == <<0, 8, 12, 16, 20>> IN
  /\ SizeOf(other_socket_event_t) = 36
  /\ \A i \in 1 .. 5 : Place(other_socket_event_t, other_socket_event_t[i].name)
       = <<g[i], g[i] + other_socket_event_t[i].size>>
<1> DEFINE g == <<0, 8, 12, 16, 20>>
<1>1. DOMAIN other_socket_event_t = 1 .. 5
        /\ other_socket_event_t = [i \in 1 .. 5 |-> other_socket_event_t[i]]
  BY DEF other_socket_event_t, U, Bytes, Packed
<1>2. g = [i \in 1 .. 5 |-> g[i]] /\ DOMAIN g = 1 .. 5 /\ g[1] = 0
  BY Indices
<1>3. \A i \in 2 .. 5 : g[i]
        = AlignUp(g[i - 1] + other_socket_event_t[i - 1].size, other_socket_event_t[i].align)
  BY Indices DEF other_socket_event_t, U, Bytes, Packed, AlignUp
<1>4. \A i \in 1 .. 5 : other_socket_event_t[i].align \in Nat
        /\ other_socket_event_t[i].align <= other_socket_event_t[1].align
  BY Indices DEF other_socket_event_t, U, Bytes, Packed
<1>5. \A i, j \in 1 .. 5 : other_socket_event_t[i].name = other_socket_event_t[j].name => i = j
  BY Indices DEF other_socket_event_t, U, Bytes, Packed
<1>6. AlignUp(g[5] + other_socket_event_t[5].size, other_socket_event_t[1].align) = 36
  BY DEF other_socket_event_t, U, Bytes, Packed, AlignUp
<1> HIDE DEF g
<1>7. LaidOut(other_socket_event_t, 5, g, 1)
  BY <1>1, <1>2, <1>3, <1>4, <1>5 DEF LaidOut
<1>8. /\ SizeOf(other_socket_event_t)
           = AlignUp(g[5] + other_socket_event_t[5].size, other_socket_event_t[1].align)
      /\ \A i \in 1 .. 5 : Place(other_socket_event_t, other_socket_event_t[i].name)
           = <<g[i], g[i] + other_socket_event_t[i].size>>
  BY <1>7, LayoutIs
<1> QED
  BY <1>6, <1>8 DEF g

(* sizeof(struct data_t), and where the compiler puts its fields.          *)
LEMMA Layout_data_t ==
  LET g == <<0, 4, 8, 12, 16, 32>> IN
  /\ SizeOf(data_t) = 112
  /\ \A i \in 1 .. 6 : Place(data_t, data_t[i].name) = <<g[i], g[i] + data_t[i].size>>
<1> DEFINE g == <<0, 4, 8, 12, 16, 32>>
<1>1. DOMAIN data_t = 1 .. 6 /\ data_t = [i \in 1 .. 6 |-> data_t[i]]
  BY DEF data_t, U, Bytes, Packed
<1>2. g = [i \in 1 .. 6 |-> g[i]] /\ DOMAIN g = 1 .. 6 /\ g[1] = 0
  BY Indices
<1>3. \A i \in 2 .. 6 : g[i] = AlignUp(g[i - 1] + data_t[i - 1].size, data_t[i].align)
  BY Indices DEF data_t, U, Bytes, Packed, AlignUp
<1>4. \A i \in 1 .. 6 : data_t[i].align \in Nat /\ data_t[i].align <= data_t[1].align
  BY Indices DEF data_t, U, Bytes, Packed
<1>5. \A i, j \in 1 .. 6 : data_t[i].name = data_t[j].name => i = j
  BY Indices DEF data_t, U, Bytes, Packed
<1>6. AlignUp(g[6] + data_t[6].size, data_t[1].align) = 112
  BY DEF data_t, U, Bytes, Packed, AlignUp
<1> HIDE DEF g
<1>7. LaidOut(data_t, 6, g, 1)
  BY <1>1, <1>2, <1>3, <1>4, <1>5 DEF LaidOut
<1>8. /\ SizeOf(data_t) = AlignUp(g[6] + data_t[6].size, data_t[1].align)
      /\ \A i \in 1 .. 6 : Place(data_t, data_t[i].name) = <<g[i], g[i] + data_t[i].size>>
  BY <1>7, LayoutIs
<1> QED
  BY <1>6, <1>8 DEF g

(* sizeof(struct jdk_execvpe), and where the compiler puts its fields.     *)
LEMMA Layout_jdk_execvpe ==
  LET g == <<0, 4, 12>> IN
  /\ SizeOf(jdk_execvpe) = 140
  /\ \A i \in 1 .. 3 : Place(jdk_execvpe, jdk_execvpe[i].name)
       = <<g[i], g[i] + jdk_execvpe[i].size>>
<1> DEFINE g == <<0, 4, 12>>
<1>1. DOMAIN jdk_execvpe = 1 .. 3 /\ jdk_execvpe = [i \in 1 .. 3 |-> jdk_execvpe[i]]
  BY DEF jdk_execvpe, U, Bytes, Packed
<1>2. g = [i \in 1 .. 3 |-> g[i]] /\ DOMAIN g = 1 .. 3 /\ g[1] = 0
  BY Indices
<1>3. \A i \in 2 .. 3 : g[i] = AlignUp(g[i - 1] + jdk_execvpe[i - 1].size, jdk_execvpe[i].align)
  BY Indices DEF jdk_execvpe, U, Bytes, Packed, AlignUp
<1>4. \A i \in 1 .. 3 : jdk_execvpe[i].align \in Nat /\ jdk_execvpe[i].align <= jdk_execvpe[1].align
  BY Indices DEF jdk_execvpe, U, Bytes, Packed
<1>5. \A i, j \in 1 .. 3 : jdk_execvpe[i].name = jdk_execvpe[j].name => i = j
  BY Indices DEF jdk_execvpe, U, Bytes, Packed
<1>6. AlignUp(g[3] + jdk_execvpe[3].size, jdk_execvpe[1].align) = 140
  BY DEF jdk_execvpe, U, Bytes, Packed, AlignUp
<1> HIDE DEF g
<1>7. LaidOut(jdk_execvpe, 3, g, 1)
  BY <1>1, <1>2, <1>3, <1>4, <1>5 DEF LaidOut
<1>8. /\ SizeOf(jdk_execvpe) = AlignUp(g[3] + jdk_execvpe[3].size, jdk_execvpe[1].align)
      /\ \A i \in 1 .. 3 : Place(jdk_execvpe, jdk_execvpe[i].name)
           = <<g[i], g[i] + jdk_execvpe[i].size>>
  BY <1>7, LayoutIs
<1> QED
  BY <1>6, <1>8 DEF g

(* sizeof(struct proc_info_t), and where the compiler puts its fields.     *)
LEMMA Layout_proc_info_t ==
  LET g == <<0, 4, 8, 12, 16, 20, 24, 28, 32, 36, 40, 48, 56, 72, 200>> IN
  /\ SizeOf(proc_info_t) = 328
  /\ \A i \in 1 .. 15 : Place(proc_info_t, proc_info_t[i].name)
       = <<g[i], g[i] + proc_info_t[i].size>>
<1> DEFINE g == <<0, 4, 8, 12, 16, 20, 24, 28, 32, 36, 40, 48, 56, 72, 200>>
<1>1. DOMAIN proc_info_t = 1 .. 15 /\ proc_info_t = [i \in 1 .. 15 |-> proc_info_t[i]]
  BY DEF proc_info_t, U, Bytes
<1>2. g = [i \in 1 .. 15 |-> g[i]] /\ DOMAIN g = 1 .. 15 /\ g[1] = 0
  BY Indices
<1>3. \A i \in 2 .. 15 : g[i] = AlignUp(g[i - 1] + proc_info_t[i - 1].size, proc_info_t[i].align)
  BY Indices DEF proc_info_t, U, Bytes, AlignUp
<1>4. \A i \in 1 .. 15 : proc_info_t[i].align \in Nat
        /\ proc_info_t[i].align <= proc_info_t[12].align
  BY Indices DEF proc_info_t, U, Bytes
<1>5. \A i, j \in 1 .. 15 : proc_info_t[i].name = proc_info_t[j].name => i = j
  BY Indices DEF proc_info_t, U, Bytes
<1>6. AlignUp(g[15] + proc_info_t[15].size, proc_info_t[12].align) = 328
  BY DEF proc_info_t, U, Bytes, AlignUp
<1> HIDE DEF g
<1>7. LaidOut(proc_info_t, 15, g, 12)
  BY <1>1, <1>2, <1>3, <1>4, <1>5 DEF LaidOut
<1>8. /\ SizeOf(proc_info_t) = AlignUp(g[15] + proc_info_t[15].size, proc_info_t[12].align)
      /\ \A i \in 1 .. 15 : Place(proc_info_t, proc_info_t[i].name)
           = <<g[i], g[i] + proc_info_t[i].size>>
  BY <1>7, LayoutIs
<1> QED
  BY <1>6, <1>8 DEF g

(* sizeof(struct bpf_context_t), and where the compiler puts its fields.   *)
LEMMA Layout_bpf_context_t ==
  LET g == <<0, 4, 8, 12, 16, 20, 24, 28, 32, 36, 40, 44, 48, 52, 56, 60, 64, 68, 72, 76, 80,
             88, 104, 360>> IN
  /\ SizeOf(bpf_context_t) = 424
  /\ \A i \in 1 .. 24 : Place(bpf_context_t, bpf_context_t[i].name)
       = <<g[i], g[i] + bpf_context_t[i].size>>
<1> DEFINE g == <<0, 4, 8, 12, 16, 20, 24, 28, 32, 36, 40, 44, 48, 52, 56, 60, 64, 68, 72, 76,
                    80, 88, 104, 360>>
<1>1. DOMAIN bpf_context_t = 1 .. 24 /\ bpf_context_t = [i \in 1 .. 24 |-> bpf_context_t[i]]
  BY DEF bpf_context_t, U, Bytes
<1>2. g = [i \in 1 .. 24 |-> g[i]] /\ DOMAIN g = 1 .. 24 /\ g[1] = 0
  BY Indices
<1>3. \A i \in 2 .. 24 : g[i]
        = AlignUp(g[i - 1] + bpf_context_t[i - 1].size, bpf_context_t[i].align)
  BY Indices DEF bpf_context_t, U, Bytes, AlignUp
<1>4. \A i \in 1 .. 24 : bpf_context_t[i].align \in Nat
        /\ bpf_context_t[i].align <= bpf_context_t[21].align
  BY Indices DEF bpf_context_t, U, Bytes
<1>5. \A i, j \in 1 .. 24 : bpf_context_t[i].name = bpf_context_t[j].name => i = j
  BY Indices DEF bpf_context_t, U, Bytes
<1>6. AlignUp(g[24] + bpf_context_t[24].size, bpf_context_t[21].align) = 424
  BY DEF bpf_context_t, U, Bytes, AlignUp
<1> HIDE DEF g
<1>7. LaidOut(bpf_context_t, 24, g, 21)
  <2>1. 24 \in Nat \ {0} /\ 21 \in 1 .. 24
    OBVIOUS
  <2> QED
    BY <1>1, <1>2, <1>3, <1>4, <1>5, <2>1, Zenon DEF LaidOut
<1>8. /\ SizeOf(bpf_context_t) = AlignUp(g[24] + bpf_context_t[24].size, bpf_context_t[21].align)
      /\ \A i \in 1 .. 24 : Place(bpf_context_t, bpf_context_t[i].name)
           = <<g[i], g[i] + bpf_context_t[i].size>>
  BY <1>7, LayoutIs
<1> QED
  BY <1>6, <1>8 DEF g

(* sizeof(struct dns_data_t), and where the compiler puts its fields.      *)
LEMMA Layout_dns_data_t ==
  LET g == <<0, 4, 20>> IN
  /\ SizeOf(dns_data_t) = 532
  /\ \A i \in 1 .. 3 : Place(dns_data_t, dns_data_t[i].name) = <<g[i], g[i] + dns_data_t[i].size>>
<1> DEFINE g == <<0, 4, 20>>
<1>1. DOMAIN dns_data_t = 1 .. 3 /\ dns_data_t = [i \in 1 .. 3 |-> dns_data_t[i]]
  BY DEF dns_data_t, U, Bytes
<1>2. g = [i \in 1 .. 3 |-> g[i]] /\ DOMAIN g = 1 .. 3 /\ g[1] = 0
  BY Indices
<1>3. \A i \in 2 .. 3 : g[i] = AlignUp(g[i - 1] + dns_data_t[i - 1].size, dns_data_t[i].align)
  BY Indices DEF dns_data_t, U, Bytes, AlignUp
<1>4. \A i \in 1 .. 3 : dns_data_t[i].align \in Nat /\ dns_data_t[i].align <= dns_data_t[1].align
  BY Indices DEF dns_data_t, U, Bytes
<1>5. \A i, j \in 1 .. 3 : dns_data_t[i].name = dns_data_t[j].name => i = j
  BY Indices DEF dns_data_t, U, Bytes
<1>6. AlignUp(g[3] + dns_data_t[3].size, dns_data_t[1].align) = 532
  BY DEF dns_data_t, U, Bytes, AlignUp
<1> HIDE DEF g
<1>7. LaidOut(dns_data_t, 3, g, 1)
  BY <1>1, <1>2, <1>3, <1>4, <1>5 DEF LaidOut
<1>8. /\ SizeOf(dns_data_t) = AlignUp(g[3] + dns_data_t[3].size, dns_data_t[1].align)
      /\ \A i \in 1 .. 3 : Place(dns_data_t, dns_data_t[i].name)
           = <<g[i], g[i] + dns_data_t[i].size>>
  BY <1>7, LayoutIs
<1> QED
  BY <1>6, <1>8 DEF g

(* The payload is as long as the struct that its program outputs.          *)
Sized(s) == s.len = PayloadLen(s.decoder, SizeOf(StructOf(s.decoder)))

(* TCPEvent.Decode fills every field from a sample of its program's size,  *)
(* perf's padding included, at these offsets.                              *)
LEMMA Fields_TCPEvent ==
  ASSUME NEW s, s.decoder = "TCPEvent", Sized(s)
  PROVE  Filled(s, TCPEvent, 13, <<0, 8, 16, 20, 24, 26, 30, 32, 33, 41, 49, 65, 67>>)
<1> DEFINE g == <<0, 8, 16, 20, 24, 26, 30, 32, 33, 41, 49, 65, 67>>
<1>1. s.len = 76
  BY Layout_event_t DEF Sized, StructOf, PayloadLen, AlignUp
<1>2. /\ ReadsOf(s.decoder, s.len) = Sequential(TCPEvent)
      /\ ReadsOf(s.decoder, 0) = Sequential(TCPEvent)
      /\ s.decoder \in Decoders \ {"UDPEvent"}
  BY DEF ReadsOf, Decoders
<1>3. ReadInOrder(s, TCPEvent, 13, g)
  <2>1. DOMAIN TCPEvent = 1 .. 13 /\ g = [i \in 1 .. 13 |-> g[i]] /\ DOMAIN g = 1 .. 13 /\ g[1] = 0
    BY Indices DEF TCPEvent, Read
  <2>2. \A i \in 2 .. 13 : g[i] = g[i - 1] + TCPEvent[i - 1].size
    BY Indices DEF TCPEvent, Read
  <2>3. \A i \in 1 .. 13 : g[i] \in Nat /\ TCPEvent[i].size \in Nat /\ g[i] + TCPEvent[i].size <= 76
    BY Indices DEF TCPEvent, Read
  <2>4. \A i, j \in 1 .. 13 : TCPEvent[i].go = TCPEvent[j].go => i = j
    BY Indices DEF TCPEvent, Read
  <2> HIDE DEF g
  <2>5. Starts(TCPEvent, 13, g)
    BY <2>1, <2>2 DEF Starts
  <2> QED
    BY <1>1, <1>2, <2>3, <2>4, <2>5 DEF ReadInOrder
<1> QED
  BY <1>3, SequentialFields

(* EventIPV4.Decode fills every field from a sample of its program's size, *)
(* perf's padding included, at these offsets.                              *)
LEMMA Fields_EventIPV4 ==
  ASSUME NEW s, s.decoder = "EventIPV4", Sized(s)
  PROVE  Filled(s, EventIPV4, 9, <<0, 8, 12, 16, 20, 24, 26, 30, 32>>)
<1> DEFINE g == <<0, 8, 12, 16, 20, 24, 26, 30, 32>>
<1>1. s.len = 52
  BY Layout_ipv4_event_t DEF Sized, StructOf, PayloadLen, AlignUp
<1>2. /\ ReadsOf(s.decoder, s.len) = Sequential(EventIPV4)
      /\ ReadsOf(s.decoder, 0) = Sequential(EventIPV4)
      /\ s.decoder \in Decoders \ {"UDPEvent"}
  BY DEF ReadsOf, Decoders
<1>3. ReadInOrder(s, EventIPV4, 9, g)
  <2>1. DOMAIN EventIPV4 = 1 .. 9 /\ g = [i \in 1 .. 9 |-> g[i]] /\ DOMAIN g = 1 .. 9 /\ g[1] = 0
    BY Indices DEF EventIPV4, Read
  <2>2. \A i \in 2 .. 9 : g[i] = g[i - 1] + EventIPV4[i - 1].size
    BY Indices DEF EventIPV4, Read
  <2>3. \A i \in 1 .. 9 : g[i] \in Nat /\ EventIPV4[i].size \in Nat
          /\ g[i] + EventIPV4[i].size <= 52
    BY Indices DEF EventIPV4, Read
  <2>4. \A i, j \in 1 .. 9 : EventIPV4[i].go = EventIPV4[j].go => i = j
    BY Indices DEF EventIPV4, Read
  <2> HIDE DEF g
  <2>5. Starts(EventIPV4, 9, g)
    BY <2>1, <2>2 DEF Starts
  <2> QED
    BY <1>1, <1>2, <2>3, <2>4, <2>5 DEF ReadInOrder
<1> QED
  BY <1>3, SequentialFields

(* EventIPV6.Decode fills every field from a sample of its program's size, *)
(* perf's padding included, at these offsets.                              *)
LEMMA Fields_EventIPV6 ==
  ASSUME NEW s, s.decoder = "EventIPV6", Sized(s)
  PROVE  Filled(s, EventIPV6, 7, <<0, 8, 12, 16, 18, 34, 50>>)
<1> DEFINE g == <<0, 8, 12, 16, 18, 34, 50>>
<1>1. s.len = 60
  BY Layout_ipv6_event_t DEF Sized, StructOf, PayloadLen, AlignUp
<1>2. /\ ReadsOf(s.decoder, s.len) = Sequential(EventIPV6)
      /\ ReadsOf(s.decoder, 0) = Sequential(EventIPV6)
      /\ s.decoder \in Decoders \ {"UDPEvent"}
  BY DEF ReadsOf, Decoders
<1>3. ReadInOrder(s, EventIPV6, 7, g)
  <2>1. DOMAIN EventIPV6 = 1 .. 7 /\ g = [i \in 1 .. 7 |-> g[i]] /\ DOMAIN g = 1 .. 7 /\ g[1] = 0
    BY Indices DEF EventIPV6, Read
  <2>2. \A i \in 2 .. 7 : g[i] = g[i - 1] + EventIPV6[i - 1].size
    BY Indices DEF EventIPV6, Read
  <2>3. \A i \in 1 .. 7 : g[i] \in Nat /\ EventIPV6[i].size \in Nat
          /\ g[i] + EventIPV6[i].size <= 60
    BY Indices DEF EventIPV6, Read
  <2>4. \A i, j \in 1 .. 7 : EventIPV6[i].go = EventIPV6[j].go => i = j
    BY Indices DEF EventIPV6, Read
  <2> HIDE DEF g
  <2>5. Starts(EventIPV6, 7, g)
    BY <2>1, <2>2 DEF Starts
  <2> QED
    BY <1>1, <1>2, <2>3, <2>4, <2>5 DEF ReadInOrder
<1> QED
  BY <1>3, SequentialFields

(* EventOther.Decode fills every field from a sample of its program's      *)
(* size, perf's padding included, at these offsets.                        *)
LEMMA Fields_EventOther ==
  ASSUME NEW s, s.decoder = "EventOther", Sized(s)
  PROVE  Filled(s, EventOther, 5, <<0, 8, 12, 16, 18>>)
<1> DEFINE g == <<0, 8, 12, 16, 18>>
<1>1. s.len = 36
  BY Layout_other_socket_event_t DEF Sized, StructOf, PayloadLen, AlignUp
<1>2. /\ ReadsOf(s.decoder, s.len) = Sequential(EventOther)
      /\ ReadsOf(s.decoder, 0) = Sequential(EventOther)
      /\ s.decoder \in Decoders \ {"UDPEvent"}
  BY DEF ReadsOf, Decoders
<1>3. ReadInOrder(s, EventOther, 5, g)
  <2>1. DOMAIN EventOther = 1 .. 5 /\ g = [i \in 1 .. 5 |-> g[i]] /\ DOMAIN g = 1 .. 5 /\ g[1] = 0
    BY Indices DEF EventOther, Read
  <2>2. \A i \in 2 .. 5 : g[i] = g[i - 1] + EventOther[i - 1].size
    BY Indices DEF EventOther, Read
  <2>3. \A i \in 1 .. 5 : g[i] \in Nat /\ EventOther[i].size \in Nat
          /\ g[i] + EventOther[i].size <= 36
    BY Indices DEF EventOther, Read
  <2>4. \A i, j \in 1 .. 5 : EventOther[i].go = EventOther[j].go => i = j
    BY Indices DEF EventOther, Read
  <2> HIDE DEF g
  <2>5. Starts(EventOther, 5, g)
    BY <2>1, <2>2 DEF Starts
  <2> QED
    BY <1>1, <1>2, <2>3, <2>4, <2>5 DEF ReadInOrder
<1> QED
  BY <1>3, SequentialFields

(* DNSEVENT.Decode fills every field from a sample of its program's size,  *)
(* perf's padding included, at these offsets.                              *)
LEMMA Fields_DNSEVENT ==
  ASSUME NEW s, s.decoder = "DNSEVENT", Sized(s)
  PROVE  Filled(s, DNSEVENT, 6, <<0, 4, 8, 12, 16, 32>>)
<1> DEFINE g == <<0, 4, 8, 12, 16, 32>>
<1>1. s.len = 116
  BY Layout_data_t DEF Sized, StructOf, PayloadLen, AlignUp
<1>2. /\ ReadsOf(s.decoder, s.len) = Sequential(DNSEVENT)
      /\ ReadsOf(s.decoder, 0) = Sequential(DNSEVENT)
      /\ s.decoder \in Decoders \ {"UDPEvent"}
  BY DEF ReadsOf, Decoders
<1>3. ReadInOrder(s, DNSEVENT, 6, g)
  <2>1. DOMAIN DNSEVENT = 1 .. 6 /\ g = [i \in 1 .. 6 |-> g[i]] /\ DOMAIN g = 1 .. 6 /\ g[1] = 0
    BY Indices DEF DNSEVENT, Read
  <2>2. \A i \in 2 .. 6 : g[i] = g[i - 1] + DNSEVENT[i - 1].size
    BY Indices DEF DNSEVENT, Read
  <2>3. \A i \in 1 .. 6 : g[i] \in Nat /\ DNSEVENT[i].size \in Nat /\ g[i] + DNSEVENT[i].size <= 116
    BY Indices DEF DNSEVENT, Read
  <2>4. \A i, j \in 1 .. 6 : DNSEVENT[i].go = DNSEVENT[j].go => i = j
    BY Indices DEF DNSEVENT, Read
  <2> HIDE DEF g
  <2>5. Starts(DNSEVENT, 6, g)
    BY <2>1, <2>2 DEF Starts
  <2> QED
    BY <1>1, <1>2, <2>3, <2>4, <2>5 DEF ReadInOrder
<1> QED
  BY <1>3, SequentialFields

(* JavaJDKExecPeEvent.Decode fills every field from a sample of its        *)
(* program's size, perf's padding included, at these offsets.              *)
LEMMA Fields_JavaJDKExecPeEvent ==
  ASSUME NEW s, s.decoder = "JavaJDKExecPeEvent", Sized(s)
  PROVE  Filled(s, JavaJDKExecPeEvent, 3, <<0, 4, 12>>)
<1> DEFINE g == <<0, 4, 12>>
<1>1. s.len = 140
  BY Layout_jdk_execvpe DEF Sized, StructOf, PayloadLen, AlignUp
<1>2. /\ ReadsOf(s.decoder, s.len) = Sequential(JavaJDKExecPeEvent)
      /\ ReadsOf(s.decoder, 0) = Sequential(JavaJDKExecPeEvent)
      /\ s.decoder \in Decoders \ {"UDPEvent"}
  BY DEF ReadsOf, Decoders
<1>3. ReadInOrder(s, JavaJDKExecPeEvent, 3, g)
  <2>1. DOMAIN JavaJDKExecPeEvent = 1 .. 3 /\ g = [i \in 1 .. 3 |-> g[i]]
          /\ DOMAIN g = 1 .. 3 /\ g[1] = 0
    BY Indices DEF JavaJDKExecPeEvent, Read
  <2>2. \A i \in 2 .. 3 : g[i] = g[i - 1] + JavaJDKExecPeEvent[i - 1].size
    BY Indices DEF JavaJDKExecPeEvent, Read
  <2>3. \A i \in 1 .. 3 : g[i] \in Nat /\ JavaJDKExecPeEvent[i].size \in Nat
          /\ g[i] + JavaJDKExecPeEvent[i].size <= 140
    BY Indices DEF JavaJDKExecPeEvent, Read
  <2>4. \A i, j \in 1 .. 3 : JavaJDKExecPeEvent[i].go = JavaJDKExecPeEvent[j].go => i = j
    BY Indices DEF JavaJDKExecPeEvent, Read
  <2> HIDE DEF g
  <2>5. Starts(JavaJDKExecPeEvent, 3, g)
    BY <2>1, <2>2 DEF Starts
  <2> QED
    BY <1>1, <1>2, <2>3, <2>4, <2>5 DEF ReadInOrder
<1> QED
  BY <1>3, SequentialFields

(* ForkProcEvent.Decode fills every field from a sample of its program's   *)
(* size, perf's padding included, at these offsets.                        *)
LEMMA Fields_ForkProcEvent ==
  ASSUME NEW s, s.decoder = "ForkProcEvent", Sized(s)
  PROVE  Filled(s, ForkProcEvent, 14, <<0, 4, 8, 12, 16, 20, 24, 28, 32, 36, 40, 48, 64, 192>>)
<1> DEFINE g == <<0, 4, 8, 12, 16, 20, 24, 28, 32, 36, 40, 48, 64, 192>>
<1>1. s.len = 328
  BY Layout_proc_info_t DEF Sized, StructOf, PayloadLen, AlignUp
<1>2. /\ ReadsOf(s.decoder, s.len) = Sequential(ForkProcEvent)
      /\ ReadsOf(s.decoder, 0) = Sequential(ForkProcEvent)
      /\ s.decoder \in Decoders \ {"UDPEvent"}
  BY DEF ReadsOf, Decoders
<1>3. ReadInOrder(s, ForkProcEvent, 14, g)
  <2>1. DOMAIN ForkProcEvent = 1 .. 14 /\ g = [i \in 1 .. 14 |-> g[i]] /\ DOMAIN g = 1 .. 14
          /\ g[1] = 0
    BY Indices DEF ForkProcEvent, Read
  <2>2. \A i \in 2 .. 14 : g[i] = g[i - 1] + ForkProcEvent[i - 1].size
    BY Indices DEF ForkProcEvent, Read
  <2>3. \A i \in 1 .. 14 : g[i] \in Nat /\ ForkProcEvent[i].size \in Nat
          /\ g[i] + ForkProcEvent[i].size <= 328
    BY Indices DEF ForkProcEvent, Read
  <2>4. \A i, j \in 1 .. 14 : ForkProcEvent[i].go = ForkProcEvent[j].go => i = j
    BY Indices DEF ForkProcEvent, Read
  <2> HIDE DEF g
  <2>5. Starts(ForkProcEvent, 14, g)
    BY <2>1, <2>2 DEF Starts
  <2> QED
    BY <1>1, <1>2, <2>3, <2>4, <2>5 DEF ReadInOrder
<1> QED
  BY <1>3, SequentialFields

(* BpfCallEvent.Decode fills every field from a sample of its program's    *)
(* size, perf's padding included, at these offsets.                        *)
LEMMA Fields_BpfCallEvent ==
  ASSUME NEW s, s.decoder = "BpfCallEvent", Sized(s)
  PROVE  /\ Decode(s) = "ok"
         /\ \A i \in 1 .. 22 : /\ BpfCallEvent[i].go \in DOMAIN Fields(s)
                               /\ Fields(s)[BpfCallEvent[i].go] = BpfCallEvent[i].at
                               /\ Meant("BpfCallEvent", BpfCallEvent[i].go) = BpfCallEvent[i].c
<1>1. s.len = 428
  BY Layout_bpf_context_t DEF Sized, StructOf, PayloadLen, AlignUp
<1>2. DOMAIN BpfCallEvent = 1 .. 22
  BY DEF BpfCallEvent
<1>3. \A i \in 1 .. 22 : BpfCallEvent[i].at[1] <= BpfCallEvent[i].at[2]
        /\ BpfCallEvent[i].at[2] <= 428
  BY Indices DEF BpfCallEvent, Slice, Span
<1>4. \A i, j \in 1 .. 22 : BpfCallEvent[i].go = BpfCallEvent[j].go => i = j
  BY Indices DEF BpfCallEvent, Slice, Span
<1>5. BpfCallEvent = ReadsOf(s.decoder, s.len) /\ BpfCallEvent = ReadsOf("BpfCallEvent", 0)
  BY DEF ReadsOf
<1>6. ReadsWhole(s, BpfCallEvent)
  <2>1. \A i \in DOMAIN BpfCallEvent : InPayload(s, BpfCallEvent[i])
    BY <1>1, <1>2, <1>3 DEF InPayload
  <2>2. \A i, j \in DOMAIN BpfCallEvent : BpfCallEvent[i].go = BpfCallEvent[j].go => i = j
    BY <1>2, <1>4
  <2> QED
    BY <1>5, <2>1, <2>2, Zenon DEF ReadsWhole
<1>7. "BpfCallEvent" \in Decoders \ {"UDPEvent"}
  BY DEF Decoders
<1>8. \A i \in 1 .. 22 : Meant("BpfCallEvent", BpfCallEvent[i].go) = BpfCallEvent[i].c
  <2>1. \A i, j \in DOMAIN BpfCallEvent : BpfCallEvent[i].go = BpfCallEvent[j].go => i = j
    BY <1>2, <1>4
  <2>2. \A i \in DOMAIN BpfCallEvent : Meant("BpfCallEvent", BpfCallEvent[i].go) = BpfCallEvent[i].c
    BY <1>5, <2>1, MeantIs
  <2> QED
    BY <1>2, <2>2
<1> QED
  BY <1>2, <1>6, <1>7, <1>8, FieldsAre

(* UDPEvent.Decode fills every field from a sample of its program's size,  *)
(* perf's padding included, at these offsets.                              *)
LEMMA Fields_UDPEvent ==
  ASSUME NEW s, s.decoder = "UDPEvent", s.len \in Nat, s.len >= 20
  PROVE  /\ Decode(s) = IF calls[s.call].message THEN "ok" ELSE "error"
         /\ DOMAIN Fields(s) = {"local_pid", "comm", "packet"}
         /\ Fields(s)["comm"] = <<4, 20>> /\ Meant("UDPEvent", "comm") = "comm"
<1> DEFINE q == UDPEvent(s.len)
           z == UDPEvent(0)
<1>1. /\ DOMAIN q = 1 .. 3
      /\ q[1].go = "local_pid" /\ q[2].go = "comm" /\ q[3].go = "packet"
      /\ q[1].at = <<0, 4>> /\ q[2].at = <<4, 20>> /\ q[3].at = <<20, s.len>>
  BY DEF UDPEvent, Slice, Span
<1>2. /\ DOMAIN z = 1 .. 3 /\ z[2].c = "comm"
      /\ z[1].go = "local_pid" /\ z[2].go = "comm" /\ z[3].go = "packet"
  BY DEF UDPEvent, Slice, Span
<1>3. q = ReadsOf(s.decoder, s.len) /\ z = ReadsOf("UDPEvent", 0)
  BY DEF ReadsOf
<1> HIDE DEF q, z
<1>4. ReadsWhole(s, q)
  BY <1>1, <1>3, Indices DEF ReadsWhole, InPayload
<1>5. Meant("UDPEvent", z[2].go) = z[2].c
  <2>1. 2 \in DOMAIN z /\ \A j \in DOMAIN z : z[j].go = z[2].go => j = 2
    BY <1>2, Indices
  <2> QED
    BY <1>3, <2>1, MeantIs
<1>6. /\ Decode(s) = IF calls[s.call].message THEN "ok" ELSE "error"
      /\ \A go \in DOMAIN Fields(s) : \E i \in DOMAIN q : q[i].go = go
      /\ \A i \in DOMAIN q : q[i].go \in DOMAIN Fields(s) /\ Fields(s)[q[i].go] = q[i].at
  BY <1>4, FieldsAre
<1>7. DOMAIN Fields(s) = {"local_pid", "comm", "packet"}
  <2>1. 1 \in DOMAIN q /\ 2 \in DOMAIN q /\ 3 \in DOMAIN q
    BY <1>1
  <2>2. \A i \in DOMAIN q : q[i].go \in {"local_pid", "comm", "packet"}
    BY <1>1, Indices
  <2> QED
    BY <1>1, <1>6, <2>1, <2>2
<1> QED
  BY <1>1, <1>2, <1>5, <1>6, <1>7

-----------------------------------------------------------------------------
(* Every sound field is read from its place.                               *)
Placed(s) ==
  \A go \in SoundFields(s.decoder) :
    /\ go \in DOMAIN Fields(s)
    /\ Fields(s)[go] = Place(StructOf(s.decoder), Meant(s.decoder, go))

(* The first k of n reads begin at g in the struct as well, and the sound  *)
(* fields are among them.                                                  *)
InPlaceUpTo(k, s, r, n, g) ==
  /\ k \in Nat /\ n \in Nat /\ k <= n
  /\ \A i \in 1 .. k : Place(StructOf(s.decoder), r[i].c) = <<g[i], g[i] + r[i].size>>
  /\ \A go \in SoundFields(s.decoder) : \E i \in 1 .. k : r[i].go = go

(* When the reads and the fields of the struct agree up to read k, the     *)
(* sound fields, all among them, are in place.                             *)
LEMMA PlacedIs ==
  ASSUME NEW s, NEW r, NEW n, NEW g, NEW k, Filled(s, r, n, g), InPlaceUpTo(k, s, r, n, g)
  PROVE  Placed(s)
<1>1. ASSUME NEW go \in SoundFields(s.decoder)
      PROVE  /\ go \in DOMAIN Fields(s)
             /\ Fields(s)[go] = Place(StructOf(s.decoder), Meant(s.decoder, go))
  <2>1. PICK i \in 1 .. k : r[i].go = go
    BY DEF InPlaceUpTo
  <2>2. i \in 1 .. n
    BY DEF InPlaceUpTo
  <2> QED
    BY <2>1, <2>2 DEF Filled, InPlaceUpTo
<1> QED
  BY <1>1 DEF Placed

(* The sound fields of TCPEvent are read from where its struct has them.   *)
LEMMA Placed_TCPEvent ==
  ASSUME NEW s, s.decoder = "TCPEvent", Sized(s)
  PROVE  Placed(s)
<1> DEFINE g == <<0, 8, 16, 20, 24, 26, 30, 32, 33, 41, 49, 65, 67>>
<1>1. Filled(s, TCPEvent, 13, g)
  BY Fields_TCPEvent
<1>2. \A i \in 1 .. 12 : event_t[i].name = TCPEvent[i].c /\ event_t[i].size = TCPEvent[i].size
  BY Indices DEF event_t, Packed, U, Bytes, TCPEvent, Read
<1>3. \A i \in 1 .. 12 : Place(event_t, event_t[i].name) = <<g[i], g[i] + event_t[i].size>>
  BY Layout_event_t
<1>4. \A go \in SoundFields("TCPEvent") : \E i \in 1 .. 12 : TCPEvent[i].go = go
  BY DEF SoundFields, TCPEvent, Read
<1> HIDE DEF g
<1>5. \A i \in 1 .. 12 : Place(StructOf(s.decoder), TCPEvent[i].c)
        = <<g[i], g[i] + TCPEvent[i].size>>
  BY <1>2, <1>3 DEF StructOf
<1>6. InPlaceUpTo(12, s, TCPEvent, 13, g)
  BY <1>4, <1>5 DEF InPlaceUpTo
<1> QED
  BY <1>1, <1>6, PlacedIs

(* The sound fields of EventIPV4 are read from where its struct has them.  *)
LEMMA Placed_EventIPV4 ==
  ASSUME NEW s, s.decoder = "EventIPV4", Sized(s)
  PROVE  Placed(s)
<1> DEFINE g == <<0, 8, 12, 16, 20, 24, 26, 30, 32>>
<1>1. Filled(s, EventIPV4, 9, g)
  BY Fields_EventIPV4
<1>2. \A i \in 1 .. 9 : ipv4_event_t[i].name = EventIPV4[i].c
        /\ ipv4_event_t[i].size = EventIPV4[i].size
  BY Indices DEF ipv4_event_t, Packed, U, Bytes, EventIPV4, Read
<1>3. \A i \in 1 .. 9 : Place(ipv4_event_t, ipv4_event_t[i].name)
        = <<g[i], g[i] + ipv4_event_t[i].size>>
  BY Layout_ipv4_event_t
<1>4. \A go \in SoundFields("EventIPV4") : \E i \in 1 .. 9 : EventIPV4[i].go = go
  BY DEF SoundFields, EventIPV4, Read
<1> HIDE DEF g
<1>5. \A i \in 1 .. 9 : Place(StructOf(s.decoder), EventIPV4[i].c)
        = <<g[i], g[i] + EventIPV4[i].size>>
  BY <1>2, <1>3 DEF StructOf
<1>6. InPlaceUpTo(9, s, EventIPV4, 9, g)
  BY <1>4, <1>5 DEF InPlaceUpTo
<1> QED
  BY <1>1, <1>6, PlacedIs

(* The sound fields of EventIPV6 are read from where its struct has them.  *)
LEMMA Placed_EventIPV6 ==
  ASSUME NEW s, s.decoder = "EventIPV6", Sized(s)
  PROVE  Placed(s)
<1> DEFINE g == <<0, 8, 12, 16, 18, 34, 50>>
<1>1. Filled(s, EventIPV6, 7, g)
  BY Fields_EventIPV6
<1>2. \A i \in 1 .. 3 : ipv6_event_t[i].name = EventIPV6[i].c
        /\ ipv6_event_t[i].size = EventIPV6[i].size
  BY Indices DEF ipv6_event_t, Packed, U, Bytes, EventIPV6, Read
<1>3. \A i \in 1 .. 3 : Place(ipv6_event_t, ipv6_event_t[i].name)
        = <<g[i], g[i] + ipv6_event_t[i].size>>
  BY Layout_ipv6_event_t, Indices
<1>4. \A go \in SoundFields("EventIPV6") : \E i \in 1 .. 3 : EventIPV6[i].go = go
  BY DEF SoundFields, EventIPV6, Read
<1> HIDE DEF g
<1>5. \A i \in 1 .. 3 : Place(StructOf(s.decoder), EventIPV6[i].c)
        = <<g[i], g[i] + EventIPV6[i].size>>
  BY <1>2, <1>3 DEF StructOf
<1>6. InPlaceUpTo(3, s, EventIPV6, 7, g)
  BY <1>4, <1>5 DEF InPlaceUpTo
<1> QED
  BY <1>1, <1>6, PlacedIs

(* The sound fields of EventOther are read from where its struct has them. *)
LEMMA Placed_EventOther ==
  ASSUME NEW s, s.decoder = "EventOther", Sized(s)
  PROVE  Placed(s)
<1> DEFINE g == <<0, 8, 12, 16, 18>>
<1>1. Filled(s, EventOther, 5, g)
  BY Fields_EventOther
<1>2. \A i \in 1 .. 3 : other_socket_event_t[i].name = EventOther[i].c
        /\ other_socket_event_t[i].size = EventOther[i].size
  BY Indices DEF other_socket_event_t, Packed, U, Bytes, EventOther, Read
<1>3. \A i \in 1 .. 3 : Place(other_socket_event_t, other_socket_event_t[i].name)
        = <<g[i], g[i] + other_socket_event_t[i].size>>
  BY Layout_other_socket_event_t, Indices
<1>4. \A go \in SoundFields("EventOther") : \E i \in 1 .. 3 : EventOther[i].go = go
  BY DEF SoundFields, EventOther, Read
<1> HIDE DEF g
<1>5. \A i \in 1 .. 3 : Place(StructOf(s.decoder), EventOther[i].c)
        = <<g[i], g[i] + EventOther[i].size>>
  BY <1>2, <1>3 DEF StructOf
<1>6. InPlaceUpTo(3, s, EventOther, 5, g)
  BY <1>4, <1>5 DEF InPlaceUpTo
<1> QED
  BY <1>1, <1>6, PlacedIs

(* The sound fields of DNSEVENT are read from where its struct has them.   *)
LEMMA Placed_DNSEVENT ==
  ASSUME NEW s, s.decoder = "DNSEVENT", Sized(s)
  PROVE  Placed(s)
<1> DEFINE g == <<0, 4, 8, 12, 16, 32>>
<1>1. Filled(s, DNSEVENT, 6, g)
  BY Fields_DNSEVENT
<1>2. \A i \in 1 .. 6 : data_t[i].name = DNSEVENT[i].c /\ data_t[i].size = DNSEVENT[i].size
  BY Indices DEF data_t, Packed, U, Bytes, DNSEVENT, Read
<1>3. \A i \in 1 .. 6 : Place(data_t, data_t[i].name) = <<g[i], g[i] + data_t[i].size>>
  BY Layout_data_t
<1>4. \A go \in SoundFields("DNSEVENT") : \E i \in 1 .. 6 : DNSEVENT[i].go = go
  BY DEF SoundFields, DNSEVENT, Read
<1> HIDE DEF g
<1>5. \A i \in 1 .. 6 : Place(StructOf(s.decoder), DNSEVENT[i].c)
        = <<g[i], g[i] + DNSEVENT[i].size>>
  BY <1>2, <1>3 DEF StructOf
<1>6. InPlaceUpTo(6, s, DNSEVENT, 6, g)
  BY <1>4, <1>5 DEF InPlaceUpTo
<1> QED
  BY <1>1, <1>6, PlacedIs

(* The sound fields of JavaJDKExecPeEvent are read from where its struct   *)
(* has them.                                                               *)
LEMMA Placed_JavaJDKExecPeEvent ==
  ASSUME NEW s, s.decoder = "JavaJDKExecPeEvent", Sized(s)
  PROVE  Placed(s)
<1> DEFINE g == <<0, 4, 12>>
<1>1. Filled(s, JavaJDKExecPeEvent, 3, g)
  BY Fields_JavaJDKExecPeEvent
<1>2. \A i \in 1 .. 3 : jdk_execvpe[i].name = JavaJDKExecPeEvent[i].c
        /\ jdk_execvpe[i].size = JavaJDKExecPeEvent[i].size
  BY Indices DEF jdk_execvpe, Packed, U, Bytes, JavaJDKExecPeEvent, Read
<1>3. \A i \in 1 .. 3 : Place(jdk_execvpe, jdk_execvpe[i].name)
        = <<g[i], g[i] + jdk_execvpe[i].size>>
  BY Layout_jdk_execvpe
<1>4. \A go \in SoundFields("JavaJDKExecPeEvent") : \E i \in 1 .. 3 : JavaJDKExecPeEvent[i].go = go
  BY DEF SoundFields, JavaJDKExecPeEvent, Read
<1> HIDE DEF g
<1>5. \A i \in 1 .. 3 : Place(StructOf(s.decoder), JavaJDKExecPeEvent[i].c)
        = <<g[i], g[i] + JavaJDKExecPeEvent[i].size>>
  BY <1>2, <1>3 DEF StructOf
<1>6. InPlaceUpTo(3, s, JavaJDKExecPeEvent, 3, g)
  BY <1>4, <1>5 DEF InPlaceUpTo
<1> QED
  BY <1>1, <1>6, PlacedIs

(* The sound fields of BpfCallEvent are read from where its struct has     *)
(* them.                                                                   *)
LEMMA Placed_BpfCallEvent ==
  ASSUME NEW s, s.decoder = "BpfCallEvent", Sized(s)
  PROVE  Placed(s)
<1> DEFINE g == <<0, 4, 8, 12, 16, 20, 24, 28, 32, 36, 40, 44, 48, 52, 56, 60, 64, 68, 72, 76, 80,
                  88, 104, 360>>
<1>1. \A i \in 1 .. 24 : Place(bpf_context_t, bpf_context_t[i].name)
                           = <<g[i], g[i] + bpf_context_t[i].size>>
  BY Layout_bpf_context_t
<1>2. /\ Place(bpf_context_t, "cmd") = <<0, 4>> /\ Place(bpf_context_t, "pid") = <<8, 12>>
      /\ Place(bpf_context_t, "uid") = <<56, 60>> /\ Place(bpf_context_t, "comm") = <<88, 104>>
      /\ Place(bpf_context_t, "cmdline") = <<104, 360>>
      /\ Place(bpf_context_t, "uts_name") = <<360, 424>>
  <2>1. /\ Place(bpf_context_t, bpf_context_t[1].name) = <<0, 4>>
        /\ Place(bpf_context_t, bpf_context_t[3].name) = <<8, 12>>
        /\ Place(bpf_context_t, bpf_context_t[15].name) = <<56, 60>>
        /\ Place(bpf_context_t, bpf_context_t[22].name) = <<88, 104>>
        /\ Place(bpf_context_t, bpf_context_t[23].name) = <<104, 360>>
        /\ Place(bpf_context_t, bpf_context_t[24].name) = <<360, 424>>
    <3>1. /\ bpf_context_t[1].size = 4 /\ bpf_context_t[3].size = 4 /\ bpf_context_t[15].size = 4
          /\ bpf_context_t[22].size = 16 /\ bpf_context_t[23].size = 256
          /\ bpf_context_t[24].size = 64
      BY DEF bpf_context_t, U, Bytes
    <3> QED
      BY <1>1, <3>1
  <2>2. /\ bpf_context_t[1].name = "cmd" /\ bpf_context_t[3].name = "pid"
        /\ bpf_context_t[15].name = "uid" /\ bpf_context_t[22].name = "comm"
        /\ bpf_context_t[23].name = "cmdline" /\ bpf_context_t[24].name = "uts_name"
    BY DEF bpf_context_t, U, Bytes
  <2> QED
    BY <2>1, <2>2
<1>3. \A go \in SoundFields("BpfCallEvent") :
        \E i \in {1, 2, 14, 20, 21, 22} : BpfCallEvent[i].go = go
  BY DEF SoundFields, BpfCallEvent, Slice
<1>4. \A i \in {1, 2, 14, 20, 21, 22} : Place(bpf_context_t, BpfCallEvent[i].c) = BpfCallEvent[i].at
  <2>1. /\ BpfCallEvent[1].c = "cmd" /\ BpfCallEvent[1].at = <<0, 4>>
        /\ BpfCallEvent[2].c = "pid" /\ BpfCallEvent[2].at = <<8, 12>>
        /\ BpfCallEvent[14].c = "uid" /\ BpfCallEvent[14].at = <<56, 60>>
        /\ BpfCallEvent[20].c = "comm" /\ BpfCallEvent[20].at = <<88, 104>>
        /\ BpfCallEvent[21].c = "cmdline" /\ BpfCallEvent[21].at = <<104, 360>>
        /\ BpfCallEvent[22].c = "uts_name" /\ BpfCallEvent[22].at = <<360, 424>>
    BY DEF BpfCallEvent, Slice, Span
  <2> QED
    BY <1>2, <2>1
<1>5. ASSUME NEW go \in SoundFields("BpfCallEvent")
      PROVE  /\ go \in DOMAIN Fields(s)
             /\ Fields(s)[go] = Place(bpf_context_t, Meant("BpfCallEvent", go))
  <2>1. PICK i \in {1, 2, 14, 20, 21, 22} : BpfCallEvent[i].go = go
    BY <1>3
  <2>2. i \in 1 .. 22
    OBVIOUS
  <2> QED
    BY <1>4, <2>1, <2>2, Fields_BpfCallEvent
<1> QED
  BY <1>5 DEF Placed, StructOf

(* The sound fields of UDPEvent are read from where its struct has them.   *)
LEMMA Placed_UDPEvent ==
  ASSUME NEW s, s.decoder = "UDPEvent", s.len \in Nat, s.len >= 20
  PROVE  Placed(s)
<1>1. Place(dns_data_t, dns_data_t[2].name) = <<4, 4 + dns_data_t[2].size>>
  BY Layout_dns_data_t
<1>2. dns_data_t[2].name = "comm" /\ dns_data_t[2].size = 16
  BY DEF dns_data_t, Bytes
<1> QED
  BY <1>1, <1>2, Fields_UDPEvent DEF Placed, SoundFields, StructOf

(* No field of ForkProcEvent is claimed to be in place, its decoder not    *)
(* reading the type that the struct begins with.                           *)
LEMMA Placed_ForkProcEvent ==
  ASSUME NEW s, s.decoder = "ForkProcEvent"
  PROVE  Placed(s)
BY DEF Placed, SoundFields

-----------------------------------------------------------------------------
(* The numbers that a line shows                                           *)

(* The numbers that EventIPV4.String prints, as fields of the struct.      *)
LEMMA Numbers_EventIPV4 ==
  ASSUME NEW s, s.decoder = "EventIPV4", Sized(s),
         DOMAIN s.num = {"af", "uid"}, \A f \in DOMAIN s.num : s.num[f] \in Nat
  PROVE  /\ Number(s, "AF") = s.num.af /\ Number(s, "UID") = s.num.uid
<1>1. /\ "AF" \in DOMAIN Fields(s) /\ Fields(s)["AF"] = <<16, 20>>
      /\ "UID" \in DOMAIN Fields(s) /\ Fields(s)["UID"] = <<12, 16>>
  <2>1. /\ EventIPV4[4].go = "AF" /\ EventIPV4[4].size = 4
        /\ EventIPV4[3].go = "UID" /\ EventIPV4[3].size = 4
    BY DEF EventIPV4, Read
  <2> QED
    BY <2>1, Fields_EventIPV4 DEF Filled
<1>2. /\ Place(StructOf("EventIPV4"), "af") = <<16, 20>>
      /\ Place(StructOf("EventIPV4"), "uid") = <<12, 16>>
  <2>1. /\ ipv4_event_t[4].name = "af" /\ ipv4_event_t[4].size = 4
        /\ ipv4_event_t[3].name = "uid" /\ ipv4_event_t[3].size = 4
    BY DEF ipv4_event_t, U, Packed
  <2> QED
    BY <2>1, Layout_ipv4_event_t DEF StructOf
<1>3. /\ ReadFrom(s, "AF", "af", 4) /\ ReadFrom(s, "UID", "uid", 4)
  BY <1>1, <1>2 DEF ReadFrom
<1>4. /\ Number(s, "AF") = s.num.af /\ Number(s, "UID") = s.num.uid
  BY <1>3, NumberIs
<1> QED
  BY <1>4

(* The numbers that EventOther.String prints, as fields of the struct.     *)
LEMMA Numbers_EventOther ==
  ASSUME NEW s, s.decoder = "EventOther", Sized(s),
         DOMAIN s.num = {"af", "uid"}, \A f \in DOMAIN s.num : s.num[f] \in Nat
  PROVE  /\ Number(s, "AF") = s.num.af % 65536 /\ Number(s, "UID") = s.num.uid
<1>1. /\ "AF" \in DOMAIN Fields(s) /\ Fields(s)["AF"] = <<16, 18>>
      /\ "UID" \in DOMAIN Fields(s) /\ Fields(s)["UID"] = <<12, 16>>
  <2>1. /\ EventOther[4].go = "AF" /\ EventOther[4].size = 2
        /\ EventOther[3].go = "UID" /\ EventOther[3].size = 4
    BY DEF EventOther, Read
  <2> QED
    BY <2>1, Fields_EventOther DEF Filled
<1>2. /\ Place(StructOf("EventOther"), "af") = <<16, 20>>
      /\ Place(StructOf("EventOther"), "uid") = <<12, 16>>
  <2>1. /\ other_socket_event_t[4].name = "af" /\ other_socket_event_t[4].size = 4
        /\ other_socket_event_t[3].name = "uid" /\ other_socket_event_t[3].size = 4
    BY DEF other_socket_event_t, U, Packed
  <2> QED
    BY <2>1, Layout_other_socket_event_t DEF StructOf
<1>3. /\ ReadFrom(s, "AF", "af", 2) /\ ReadFrom(s, "UID", "uid", 4)
  BY <1>1, <1>2 DEF ReadFrom
<1>4. /\ Number(s, "AF") = s.num.af % Weight(2) /\ Number(s, "UID") = s.num.uid
  BY <1>3, NumberIs
<1> QED
  BY <1>4 DEF Weight

(* The numbers that TCPEvent.String prints, as fields of the struct.       *)
LEMMA Numbers_TCPEvent ==
  ASSUME NEW s, s.decoder = "TCPEvent", Sized(s),
         DOMAIN s.num = {"family", "uid", "raddr", "rport", "flags"},
         \A f \in DOMAIN s.num : s.num[f] \in Nat
  PROVE  /\ Number(s, "Family") = s.num.family % 65536 /\ Number(s, "UID") = s.num.uid % 65536
         /\ Number(s, "RAddr") = s.num.raddr /\ Number(s, "RPort") = s.num.rport % 65536
         /\ Number(s, "Flags") = s.num.flags % 256
<1>1. /\ "Family" \in DOMAIN Fields(s) /\ Fields(s)["Family"] = <<65, 67>>
      /\ "UID" \in DOMAIN Fields(s) /\ Fields(s)["UID"] = <<67, 69>>
      /\ "RAddr" \in DOMAIN Fields(s) /\ Fields(s)["RAddr"] = <<26, 30>>
      /\ "RPort" \in DOMAIN Fields(s) /\ Fields(s)["RPort"] = <<30, 32>>
      /\ "Flags" \in DOMAIN Fields(s) /\ Fields(s)["Flags"] = <<32, 33>>
  <2>1. /\ TCPEvent[12].go = "Family" /\ TCPEvent[12].size = 2
        /\ TCPEvent[13].go = "UID" /\ TCPEvent[13].size = 2
        /\ TCPEvent[6].go = "RAddr" /\ TCPEvent[6].size = 4
        /\ TCPEvent[7].go = "RPort" /\ TCPEvent[7].size = 2
        /\ TCPEvent[8].go = "Flags" /\ TCPEvent[8].size = 1
    BY DEF TCPEvent, Read
  <2> QED
    BY <2>1, Fields_TCPEvent DEF Filled
<1>2. /\ Place(StructOf("TCPEvent"), "family") = <<65, 67>>
      /\ Place(StructOf("TCPEvent"), "uid") = <<67, 71>>
      /\ Place(StructOf("TCPEvent"), "raddr") = <<26, 30>>
      /\ Place(StructOf("TCPEvent"), "rport") = <<30, 32>>
      /\ Place(StructOf("TCPEvent"), "flags") = <<32, 33>>
  <2>1. /\ event_t[12].name = "family" /\ event_t[12].size = 2
        /\ event_t[13].name = "uid" /\ event_t[13].size = 4
        /\ event_t[6].name = "raddr" /\ event_t[6].size = 4
        /\ event_t[7].name = "rport" /\ event_t[7].size = 2
        /\ event_t[8].name = "flags" /\ event_t[8].size = 1
    BY DEF event_t, U, Packed
  <2> QED
    BY <2>1, Layout_event_t DEF StructOf
<1>3. /\ ReadFrom(s, "Family", "family", 2) /\ ReadFrom(s, "UID", "uid", 2)
      /\ ReadFrom(s, "RAddr", "raddr", 4) /\ ReadFrom(s, "RPort", "rport", 2)
      /\ ReadFrom(s, "Flags", "flags", 1)
  BY <1>1, <1>2 DEF ReadFrom
<1>4. /\ Number(s, "Family") = s.num.family % Weight(2) /\ Number(s, "UID") = s.num.uid % Weight(2)
      /\ Number(s, "RAddr") = s.num.raddr /\ Number(s, "RPort") = s.num.rport % Weight(2)
      /\ Number(s, "Flags") = s.num.flags % Weight(1)
  BY <1>3, NumberIs
<1> QED
  BY <1>4 DEF Weight

(* The numbers that DNSEVENT.String prints, as fields of the struct.       *)
LEMMA Numbers_DNSEVENT ==
  ASSUME NEW s, s.decoder = "DNSEVENT", Sized(s),
         DOMAIN s.num = {"af", "uid", "ip4addr"}, \A f \in DOMAIN s.num : s.num[f] \in Nat
  PROVE  /\ Number(s, "AF") = s.num.af /\ Number(s, "UID") = s.num.uid
         /\ Number(s, "AddrIpv4") = s.num.ip4addr
<1>1. /\ "AF" \in DOMAIN Fields(s) /\ Fields(s)["AF"] = <<8, 12>>
      /\ "UID" \in DOMAIN Fields(s) /\ Fields(s)["UID"] = <<4, 8>>
      /\ "AddrIpv4" \in DOMAIN Fields(s) /\ Fields(s)["AddrIpv4"] = <<12, 16>>
  <2>1. /\ DNSEVENT[3].go = "AF" /\ DNSEVENT[3].size = 4
        /\ DNSEVENT[2].go = "UID" /\ DNSEVENT[2].size = 4
        /\ DNSEVENT[4].go = "AddrIpv4" /\ DNSEVENT[4].size = 4
    BY DEF DNSEVENT, Read
  <2> QED
    BY <2>1, Fields_DNSEVENT DEF Filled
<1>2. /\ Place(StructOf("DNSEVENT"), "af") = <<8, 12>>
      /\ Place(StructOf("DNSEVENT"), "uid") = <<4, 8>>
      /\ Place(StructOf("DNSEVENT"), "ip4addr") = <<12, 16>>
  <2>1. /\ data_t[3].name = "af" /\ data_t[3].size = 4
        /\ data_t[2].name = "uid" /\ data_t[2].size = 4
        /\ data_t[4].name = "ip4addr" /\ data_t[4].size = 4
    BY DEF data_t, U, Packed
  <2> QED
    BY <2>1, Layout_data_t DEF StructOf
<1>3. /\ ReadFrom(s, "AF", "af", 4) /\ ReadFrom(s, "UID", "uid", 4)
      /\ ReadFrom(s, "AddrIpv4", "ip4addr", 4)
  BY <1>1, <1>2 DEF ReadFrom
<1>4. /\ Number(s, "AF") = s.num.af /\ Number(s, "UID") = s.num.uid
      /\ Number(s, "AddrIpv4") = s.num.ip4addr
  BY <1>3, NumberIs
<1> QED
  BY <1>4

(* The numbers that JavaJDKExecPeEvent.String prints, as fields of the     *)
(* struct.                                                                 *)
LEMMA Numbers_JavaJDKExecPeEvent ==
  ASSUME NEW s, s.decoder = "JavaJDKExecPeEvent", Sized(s),
         DOMAIN s.num = {"mode"}, \A f \in DOMAIN s.num : s.num[f] \in Nat
  PROVE  /\ Number(s, "Mode") = s.num.mode
<1>1. /\ "Mode" \in DOMAIN Fields(s) /\ Fields(s)["Mode"] = <<4, 12>>
  <2>1. /\ JavaJDKExecPeEvent[2].go = "Mode" /\ JavaJDKExecPeEvent[2].size = 8
    BY DEF JavaJDKExecPeEvent, Read
  <2> QED
    BY <2>1, Fields_JavaJDKExecPeEvent DEF Filled
<1>2. /\ Place(StructOf("JavaJDKExecPeEvent"), "mode") = <<4, 12>>
  <2>1. /\ jdk_execvpe[2].name = "mode" /\ jdk_execvpe[2].size = 8
    BY DEF jdk_execvpe, U, Packed
  <2> QED
    BY <2>1, Layout_jdk_execvpe DEF StructOf
<1>3. /\ ReadFrom(s, "Mode", "mode", 8)
  BY <1>1, <1>2 DEF ReadFrom
<1>4. /\ Number(s, "Mode") = s.num.mode
  BY <1>3, NumberIs
<1> QED
  BY <1>4

(* The numbers that BpfCallEvent.String prints, as fields of the struct.   *)
LEMMA Numbers_BpfCallEvent ==
  ASSUME NEW s, s.decoder = "BpfCallEvent", Sized(s),
         DOMAIN s.num = {"cmd", "uid"}, \A f \in DOMAIN s.num : s.num[f] \in Nat
  PROVE  /\ Number(s, "Type") = s.num.cmd /\ Number(s, "Uid") = s.num.uid
<1>1. /\ "Type" \in DOMAIN Fields(s) /\ Fields(s)["Type"] = <<0, 4>>
      /\ "Uid" \in DOMAIN Fields(s) /\ Fields(s)["Uid"] = <<56, 60>>
  <2>1. /\ BpfCallEvent[1].go = "Type" /\ BpfCallEvent[1].at = <<0, 4>>
        /\ BpfCallEvent[14].go = "Uid" /\ BpfCallEvent[14].at = <<56, 60>>
    BY DEF BpfCallEvent, Slice, Span
  <2> QED
    BY <2>1, Fields_BpfCallEvent
<1>2. /\ Place(StructOf("BpfCallEvent"), "cmd") = <<0, 4>>
      /\ Place(StructOf("BpfCallEvent"), "uid") = <<56, 60>>
  <2>1. /\ bpf_context_t[1].name = "cmd" /\ bpf_context_t[1].size = 4
        /\ bpf_context_t[15].name = "uid" /\ bpf_context_t[15].size = 4
    BY DEF bpf_context_t, U
  <2> QED
    BY <2>1, Layout_bpf_context_t DEF StructOf
<1>3. /\ ReadFrom(s, "Type", "cmd", 4) /\ ReadFrom(s, "Uid", "uid", 4)
  BY <1>1, <1>2 DEF ReadFrom
<1>4. /\ Number(s, "Type") = s.num.cmd /\ Number(s, "Uid") = s.num.uid
  BY <1>3, NumberIs
<1> QED
  BY <1>4

-----------------------------------------------------------------------------
(* The sample s is what the program that the call c fires outputs.         *)
Sent(s, c) ==
  \/ /\ c \in Connects /\ ConnectMap(c) # "none" /\ s.decoder = ConnectMap(c) /\ Sized(s)
     /\ s.num = [af |-> address_family(c), uid |-> c.uid]
  \/ /\ c \in Execs /\ s.decoder = "JavaJDKExecPeEvent" /\ Sized(s)
     /\ s.num = [mode |-> c.mode]
  \/ /\ c \in TcpCloses /\ s.decoder = "TCPEvent" /\ Sized(s)
     /\ s.num = [family |-> AF_INET, uid |-> c.uid, raddr |-> c.raddr, rport |-> SwapBytes(c.port),
                 flags |-> (IF c.outbound THEN 1 ELSE 0) + (IF c.connected THEN 16 ELSE 0)]
  \/ /\ c \in Lookups /\ s.decoder = "DNSEVENT" /\ Sized(s)
     /\ s.num = [af |-> c.af, uid |-> c.uid, ip4addr |-> IF c.af = AF_INET THEN c.addr ELSE 0]
  \/ /\ c \in BpfCalls /\ s.decoder = "BpfCallEvent" /\ Sized(s)
     /\ s.num = [cmd |-> c.cmd, uid |-> c.uid]
  \/ /\ c \in Forks /\ s.decoder = "ForkProcEvent" /\ Sized(s)
     /\ s.num = [type |-> 1, child_pid |-> c.pid, child_tgid |-> c.tgid, parent_pid |-> c.ppid]
  \/ /\ c \in Receives /\ s.decoder = "UDPEvent" /\ s.len = PayloadLen("UDPEvent", 20 + c.buflen)
     /\ s.num = [pid |-> c.pid]

(* address_family is wider than sa_family: AF_INET comes with two zero     *)
(* bytes after it, and AF_INET6 in the same way, for which the program     *)
(* reports nothing.                                                        *)
LEMMA ConnectMaps ==
  ASSUME NEW c \in Connects
  PROVE  /\ ConnectMap(c) \in {"none", "EventIPV4", "EventOther"}
         /\ ConnectMap(c) = "EventIPV4" => address_family(c) = c.family
         /\ address_family(c) \in Nat /\ address_family(c) % 65536 = c.family
         /\ c.skp /\ c.address /\ c.family \notin {AF_UNIX, AF_UNSPEC}
              /\ (c.family \in {AF_INET, AF_INET6} => c.next # 0)
            => ConnectMap(c) = "EventOther"
<1>1. c.family \in Half /\ c.next \in Half
  BY DecodeAssumption, Zenon
<1>2. /\ address_family(c) \in Nat /\ address_family(c) % 65536 = c.family
      /\ c.next = 0 => address_family(c) = c.family
      /\ c.next # 0 => address_family(c) >= 65536
  BY <1>1 DEF address_family, Half
<1> HIDE DEF address_family
<1> DEFINE af == address_family(c)
<1>3. ConnectMap(c) =
        CASE ~c.skp \/ ~c.address -> "none"
          [] c.skp /\ c.address /\ af = AF_INET -> IF c.dport # 0 THEN "EventIPV4" ELSE "none"
          [] c.skp /\ c.address /\ af = AF_INET6 -> IF c.next # 0 THEN "EventIPV6" ELSE "none"
          [] c.skp /\ c.address /\ af \notin {AF_INET, AF_INET6} ->
               IF af # AF_UNIX /\ af # AF_UNSPEC THEN "EventOther" ELSE "none"
  BY DEF ConnectMap
<1> QED
  BY <1>1, <1>2, <1>3 DEF AF_INET, AF_INET6, AF_UNIX, AF_UNSPEC, Half

(* String of a connect's event shows the family and the uid of the call,   *)
(* although the program reads the family four bytes wide: EventOther reads *)
(* two of them, and EventIPV4 is sent only when the other two are zero.    *)
LEMMA Text_Connect ==
  ASSUME NEW c \in Connects, NEW s, s.decoder = ConnectMap(c), ConnectMap(c) # "none", Sized(s),
         s.num = [af |-> address_family(c), uid |-> c.uid]
  PROVE  StringOf(s) = [AF |-> c.family, UID |-> c.uid]
<1>1. /\ DOMAIN s.num = {"af", "uid"} /\ \A f \in DOMAIN s.num : s.num[f] \in Nat
      /\ s.num.af = address_family(c) /\ s.num.uid = c.uid
  <2>1. c.uid \in Nat
    BY DecodeAssumption, Zenon
  <2> QED
    BY <2>1, ConnectMaps
<1>2. Number(s, "AF") = c.family /\ Number(s, "UID") = c.uid
  <2>1. CASE ConnectMap(c) = "EventIPV4"
    BY <1>1, <2>1, ConnectMaps, Numbers_EventIPV4
  <2>2. CASE ConnectMap(c) = "EventOther"
    BY <1>1, <2>2, ConnectMaps, Numbers_EventOther
  <2> QED
    BY <2>1, <2>2, ConnectMaps
<1>3. StringOf(s) = SocketEventString(s)
  BY ConnectMaps DEF StringOf
<1> QED
  BY <1>2, <1>3 DEF SocketEventString

(* inet_ntop prints the bytes of an address in the order of memory.        *)
LEMMA OctetsAre ==
  ASSUME NEW ip \in Nat
  PROVE  inet_ntop(ip) = Octets(ip)
<1>1. /\ Weight(1 - 1) = 1 /\ Weight(2 - 1) = 256
      /\ Weight(3 - 1) = 65536 /\ Weight(4 - 1) = 16777216
  BY DEF Weight
<1>2. /\ Octets(ip)[1] = (ip \div 1) % 256 /\ Octets(ip)[2] = (ip \div 256) % 256
      /\ Octets(ip)[3] = (ip \div 65536) % 256 /\ Octets(ip)[4] = (ip \div 16777216) % 256
  BY <1>1 DEF Octets
<1>3. inet_ntop(ip) = [i \in 1 .. 4 |-> Octets(ip)[i]]
  BY <1>2 DEF inet_ntop
<1> QED
  BY <1>3 DEF Octets

(* String of TCPEvent shows the call's address, port, direction and        *)
(* result, and the low half of its uid.                                    *)
LEMMA Text_TCPEvent ==
  ASSUME NEW c \in TcpCloses, NEW s, s.decoder = "TCPEvent", Sized(s),
         s.num = [family |-> AF_INET, uid |-> c.uid, raddr |-> c.raddr, rport |-> SwapBytes(c.port),
                  flags |-> (IF c.outbound THEN 1 ELSE 0) + (IF c.connected THEN 16 ELSE 0)]
  PROVE  StringOf(s) = [family |-> [name |-> "AF_INET"], UID |-> c.uid % 65536,
                        dest |-> inet_ntop(c.raddr),
                        port |-> SwapBytes(c.port), out |-> c.outbound, result |-> c.connected]
<1> DEFINE flags == (IF c.outbound THEN 1 ELSE 0) + (IF c.connected THEN 16 ELSE 0)
           swapped == SwapBytes(c.port)
           low == c.uid % 65536
<1>1. /\ c.uid \in Nat /\ c.raddr \in Nat /\ c.port \in Half
      /\ c.outbound \in BOOLEAN /\ c.connected \in BOOLEAN
  BY DecodeAssumption, Zenon
<1>2. swapped \in Nat /\ swapped % 65536 = swapped
  BY <1>1 DEF SwapBytes, Half
<1>3. /\ flags \in Nat
      /\ (flags % 256) % 2 # 0 <=> c.outbound
      /\ ((flags % 256) \div 16) % 2 # 0 <=> c.connected
  OBVIOUS
<1> HIDE DEF flags, swapped
<1>4. /\ DOMAIN s.num = {"family", "uid", "raddr", "rport", "flags"}
      /\ s.num.family = 2 /\ s.num.uid = c.uid /\ s.num.raddr = c.raddr
      /\ s.num.rport = swapped /\ s.num.flags = flags
  BY DEF flags, swapped, AF_INET
<1>5. \A f \in DOMAIN s.num : s.num[f] \in Nat
  BY <1>1, <1>2, <1>3, <1>4
<1>6. /\ Number(s, "Family") = 2 % 65536 /\ Number(s, "UID") = low
      /\ Number(s, "RAddr") = c.raddr /\ Number(s, "RPort") = swapped % 65536
      /\ Number(s, "Flags") = flags % 256
  BY <1>4, <1>5, Numbers_TCPEvent
<1>7. FamilyName(Number(s, "Family"), {AF_UNIX, AF_INET, AF_INET6}) = [name |-> "AF_INET"]
  BY <1>6 DEF FamilyName, AF_UNIX, AF_INET, AF_INET6
<1>8. StringOf(s) = TCPEventString(s)
  BY DEF StringOf
<1>9. /\ Number(s, "Flags") % 2 # 0 <=> c.outbound
      /\ (Number(s, "Flags") \div 16) % 2 # 0 <=> c.connected
  BY <1>3, <1>6
<1>10. Number(s, "RPort") = SwapBytes(c.port) /\ Number(s, "UID") = low
         /\ Number(s, "RAddr") = c.raddr
  BY <1>2, <1>6 DEF swapped
<1> HIDE DEF low
<1>11. /\ (Number(s, "Flags") % 2 # 0) = c.outbound
       /\ ((Number(s, "Flags") \div 16) % 2 # 0) = c.connected
  BY <1>1, <1>9, Zenon
<1>12. StringOf(s) = [family |-> [name |-> "AF_INET"], UID |-> low, dest |-> inet_ntop(c.raddr),
                      port |-> SwapBytes(c.port), out |-> c.outbound, result |-> c.connected]
  BY <1>7, <1>8, <1>10, <1>11, Zenon DEF TCPEventString
<1> QED
  BY <1>12, SMT DEF low

(* String of DNSEVENT shows the family, by name or by number, the uid and, *)
(* for AF_INET, the address.                                               *)
LEMMA Text_DNSEVENT ==
  ASSUME NEW c \in Lookups, NEW s, s.decoder = "DNSEVENT", Sized(s),
         s.num = [af |-> c.af, uid |-> c.uid, ip4addr |-> IF c.af = AF_INET THEN c.addr ELSE 0]
  PROVE  StringOf(s) = [AF |-> IF c.af = AF_INET THEN [name |-> "AF_INET"]
                               ELSE IF c.af = AF_INET6 THEN [name |-> "AF_INET6"]
                               ELSE [number |-> c.af],
                        UID |-> c.uid,
                        IP |-> IF c.af = AF_INET THEN inet_ntop(c.addr) ELSE <<0, 0, 0, 0>>]
<1> DEFINE ip == IF c.af = AF_INET THEN c.addr ELSE 0
<1>1. c.uid \in Nat /\ c.addr \in Nat /\ c.af \in Nat
  BY DecodeAssumption
<1>2. ip \in Nat
  BY <1>1
<1>3. Number(s, "AF") = c.af /\ Number(s, "UID") = c.uid /\ Number(s, "AddrIpv4") = ip
  <2> HIDE DEF ip
  <2>1. /\ DOMAIN s.num = {"af", "uid", "ip4addr"}
        /\ s.num.af = c.af /\ s.num.uid = c.uid /\ s.num.ip4addr = ip
    BY DEF ip
  <2>2. \A f \in DOMAIN s.num : s.num[f] \in Nat
    BY <1>1, <1>2, <2>1
  <2> QED
    BY <2>1, <2>2, Numbers_DNSEVENT
<1>4. FamilyName(c.af, {AF_INET, AF_INET6}) =
        IF c.af = AF_INET THEN [name |-> "AF_INET"]
        ELSE IF c.af = AF_INET6 THEN [name |-> "AF_INET6"] ELSE [number |-> c.af]
  BY <1>1 DEF FamilyName, AF_UNIX, AF_INET, AF_INET6
<1>5. inet_ntop(0) = <<0, 0, 0, 0>>
  BY DEF inet_ntop
<1>6. inet_ntop(ip) = IF c.af = AF_INET THEN inet_ntop(c.addr) ELSE <<0, 0, 0, 0>>
  BY <1>5
<1>7. StringOf(s) = DNSEVENTString(s)
  BY DEF StringOf
<1> HIDE DEF ip
<1> QED
  BY <1>3, <1>4, <1>6, <1>7 DEF DNSEVENTString

(* String of JavaJDKExecPeEvent shows the name of the call's mode.         *)
LEMMA Text_Java ==
  ASSUME NEW c \in Execs, NEW s, s.decoder = "JavaJDKExecPeEvent", Sized(s),
         s.num = [mode |-> c.mode]
  PROVE  StringOf(s) = [mode |-> ModeName(c.mode)]
<1>1. c.mode \in Nat
  BY DecodeAssumption, Zenon
<1>2. DOMAIN s.num = {"mode"} /\ s.num.mode = c.mode /\ \A f \in DOMAIN s.num : s.num[f] \in Nat
  BY <1>1
<1>3. Number(s, "Mode") = c.mode
  BY <1>2, Numbers_JavaJDKExecPeEvent
<1> QED
  BY <1>3 DEF StringOf, JavaString

(* The name of a command is cut out of the string only for the commands    *)
(* that have one, and then the cut is within it.                           *)
LEMMA CommandNames ==
  ASSUME NEW cmd \in Nat
  PROVE  /\ "panic" \notin DOMAIN BPFCmdString(cmd)
         /\ "name" \in DOMAIN BPFCmdString(cmd) <=> cmd <= BPF_ITER_CREATE
<1>1. Len(_BPFCmd_index) = 35 /\ DOMAIN _BPFCmd_index = 1 .. 35
  BY DEF _BPFCmd_index
<1>2. CASE cmd <= 33
  <2>1. cmd + 2 \in DOMAIN _BPFCmd_index /\ ~(cmd < 0 \/ cmd >= Len(_BPFCmd_index) - 1)
    BY <1>1, <1>2
  <2>2. BPFCmdString(cmd) = [name |-> Span(_BPFCmd_index[cmd + 1], _BPFCmd_index[cmd + 2])]
    BY <2>1 DEF BPFCmdString, CutName
  <2> QED
    BY <1>2, <2>2 DEF BPF_ITER_CREATE
<1>3. CASE cmd > 33
  <2>1. cmd >= Len(_BPFCmd_index) - 1
    BY <1>1, <1>3
  <2>2. BPFCmdString(cmd) = [number |-> cmd]
    BY <2>1 DEF BPFCmdString
  <2> QED
    BY <1>3, <2>2 DEF BPF_ITER_CREATE
<1> QED
  BY <1>2, <1>3

(* String of BpfCallEvent shows the uid, and the name of every command     *)
(* that the kernel has up to BPF_ITER_CREATE, without a panic for any      *)
(* other.                                                                  *)
LEMMA Text_Bpf ==
  ASSUME NEW c \in BpfCalls, NEW s, s.decoder = "BpfCallEvent", Sized(s),
         s.num = [cmd |-> c.cmd, uid |-> c.uid]
  PROVE  /\ StringOf(s).Uid = c.uid
         /\ "panic" \notin DOMAIN StringOf(s).Type
         /\ "name" \in DOMAIN StringOf(s).Type <=> c.cmd <= BPF_ITER_CREATE
<1>1. c.cmd \in Nat /\ c.uid \in Nat
  BY DecodeAssumption, Zenon
<1>2. DOMAIN s.num = {"cmd", "uid"} /\ s.num.cmd = c.cmd /\ s.num.uid = c.uid
  OBVIOUS
<1>3. \A f \in DOMAIN s.num : s.num[f] \in Nat
  BY <1>1, <1>2
<1>4. Number(s, "Type") = c.cmd /\ Number(s, "Uid") = c.uid
  BY <1>2, <1>3, Numbers_BpfCallEvent
<1>5. StringOf(s).Uid = c.uid /\ StringOf(s).Type = BPFCmdString(c.cmd)
  BY <1>4 DEF StringOf, BpfCallEventString
<1> QED
  BY <1>1, <1>5, CommandNames

(* String of UDPEvent shows the answers of type A.                         *)
LEMMA Text_Udp ==
  ASSUME NEW c \in Receives, NEW s, s.decoder = "UDPEvent", calls[s.call] = c,
         s.len \in Nat, s.len >= 20
  PROVE  \A i \in DOMAIN c.types : c.types[i] = 1 <=> StringOf(s).ans[i] = "QTypeA"
<1>1. StringOf(s) = UDPEventString(s)
  BY DEF StringOf
<1>2. StringOf(s).ans = [i \in DOMAIN c.types |-> AnswerName(c.types[i])]
  BY <1>1 DEF UDPEventString
<1>3. \A t : t = 1 <=> AnswerName(t) = "QTypeA"
  BY DEF AnswerName
<1> QED
  BY <1>2, <1>3
-----------------------------------------------------------------------------
(* A line of the log for the call c that shows what it should.             *)
GoodLine(l, c) ==
  /\ l.outcome = "ok" =>
       \A go \in SoundFields(l.decoder) :
         go \in DOMAIN l.fields /\ l.fields[go] = Place(StructOf(l.decoder), Meant(l.decoder, go))
  /\ \/ /\ l.outcome = "ok"
        /\ \A i \in DOMAIN ReadsOf(l.decoder, 20) :
             ReadsOf(l.decoder, 20)[i].go \in DOMAIN l.fields
     \/ l.outcome = "error" /\ l.decoder = "UDPEvent" /\ ~c.message
  /\ l.outcome = "ok" => ShowsCall(l, c)

(* Every field that the decoder of s has is filled.                        *)
AllRead(s) ==
  \A i \in DOMAIN ReadsOf(s.decoder, 20) : ReadsOf(s.decoder, 20)[i].go \in DOMAIN Fields(s)

(* A decoder that reads in order within its payload leaves none of its     *)
(* fields at zero.                                                         *)
LEMMA AllReadIs ==
  ASSUME NEW s, NEW r, NEW n, NEW g, Filled(s, r, n, g), DOMAIN r = 1 .. n,
         ReadsOf(s.decoder, 20) = Sequential(r)
  PROVE  Decode(s) = "ok" /\ AllRead(s)
<1>1. \A i \in DOMAIN Sequential(r) : i \in 1 .. n /\ Sequential(r)[i].go = r[i].go
  BY DEF Sequential
<1> QED
  BY <1>1 DEF AllRead, Filled

(* Decoding goes well, into the right fields and from the right places.    *)
LEMMA GoodDecode ==
  ASSUME NEW s, Sized(s), s.decoder \in Decoders \ {"UDPEvent"}
  PROVE  Decode(s) = "ok" /\ Placed(s) /\ AllRead(s)
<1>1. CASE s.decoder = "TCPEvent"
  <2>1. DOMAIN TCPEvent = 1 .. 13 /\ ReadsOf("TCPEvent", 20) = Sequential(TCPEvent)
    BY DEF TCPEvent, ReadsOf
  <2> QED
    BY <1>1, <2>1, Fields_TCPEvent, Placed_TCPEvent, AllReadIs, ZenonT(30)
<1>2. CASE s.decoder = "EventIPV4"
  <2>1. DOMAIN EventIPV4 = 1 .. 9 /\ ReadsOf("EventIPV4", 20) = Sequential(EventIPV4)
    BY DEF EventIPV4, ReadsOf
  <2> QED
    BY <1>2, <2>1, Fields_EventIPV4, Placed_EventIPV4, AllReadIs
<1>3. CASE s.decoder = "EventIPV6"
  <2>1. DOMAIN EventIPV6 = 1 .. 7 /\ ReadsOf("EventIPV6", 20) = Sequential(EventIPV6)
    BY DEF EventIPV6, ReadsOf
  <2> QED
    BY <1>3, <2>1, Fields_EventIPV6, Placed_EventIPV6, AllReadIs
<1>4. CASE s.decoder = "EventOther"
  <2>1. DOMAIN EventOther = 1 .. 5 /\ ReadsOf("EventOther", 20) = Sequential(EventOther)
    BY DEF EventOther, ReadsOf
  <2> QED
    BY <1>4, <2>1, Fields_EventOther, Placed_EventOther, AllReadIs
<1>5. CASE s.decoder = "DNSEVENT"
  <2>1. DOMAIN DNSEVENT = 1 .. 6 /\ ReadsOf("DNSEVENT", 20) = Sequential(DNSEVENT)
    BY DEF DNSEVENT, ReadsOf
  <2> QED
    BY <1>5, <2>1, Fields_DNSEVENT, Placed_DNSEVENT, AllReadIs
<1>6. CASE s.decoder = "JavaJDKExecPeEvent"
  <2>1. DOMAIN JavaJDKExecPeEvent = 1 .. 3
          /\ ReadsOf("JavaJDKExecPeEvent", 20) = Sequential(JavaJDKExecPeEvent)
    BY DEF JavaJDKExecPeEvent, ReadsOf
  <2> QED
    BY <1>6, <2>1, Fields_JavaJDKExecPeEvent, Placed_JavaJDKExecPeEvent, AllReadIs
<1>7. CASE s.decoder = "ForkProcEvent"
  <2>1. DOMAIN ForkProcEvent = 1 .. 14 /\ ReadsOf("ForkProcEvent", 20) = Sequential(ForkProcEvent)
    BY DEF ForkProcEvent, ReadsOf
  <2> QED
    BY <1>7, <2>1, Fields_ForkProcEvent, Placed_ForkProcEvent, AllReadIs, ZenonT(30)
<1>8. CASE s.decoder = "BpfCallEvent"
  <2>1. DOMAIN BpfCallEvent = 1 .. 22 /\ ReadsOf("BpfCallEvent", 20) = BpfCallEvent
    BY DEF BpfCallEvent, ReadsOf
  <2>2. AllRead(s)
    BY <1>8, <2>1, Fields_BpfCallEvent DEF AllRead
  <2> QED
    BY <1>8, <2>2, Fields_BpfCallEvent, Placed_BpfCallEvent
<1> QED
  BY <1>1, <1>2, <1>3, <1>4, <1>5, <1>6, <1>7, <1>8 DEF Decoders

(* The payload of a received packet has the struct's first two fields.     *)
LEMMA UdpLength ==
  ASSUME NEW b \in Nat
  PROVE  PayloadLen("UDPEvent", 20 + b) \in Nat /\ PayloadLen("UDPEvent", 20 + b) >= 20
BY DEF PayloadLen, AlignUp

(* A sample of a program that outputs a struct has the struct's size, and  *)
(* the text of its event shows the numbers of the call.                    *)
LEMMA SentNumbers ==
  ASSUME NEW c, NEW s, Sent(s, c), c \notin Receives, NEW l,
         l.decoder = s.decoder, l.text = StringOf(s)
  PROVE  ShowsCall(l, c) /\ Sized(s) /\ s.decoder \in Decoders \ {"UDPEvent"}
<1>1. CASE /\ c \in Connects /\ ConnectMap(c) # "none" /\ s.decoder = ConnectMap(c) /\ Sized(s)
           /\ s.num = [af |-> address_family(c), uid |-> c.uid]
  <2>1. s.decoder \in {"EventIPV4", "EventOther"}
    BY <1>1, ConnectMaps
  <2>2. StringOf(s) = [AF |-> c.family, UID |-> c.uid]
    BY <1>1, Text_Connect
  <2>3. l.text = [AF |-> c.family, UID |-> c.uid] /\ l.decoder \in {"EventIPV4", "EventOther"}
    BY <2>1, <2>2
  <2>4. ShowsCall(l, c)
    <3>1. CASE l.decoder = "EventIPV4"
      BY <2>3, <3>1 DEF ShowsCall
    <3>2. CASE l.decoder = "EventOther"
      BY <2>3, <3>2 DEF ShowsCall
    <3> QED
      BY <2>3, <3>1, <3>2
  <2> QED
    BY <1>1, <2>1, <2>4 DEF Decoders
<1>2. CASE /\ c \in Execs /\ s.decoder = "JavaJDKExecPeEvent" /\ Sized(s)
           /\ s.num = [mode |-> c.mode]
  BY <1>2, Text_Java DEF ShowsCall, Decoders
<1>3. CASE /\ c \in TcpCloses /\ s.decoder = "TCPEvent" /\ Sized(s)
           /\ s.num = [family |-> AF_INET, uid |-> c.uid, raddr |-> c.raddr,
                       rport |-> SwapBytes(c.port),
                       flags |-> (IF c.outbound THEN 1 ELSE 0) + (IF c.connected THEN 16 ELSE 0)]
  <2>1. c.uid \in Nat /\ c.raddr \in Nat
    BY <1>3, DecodeAssumption, Zenon
  <2>2. /\ l.text.family = [name |-> "AF_INET"] /\ l.text.UID = c.uid % 65536
        /\ l.text.dest = inet_ntop(c.raddr)
        /\ l.text.out = c.outbound /\ l.text.result = c.connected
    <3>1. l.text = [family |-> [name |-> "AF_INET"], UID |-> c.uid % 65536,
                    dest |-> inet_ntop(c.raddr),
                    port |-> SwapBytes(c.port), out |-> c.outbound, result |-> c.connected]
      BY <1>3, Text_TCPEvent
    <3>2. l.text.family = [name |-> "AF_INET"] /\ l.text.UID = c.uid % 65536
      BY <3>1
    <3>3. l.text.dest = inet_ntop(c.raddr)
      BY <3>1
    <3>4. l.text.out = c.outbound
      BY <3>1
    <3>5. l.text.result = c.connected
      BY <3>1
    <3> QED
      BY <3>2, <3>3, <3>4, <3>5
  <2>3. c.uid < 65536 => l.text.UID = c.uid
    BY <2>1, <2>2
  <2>4. l.text.dest = Octets(c.raddr)
    BY <2>1, <2>2, OctetsAre
  <2> QED
    BY <1>3, <2>2, <2>3, <2>4 DEF ShowsCall, Decoders
<1>4. CASE /\ c \in Lookups /\ s.decoder = "DNSEVENT" /\ Sized(s)
           /\ s.num = [af |-> c.af, uid |-> c.uid, ip4addr |-> IF c.af = AF_INET THEN c.addr ELSE 0]
  <2>1. c.addr \in Nat
    BY <1>4, DecodeAssumption, Zenon
  <2>2. /\ l.text.AF = (IF c.af = AF_INET THEN [name |-> "AF_INET"]
                        ELSE IF c.af = AF_INET6 THEN [name |-> "AF_INET6"]
                        ELSE [number |-> c.af])
        /\ l.text.UID = c.uid
        /\ c.af = AF_INET => l.text.IP = inet_ntop(c.addr)
    BY <1>4, Text_DNSEVENT
  <2>3. c.af = AF_INET => l.text.IP = Octets(c.addr)
    BY <2>1, <2>2, OctetsAre
  <2> QED
    BY <1>4, <2>2, <2>3 DEF ShowsCall, Decoders
<1>5. CASE /\ c \in BpfCalls /\ s.decoder = "BpfCallEvent" /\ Sized(s)
           /\ s.num = [cmd |-> c.cmd, uid |-> c.uid]
  BY <1>5, Text_Bpf DEF ShowsCall, Decoders
<1>6. CASE /\ c \in Forks /\ s.decoder = "ForkProcEvent" /\ Sized(s)
           /\ s.num = [type |-> 1, child_pid |-> c.pid, child_tgid |-> c.tgid,
                       parent_pid |-> c.ppid]
  BY <1>6 DEF ShowsCall, Decoders
<1> QED
  BY <1>1, <1>2, <1>3, <1>4, <1>5, <1>6 DEF Sent

(* The line that EventsDecode makes of a sample that the program of its    *)
(* call sent is a good one.                                                *)
LEMMA LineGood ==
  ASSUME NEW s, Sent(s, calls[s.call])
  PROVE  /\ GoodLine(EventLine(s), calls[s.call])
         /\ EventLine(s).call = s.call /\ EventLine(s).decoder = s.decoder
<1> DEFINE c == calls[s.call]
           l == EventLine(s)
<1>1. l.call = s.call /\ l.decoder = s.decoder
  BY DEF EventLine
<1>2. CASE c \notin Receives
  <2>1. Sized(s) /\ s.decoder \in Decoders \ {"UDPEvent"}
    <3>1. [decoder |-> s.decoder, text |-> StringOf(s)].decoder = s.decoder
          /\ [decoder |-> s.decoder, text |-> StringOf(s)].text = StringOf(s)
      OBVIOUS
    <3> QED
      BY <1>2, <3>1, SentNumbers
  <2>2. Decode(s) = "ok" /\ Placed(s) /\ AllRead(s)
    BY <2>1, GoodDecode
  <2>3. l.outcome = "ok" /\ l.fields = Fields(s) /\ l.text = StringOf(s)
    BY <2>2 DEF EventLine
  <2>4. ShowsCall(l, c)
    BY <1>1, <1>2, <2>3, SentNumbers
  <2> HIDE DEF l
  <2> QED
    BY <1>1, <2>2, <2>3, <2>4 DEF GoodLine, Placed, AllRead, l
<1>3. CASE c \in Receives
  <2>1. s.decoder = "UDPEvent" /\ s.len \in Nat /\ s.len >= 20
    <3>1. c.prog = "udp" /\ c.buflen \in Nat
      BY <1>3, DecodeAssumption, Zenon
    <3>2. /\ c \notin Connects /\ c \notin Execs /\ c \notin TcpCloses /\ c \notin Lookups
          /\ c \notin BpfCalls /\ c \notin Forks
      BY <3>1, DecodeAssumption, SMTT(30)
    <3>3. s.decoder = "UDPEvent" /\ s.len = PayloadLen("UDPEvent", 20 + c.buflen)
      BY <3>2 DEF Sent
    <3> QED
      BY <3>1, <3>3, UdpLength
  <2>2. Decode(s) = IF c.message THEN "ok" ELSE "error"
    BY <2>1, Fields_UDPEvent
  <2>3. AllRead(s) /\ Placed(s)
    <3>1. DOMAIN UDPEvent(20) = 1 .. 3 /\ ReadsOf("UDPEvent", 20) = UDPEvent(20)
      BY DEF UDPEvent, ReadsOf
    <3>2. /\ UDPEvent(20)[1].go = "local_pid" /\ UDPEvent(20)[2].go = "comm"
          /\ UDPEvent(20)[3].go = "packet"
      BY DEF UDPEvent, Slice
    <3>3. \A i \in 1 .. 3 : UDPEvent(20)[i].go \in {"local_pid", "comm", "packet"}
      BY <3>2, Indices
    <3> QED
      BY <2>1, <3>1, <3>3, Fields_UDPEvent, Placed_UDPEvent DEF AllRead
  <2>4. CASE c.message
    <3>1. l.outcome = "ok" /\ l.fields = Fields(s) /\ l.text = StringOf(s)
      BY <2>2, <2>4 DEF EventLine
    <3>2. ShowsCall(l, c)
      BY <1>1, <1>3, <2>1, <3>1, Text_Udp DEF ShowsCall
    <3> QED
      BY <1>1, <2>3, <3>1, <3>2 DEF GoodLine, Placed, AllRead
  <2>5. CASE ~c.message
    <3>1. l.outcome = "error"
      BY <2>2, <2>5 DEF EventLine
    <3> QED
      BY <1>1, <2>1, <2>5, <3>1 DEF GoodLine
  <2> QED
    BY <1>1, <2>4, <2>5
<1> QED
  BY <1>1, <1>2, <1>3
-----------------------------------------------------------------------------
(* The inductive invariant                                                 *)

(* The kernel calls of all the programs.                                   *)
Calls == Connects \cup Execs \cup TcpCloses \cup Lookups \cup BpfCalls \cup Forks \cup Receives

(* q is a sequence, whatever its elements.                                 *)
IsSequence(q) == q \in Seq({q[i] : i \in DOMAIN q})

(* The calls, the log and each map are sequences.                          *)
Shape ==
  /\ IsSequence(calls) /\ IsSequence(log) /\ Len(calls) <= MaxCalls
  /\ \A i \in DOMAIN calls : calls[i] \in Calls
  /\ DOMAIN buf = Decoders /\ buf = [d \in Decoders |-> buf[d]]
  /\ \A d \in Decoders : IsSequence(buf[d])

(* A sample in a map is what the program that its call fired output there, *)
(* and no more samples are before it than calls before its own.            *)
SamplesSent ==
  \A d \in Decoders : \A k \in DOMAIN buf[d] :
    /\ buf[d][k].decoder = d /\ buf[d][k].call \in DOMAIN calls /\ k <= buf[d][k].call
    /\ Sent(buf[d][k], calls[buf[d][k].call])

(* A line is right, and a connect's is of the event its program chose.     *)
LinesRight ==
  \A k \in DOMAIN log :
    /\ log[k].call \in DOMAIN calls /\ log[k].decoder \in Decoders
    /\ GoodLine(log[k], calls[log[k].call])
    /\ calls[log[k].call] \in Connects => log[k].decoder = ConnectMap(calls[log[k].call])

(* No call is in two places, be it two samples, two lines, or one of each. *)
OnePlace ==
  /\ \A d, e \in Decoders : \A k \in DOMAIN buf[d], j \in DOMAIN buf[e] :
       buf[d][k].call = buf[e][j].call => d = e /\ k = j
  /\ \A k, j \in DOMAIN log : log[k].call = log[j].call => k = j
  /\ \A d \in Decoders : \A k \in DOMAIN buf[d], j \in DOMAIN log :
       buf[d][k].call # log[j].call

(* A connect that is reported is in a map or in the log.                   *)
Delivered ==
  \A i \in DOMAIN calls : calls[i] \in Connects /\ ConnectMap(calls[i]) # "none" =>
    \/ \E k \in DOMAIN buf[ConnectMap(calls[i])] : buf[ConnectMap(calls[i])][k].call = i
    \/ \E k \in DOMAIN log : log[k].call = i

(* The inductive invariant.                                                *)
IInv == Shape /\ SamplesSent /\ LinesRight /\ OnePlace /\ Delivered

(* What Append, Head and Tail do to the calls, to a map and to the log.    *)
LEMMA SequenceFacts ==
  ASSUME NEW q, IsSequence(q)
  PROVE  /\ Len(q) \in Nat /\ DOMAIN q = 1 .. Len(q)
         /\ \A x : /\ IsSequence(Append(q, x)) /\ DOMAIN Append(q, x) = 1 .. (Len(q) + 1)
                   /\ Len(Append(q, x)) = Len(q) + 1 /\ Append(q, x)[Len(q) + 1] = x
                   /\ \A i \in DOMAIN q : Append(q, x)[i] = q[i]
         /\ q # <<>> => /\ 1 \in DOMAIN q /\ Head(q) = q[1]
                        /\ IsSequence(Tail(q)) /\ DOMAIN Tail(q) = 1 .. (Len(q) - 1)
                        /\ \A i \in DOMAIN Tail(q) : i + 1 \in DOMAIN q /\ Tail(q)[i] = q[i + 1]
<1> DEFINE S == {q[i] : i \in DOMAIN q}
<1>1. q \in Seq(S)
  BY DEF IsSequence
<1>2. Len(q) \in Nat /\ DOMAIN q = 1 .. Len(q)
  BY <1>1
<1>3. ASSUME NEW x
      PROVE  /\ IsSequence(Append(q, x)) /\ DOMAIN Append(q, x) = 1 .. (Len(q) + 1)
             /\ Len(Append(q, x)) = Len(q) + 1 /\ Append(q, x)[Len(q) + 1] = x
             /\ \A i \in DOMAIN q : Append(q, x)[i] = q[i]
  <2> DEFINE r == Append(q, x)
  <2>1. q \in Seq(S \cup {x})
    BY <1>1, <1>2
  <2> HIDE DEF S
  <2>2. /\ r \in Seq(S \cup {x}) /\ Len(r) = Len(q) + 1 /\ r[Len(q) + 1] = x
        /\ \A i \in 1 .. Len(q) : r[i] = q[i]
    BY <2>1
  <2>3. DOMAIN r = 1 .. (Len(q) + 1)
    BY <1>2, <2>2
  <2>4. r \in Seq({r[i] : i \in DOMAIN r})
    <3> HIDE DEF r
    <3>1. r \in [1 .. Len(r) -> {r[i] : i \in DOMAIN r}] /\ Len(r) \in Nat
      BY <1>2, <2>2, <2>3
    <3> QED
      BY <3>1
  <2> QED
    BY <1>2, <2>2, <2>3, <2>4 DEF IsSequence
<1>4. ASSUME q # <<>>
      PROVE  /\ 1 \in DOMAIN q /\ Head(q) = q[1]
             /\ IsSequence(Tail(q)) /\ DOMAIN Tail(q) = 1 .. (Len(q) - 1)
             /\ \A i \in DOMAIN Tail(q) : i + 1 \in DOMAIN q /\ Tail(q)[i] = q[i + 1]
  <2> DEFINE r == Tail(q)
  <2> HIDE DEF S
  <2>1. Len(q) >= 1
    BY <1>1, <1>4
  <2>2. r \in Seq(S) /\ Len(r) = Len(q) - 1 /\ \A i \in 1 .. Len(r) : r[i] = q[i + 1]
    BY <1>1, <1>4
  <2>3. DOMAIN r = 1 .. (Len(q) - 1)
    BY <2>2
  <2>4. r \in Seq({r[i] : i \in DOMAIN r})
    <3> HIDE DEF r
    <3>1. r \in [1 .. Len(r) -> {r[i] : i \in DOMAIN r}] /\ Len(r) \in Nat
      BY <1>2, <2>1, <2>2, <2>3
    <3> QED
      BY <3>1
  <2>5. 1 \in DOMAIN q /\ Head(q) = q[1]
    BY <1>1, <1>2, <2>1
  <2>6. IsSequence(r)
    BY <2>4 DEF IsSequence
  <2>7. \A i \in DOMAIN r : i + 1 \in DOMAIN q /\ r[i] = q[i + 1]
    BY <1>2, <2>1, <2>2, <2>3
  <2> QED
    BY <2>3, <2>5, <2>6, <2>7
<1> QED
  BY <1>2, <1>3, <1>4

(* A kernel call as one step: the call is noted, and its program outputs   *)
(* one sample or none.                                                     *)
Outputs(c, s) ==
  /\ s.call = Len(calls) + 1 /\ s.decoder \in Decoders /\ Sent(s, c)
  /\ buf' = [buf EXCEPT ![s.decoder] = Append(@, s)]

(* A kernel call with what its program outputs: nothing, which a connect   *)
(* does only when its program returns early, or one sample.                *)
Called(c) ==
  /\ c \in Calls /\ Len(calls) < MaxCalls /\ calls' = Append(calls, c) /\ log' = log
  /\ \/ buf' = buf /\ (c \in Connects => ConnectMap(c) = "none")
     \/ \E s : Outputs(c, s)

(* bpf_perf_event_output appends one sample of the current call to the     *)
(* map.                                                                    *)
LEMMA OutputIs ==
  ASSUME NEW d, NEW n, NEW num, Output(d, n, num)
  PROVE  \E s : /\ s.call = Len(calls) + 1 /\ s.decoder = d /\ s.len = PayloadLen(d, n)
                /\ s.num = num /\ buf' = [buf EXCEPT ![d] = Append(@, s)]
<1> DEFINE s == [call |-> Len(calls) + 1, decoder |-> d, len |-> PayloadLen(d, n), num |-> num]
<1>1. s.call = Len(calls) + 1 /\ s.decoder = d /\ s.len = PayloadLen(d, n) /\ s.num = num
  OBVIOUS
<1>2. buf' = [buf EXCEPT ![d] = Append(@, s)]
  BY DEF Output
<1> HIDE DEF s
<1> QED
  BY <1>1, <1>2

(* A program that outputs its whole struct appends a sample of that size.  *)
LEMMA OutputStructIs ==
  ASSUME NEW d, NEW num, OutputStruct(d, num)
  PROVE  \E s : /\ s.call = Len(calls) + 1 /\ s.decoder = d /\ Sized(s) /\ s.num = num
                /\ buf' = [buf EXCEPT ![d] = Append(@, s)]
BY OutputIs DEF OutputStruct, Sized

(* What a program outputs for its call is sent for it.                     *)
LEMMA SentOutput ==
  ASSUME NEW c, NEW d \in Decoders, NEW num, OutputStruct(d, num),
         \A s : s.decoder = d /\ Sized(s) /\ s.num = num => Sent(s, c)
  PROVE  \E s : Outputs(c, s)
<1>1. PICK s : /\ s.call = Len(calls) + 1 /\ s.decoder = d /\ Sized(s) /\ s.num = num
               /\ buf' = [buf EXCEPT ![d] = Append(@, s)]
  BY OutputStructIs
<1>2. Outputs(c, s)
  BY <1>1 DEF Outputs
<1> QED
  BY <1>2

(* Every step is a kernel call that outputs one sample or none, a turn of  *)
(* a reader, or the end of the bounded run.                                *)
LEMMA CallSteps ==
  ASSUME Next
  PROVE  (\E c \in Calls : Called(c)) \/ (\E d \in Decoders : EventsDecode(d)) \/ UNCHANGED vars
<1>1. ASSUME NEW c \in Connects, kprobe__security_socket_connect(c) PROVE Called(c)
  <2> DEFINE num == [af |-> address_family(c), uid |-> c.uid]
  <2>1. /\ Enter(c)
        /\ IF ConnectMap(c) = "none" THEN UNCHANGED buf ELSE OutputStruct(ConnectMap(c), num)
    BY <1>1 DEF kprobe__security_socket_connect
  <2>2. \A s : ConnectMap(c) # "none" /\ s.decoder = ConnectMap(c) /\ Sized(s) /\ s.num = num
                 => Sent(s, c)
    BY DEF Sent
  <2> HIDE DEF num
  <2>3. ConnectMap(c) # "none" => ConnectMap(c) \in Decoders
    BY ConnectMaps DEF Decoders
  <2>4. ConnectMap(c) # "none" => \E s : Outputs(c, s)
    BY <2>1, <2>2, <2>3, SentOutput
  <2> QED
    BY <2>1, <2>4 DEF Enter, Called, Calls
<1>2. ASSUME NEW c \in Execs, java_JDK_execvpe(c) PROVE Called(c)
  <2> DEFINE num == [mode |-> c.mode]
             d == "JavaJDKExecPeEvent"
  <2>1. Enter(c) /\ (OutputStruct(d, num) \/ UNCHANGED buf)
    BY <1>2 DEF java_JDK_execvpe
  <2>2. /\ d \in Decoders /\ c \notin Connects
        /\ \A s : s.decoder = d /\ Sized(s) /\ s.num = num => Sent(s, c)
    <3>1. c.prog = "java" /\ \A x \in Connects : x.prog = "connect"
      BY DecodeAssumption, Zenon
    <3> QED
      BY <3>1 DEF Sent, Decoders
  <2> HIDE DEF num, d
  <2>3. OutputStruct(d, num) => \E s : Outputs(c, s)
    BY <2>2, SentOutput
  <2> QED
    BY <2>1, <2>2, <2>3 DEF Enter, Called, Calls
<1>3. ASSUME NEW c \in TcpCloses, tcp_set_state(c) PROVE Called(c)
  <2> DEFINE num == [family |-> AF_INET, uid |-> c.uid, raddr |-> c.raddr,
                     rport |-> SwapBytes(c.port),
                     flags |-> (IF c.outbound THEN 1 ELSE 0) + (IF c.connected THEN 16 ELSE 0)]
             d == "TCPEvent"
  <2>1. Enter(c) /\ OutputStruct(d, num)
    BY <1>3 DEF tcp_set_state
  <2>2. d \in Decoders /\ \A s : s.decoder = d /\ Sized(s) /\ s.num = num => Sent(s, c)
    BY DEF Sent, Decoders
  <2> HIDE DEF num, d
  <2>3. \E s : Outputs(c, s)
    BY <2>1, <2>2, SentOutput
  <2> QED
    BY <2>1, <2>3 DEF Enter, Called, Calls
<1>4. ASSUME NEW c \in Lookups, getaddrinfo_return(c) PROVE Called(c)
  <2> DEFINE num == [af |-> c.af, uid |-> c.uid, ip4addr |-> IF c.af = AF_INET THEN c.addr ELSE 0]
             d == "DNSEVENT"
  <2>1. Enter(c) /\ OutputStruct(d, num)
    BY <1>4 DEF getaddrinfo_return
  <2>2. d \in Decoders /\ \A s : s.decoder = d /\ Sized(s) /\ s.num = num => Sent(s, c)
    BY DEF Sent, Decoders
  <2> HIDE DEF num, d
  <2>3. \E s : Outputs(c, s)
    BY <2>1, <2>2, SentOutput
  <2> QED
    BY <2>1, <2>3 DEF Enter, Called, Calls
<1>5. ASSUME NEW c \in BpfCalls, tracepoint_sys_enter_bpf(c) PROVE Called(c)
  <2> DEFINE num == [cmd |-> c.cmd, uid |-> c.uid]
             d == "BpfCallEvent"
  <2>1. Enter(c) /\ OutputStruct(d, num)
    BY <1>5 DEF tracepoint_sys_enter_bpf
  <2>2. d \in Decoders /\ \A s : s.decoder = d /\ Sized(s) /\ s.num = num => Sent(s, c)
    BY DEF Sent, Decoders
  <2> HIDE DEF num, d
  <2>3. \E s : Outputs(c, s)
    BY <2>1, <2>2, SentOutput
  <2> QED
    BY <2>1, <2>3 DEF Enter, Called, Calls
<1>6. ASSUME NEW c \in Forks, kretprobe_copy_process(c) PROVE Called(c)
  <2> DEFINE num == [type |-> 1, child_pid |-> c.pid, child_tgid |-> c.tgid, parent_pid |-> c.ppid]
             d == "ForkProcEvent"
  <2>1. Enter(c) /\ OutputStruct(d, num)
    BY <1>6 DEF kretprobe_copy_process
  <2>2. d \in Decoders /\ \A s : s.decoder = d /\ Sized(s) /\ s.num = num => Sent(s, c)
    BY DEF Sent, Decoders
  <2> HIDE DEF num, d
  <2>3. \E s : Outputs(c, s)
    BY <2>1, <2>2, SentOutput
  <2> QED
    BY <2>1, <2>3 DEF Enter, Called, Calls
<1>7. ASSUME NEW c \in Receives, trace_ret_udp_recvmsg(c) PROVE Called(c)
  <2> DEFINE num == [pid |-> c.pid]
  <2>1. Enter(c) /\ Output("UDPEvent", 20 + c.buflen, num)
    BY <1>7 DEF trace_ret_udp_recvmsg
  <2>2. \A s : s.decoder = "UDPEvent" /\ s.len = PayloadLen("UDPEvent", 20 + c.buflen)
          /\ s.num = num
                 => Sent(s, c)
    BY DEF Sent
  <2> HIDE DEF num
  <2>3. PICK s : /\ s.call = Len(calls) + 1 /\ s.decoder = "UDPEvent"
                 /\ s.len = PayloadLen("UDPEvent", 20 + c.buflen)
                 /\ s.num = num /\ buf' = [buf EXCEPT !["UDPEvent"] = Append(@, s)]
    BY <2>1, OutputIs
  <2>4. Outputs(c, s)
    BY <2>2, <2>3 DEF Outputs, Decoders
  <2> QED
    BY <2>1, <2>4 DEF Enter, Called, Calls
<1>8. ASSUME Quiet PROVE UNCHANGED vars
  BY <1>8 DEF Quiet
<1> QED
  BY <1>1, <1>2, <1>3, <1>4, <1>5, <1>6, <1>7, <1>8, Zenon DEF Next, Calls

(* A connect is none of the other calls, so that what is sent for it is    *)
(* what security_socket_connect sends.                                     *)
LEMMA ConnectOnly ==
  ASSUME NEW c \in Connects
  PROVE  /\ c \notin Execs /\ c \notin TcpCloses /\ c \notin Lookups
         /\ c \notin BpfCalls /\ c \notin Forks /\ c \notin Receives
<1>1. c.prog = "connect"
  BY DecodeAssumption, Zenon
<1>2. /\ \A x \in Execs : x.prog = "java"
      /\ \A x \in TcpCloses : x.prog = "tcp"
      /\ \A x \in Lookups : x.prog = "dns"
      /\ \A x \in BpfCalls : x.prog = "bpf"
      /\ \A x \in Forks : x.prog = "fork"
      /\ \A x \in Receives : x.prog = "udp"
  BY DecodeAssumption, Zenon
<1> QED
  BY <1>1, <1>2

(* Nothing has happened in the first state: no call, no sample, no line.   *)
LEMMA InitIInv ==
  ASSUME Init
  PROVE  IInv
<1>1. IsSequence(<<>>) /\ Len(<<>>) = 0 /\ DOMAIN <<>> = {}
  BY DEF IsSequence
<1>2. calls = <<>> /\ log = <<>> /\ DOMAIN buf = Decoders /\ \A d \in Decoders : buf[d] = <<>>
  BY DEF Init
<1>3. buf = [d \in Decoders |-> buf[d]]
  BY DEF Init
<1>4. MaxCalls >= 0
  BY DecodeAssumption
<1>5. Shape
  BY <1>1, <1>2, <1>3, <1>4 DEF Shape
<1> QED
  BY <1>1, <1>2, <1>5 DEF IInv, SamplesSent, LinesRight, OnePlace, Delivered

(* What a kernel call leaves of the calls and of the maps.                 *)
Grown(c) ==
  /\ DOMAIN calls' = 1 .. (Len(calls) + 1) /\ calls'[Len(calls) + 1] = c
  /\ DOMAIN calls = 1 .. Len(calls) /\ Len(calls) \in Nat
  /\ \A i \in DOMAIN calls : i \in DOMAIN calls' /\ calls'[i] = calls[i]
  /\ \A d \in Decoders : \A k \in DOMAIN buf[d] : k \in DOMAIN buf'[d] /\ buf'[d][k] = buf[d][k]

(* The samples that it adds: none, or one at the end of one map.           *)
Added(c) ==
  \/ buf' = buf /\ (c \in Connects => ConnectMap(c) = "none")
  \/ \E s : /\ s.call = Len(calls) + 1 /\ s.decoder \in Decoders /\ Sent(s, c)
            /\ \A d \in Decoders : \A k \in DOMAIN buf'[d] : k \notin DOMAIN buf[d] =>
                 d = s.decoder /\ k = Len(buf[d]) + 1 /\ buf'[d][k] = s
            /\ Len(buf[s.decoder]) + 1 \in DOMAIN buf'[s.decoder]
            /\ buf'[s.decoder][Len(buf[s.decoder]) + 1] = s

(* A kernel call appends itself to the calls and at most one sample to the *)
(* maps.                                                                   *)
LEMMA CalledShape ==
  ASSUME Shape, NEW c, Called(c)
  PROVE  Shape' /\ Grown(c) /\ Added(c)
<1>1. /\ IsSequence(calls') /\ DOMAIN calls' = 1 .. (Len(calls) + 1) /\ Len(calls') = Len(calls) + 1
      /\ calls'[Len(calls) + 1] = c /\ DOMAIN calls = 1 .. Len(calls) /\ Len(calls) \in Nat
      /\ \A i \in DOMAIN calls : i \in DOMAIN calls' /\ calls'[i] = calls[i]
  BY SequenceFacts DEF Shape, Called
<1>2. /\ Len(calls') <= MaxCalls /\ \A i \in DOMAIN calls' : calls'[i] \in Calls
  <2>1. MaxCalls \in Nat
    BY DecodeAssumption
  <2>2. \A i \in DOMAIN calls' : i \in DOMAIN calls \/ i = Len(calls) + 1
    BY <1>1
  <2> QED
    BY <1>1, <2>1, <2>2 DEF Called, Shape
<1>3. CASE buf' = buf /\ (c \in Connects => ConnectMap(c) = "none")
  <2>1. Shape'
    BY <1>1, <1>2, <1>3 DEF Shape, Called
  <2> QED
    BY <1>1, <1>3, <2>1 DEF Grown, Added
<1>4. ASSUME NEW s, Outputs(c, s) PROVE Shape' /\ Grown(c) /\ Added(c)
  <2> DEFINE e == s.decoder
             q == buf[e]
  <2>1. /\ e \in Decoders /\ DOMAIN buf' = Decoders /\ buf'[e] = Append(q, s)
        /\ \A d \in Decoders : d # e => buf'[d] = buf[d]
        /\ buf' = [d \in Decoders |-> buf'[d]]
    BY <1>4 DEF Outputs, Shape
  <2> HIDE DEF e
  <2>2. /\ IsSequence(buf'[e]) /\ DOMAIN buf'[e] = 1 .. (Len(q) + 1)
        /\ buf'[e][Len(q) + 1] = s /\ DOMAIN q = 1 .. Len(q) /\ Len(q) \in Nat
        /\ \A k \in DOMAIN q : buf'[e][k] = q[k]
    BY <2>1, SequenceFacts DEF Shape
  <2>3. \A d \in Decoders : IsSequence(buf'[d])
    BY <2>1, <2>2 DEF Shape
  <2>4. Shape'
    BY <1>1, <1>2, <2>1, <2>3 DEF Shape, Called
  <2>5. \A d \in Decoders : \A k \in DOMAIN buf[d] : k \in DOMAIN buf'[d] /\ buf'[d][k] = buf[d][k]
    BY <2>1, <2>2
  <2>6. \A d \in Decoders : \A k \in DOMAIN buf'[d] : k \notin DOMAIN buf[d] =>
          d = e /\ k = Len(buf[d]) + 1 /\ buf'[d][k] = s
    BY <2>1, <2>2
  <2>7. Len(q) + 1 \in DOMAIN buf'[e]
    BY <2>2
  <2>8. Added(c)
    BY <1>4, <2>2, <2>6, <2>7 DEF Added, Outputs, e
  <2> QED
    BY <1>1, <2>4, <2>5, <2>8 DEF Grown
<1> QED
  BY <1>3, <1>4 DEF Called

(* A kernel call keeps the invariant: its number is new, so that its       *)
(* sample is the only place of it, and the sample is what its program      *)
(* sends.                                                                  *)
LEMMA CallKeeps ==
  ASSUME IInv, NEW c, Called(c)
  PROVE  IInv'
<1> DEFINE n == Len(calls)
<1>1. Shape' /\ Grown(c) /\ Added(c) /\ log' = log
  BY CalledShape DEF IInv, Called
<1>2. n \in Nat /\ n + 1 \in DOMAIN calls' /\ n + 1 \notin DOMAIN calls
  BY <1>1 DEF Grown
<1> HIDE DEF n
<1>3. LinesRight'
  BY <1>1 DEF IInv, LinesRight, Grown
<1>4. CASE buf' = buf /\ (c \in Connects => ConnectMap(c) = "none")
  <2>1. SamplesSent'
    BY <1>1, <1>4 DEF IInv, SamplesSent, Grown
  <2>2. OnePlace'
    BY <1>1, <1>4 DEF IInv, OnePlace
  <2>3. Delivered'
    BY <1>1, <1>4 DEF IInv, Delivered, Grown
  <2> QED
    BY <1>1, <1>3, <2>1, <2>2, <2>3 DEF IInv
<1>5. ASSUME NEW s, s.call = n + 1, s.decoder \in Decoders, Sent(s, c),
             \A d \in Decoders : \A k \in DOMAIN buf'[d] : k \notin DOMAIN buf[d] =>
               d = s.decoder /\ k = Len(buf[d]) + 1 /\ buf'[d][k] = s,
             Len(buf[s.decoder]) + 1 \in DOMAIN buf'[s.decoder],
             buf'[s.decoder][Len(buf[s.decoder]) + 1] = s
      PROVE  IInv'
  <2> DEFINE e == s.decoder
             m == Len(buf[e])
  <2>1. m \in Nat /\ DOMAIN buf[e] = 1 .. m /\ e \in Decoders
    BY <1>5, SequenceFacts DEF IInv, Shape
  <2>2. m + 1 <= n + 1
    <3>1. CASE m = 0
      BY <1>2, <3>1
    <3>2. CASE m # 0
      <4>1. m \in DOMAIN buf[e]
        BY <2>1, <3>2
      <4>2. m <= buf[e][m].call /\ buf[e][m].call \in DOMAIN calls
        BY <2>1, <4>1 DEF IInv, SamplesSent
      <4>3. buf[e][m].call \in 1 .. n
        BY <1>1, <4>2 DEF Grown, n
      <4> QED
        BY <1>2, <2>1, <4>2, <4>3
    <3> QED
      BY <3>1, <3>2
  <2>3. \A d \in Decoders : \A k \in DOMAIN buf'[d] :
          \/ k \in DOMAIN buf[d] /\ buf'[d][k] = buf[d][k]
          \/ d = e /\ k = m + 1 /\ buf'[d][k] = s
    BY <1>1, <1>5 DEF Grown
  <2>4. calls'[n + 1] = c
    BY <1>1 DEF Grown, n
  <2>5. s.decoder = e /\ s.call = n + 1
    BY <1>5
  <2> HIDE DEF e, m
  <2>6. ASSUME NEW d \in Decoders, NEW k \in DOMAIN buf'[d]
        PROVE  /\ buf'[d][k].decoder = d /\ buf'[d][k].call \in DOMAIN calls'
               /\ k <= buf'[d][k].call /\ Sent(buf'[d][k], calls'[buf'[d][k].call])
    <3>1. CASE k \in DOMAIN buf[d] /\ buf'[d][k] = buf[d][k]
      BY <1>1, <3>1 DEF IInv, SamplesSent, Grown
    <3>2. CASE d = e /\ k = m + 1 /\ buf'[d][k] = s
      BY <1>2, <1>5, <2>2, <2>4, <2>5, <3>2
    <3> QED
      BY <2>3, <2>6, <3>1, <3>2
  <2>7. SamplesSent'
    BY <2>6 DEF SamplesSent
  <2>8. \A d \in Decoders : \A k \in DOMAIN buf[d] : buf[d][k].call # n + 1
    BY <1>2 DEF IInv, SamplesSent
  <2>9. \A k \in DOMAIN log : log[k].call # n + 1
    BY <1>2 DEF IInv, LinesRight
  <2>10. ASSUME NEW d \in Decoders, NEW f \in Decoders, NEW k \in DOMAIN buf'[d],
                NEW j \in DOMAIN buf'[f], buf'[d][k].call = buf'[f][j].call
         PROVE  d = f /\ k = j
    <3>1. CASE k \in DOMAIN buf[d] /\ buf'[d][k] = buf[d][k]
      <4>1. CASE j \in DOMAIN buf[f] /\ buf'[f][j] = buf[f][j]
        BY <2>10, <3>1, <4>1 DEF IInv, OnePlace
      <4>2. CASE f = e /\ j = m + 1 /\ buf'[f][j] = s
        BY <2>5, <2>8, <2>10, <3>1, <4>2
      <4> QED
        BY <2>3, <4>1, <4>2
    <3>2. CASE d = e /\ k = m + 1 /\ buf'[d][k] = s
      <4>1. CASE j \in DOMAIN buf[f] /\ buf'[f][j] = buf[f][j]
        BY <2>5, <2>8, <2>10, <3>2, <4>1
      <4>2. CASE f = e /\ j = m + 1 /\ buf'[f][j] = s
        BY <3>2, <4>2
      <4> QED
        BY <2>3, <4>1, <4>2
    <3> QED
      BY <2>3, <3>1, <3>2
  <2>11. ASSUME NEW d \in Decoders, NEW k \in DOMAIN buf'[d], NEW j \in DOMAIN log'
         PROVE  buf'[d][k].call # log'[j].call
    <3>1. CASE k \in DOMAIN buf[d] /\ buf'[d][k] = buf[d][k]
      BY <1>1, <3>1 DEF IInv, OnePlace
    <3>2. CASE d = e /\ k = m + 1 /\ buf'[d][k] = s
      BY <1>1, <2>5, <2>9, <3>2
    <3> QED
      BY <2>3, <3>1, <3>2
  <2>12. OnePlace'
    <3>1. \A k, j \in DOMAIN log' : log'[k].call = log'[j].call => k = j
      BY <1>1 DEF IInv, OnePlace
    <3> QED
      BY <2>10, <2>11, <3>1 DEF OnePlace
  <2>13. ASSUME NEW i \in DOMAIN calls', calls'[i] \in Connects, ConnectMap(calls'[i]) # "none"
         PROVE  \/ \E k \in DOMAIN buf'[ConnectMap(calls'[i])] :
                     buf'[ConnectMap(calls'[i])][k].call = i
                \/ \E k \in DOMAIN log' : log'[k].call = i
    <3>1. CASE i \in DOMAIN calls
      <4>1. calls'[i] = calls[i]
        BY <1>1, <3>1 DEF Grown
      <4>2. ConnectMap(calls[i]) \in Decoders
        BY <2>13, <4>1, ConnectMaps DEF Decoders
      <4> QED
        BY <1>1, <2>13, <3>1, <4>1, <4>2 DEF IInv, Delivered, Grown
    <3>2. CASE i = n + 1
      <4>1. calls'[i] = c /\ c \in Connects
        BY <2>4, <2>13, <3>2, SMTT(30)
      <4>2. e = ConnectMap(c)
        BY <1>5, <2>5, <4>1, ConnectOnly DEF Sent
      <4>3. m + 1 \in DOMAIN buf'[e] /\ buf'[e][m + 1] = s
        BY <1>5 DEF e, m
      <4> QED
        BY <2>5, <3>2, <4>1, <4>2, <4>3
    <3> QED
      BY <1>1, <2>13, <3>1, <3>2 DEF Grown, n
  <2>14. Delivered'
    BY <2>13 DEF Delivered
  <2> QED
    BY <1>1, <1>3, <2>7, <2>12, <2>14 DEF IInv
<1> QED
  BY <1>1, <1>4, <1>5 DEF Added, n

(* What the turn of a reader leaves: the maps without the sample, the      *)
(* others one place further, and the log with its line.                    *)
Turned(d, s) ==
  /\ calls' = calls /\ d \in Decoders /\ 1 \in DOMAIN buf[d] /\ buf[d][1] = s
  /\ \A e \in Decoders : e # d => buf'[e] = buf[e]
  /\ \A k \in DOMAIN buf'[d] :
       k \in Nat \ {0} /\ k + 1 \in DOMAIN buf[d] /\ buf'[d][k] = buf[d][k + 1]
  /\ \A k \in DOMAIN buf[d] :
       k # 1 => k \in Nat /\ k - 1 \in DOMAIN buf'[d] /\ buf'[d][k - 1] = buf[d][k]
  /\ \A k \in DOMAIN log : k \in DOMAIN log' /\ log'[k] = log[k]
  /\ \A k \in DOMAIN log' : k \in DOMAIN log \/ k = Len(log) + 1
  /\ Len(log) + 1 \in DOMAIN log' /\ log'[Len(log) + 1] = EventLine(s)

(* A turn of a reader takes the first sample of its map and appends its    *)
(* line.                                                                   *)
LEMMA TurnedShape ==
  ASSUME Shape, NEW d \in Decoders, EventsDecode(d)
  PROVE  Shape' /\ Turned(d, Head(buf[d]))
<1> DEFINE q == buf[d]
           s == Head(q)
<1>1. q # <<>> /\ log' = Append(log, EventLine(s)) /\ calls' = calls
  BY DEF EventsDecode
<1>2. /\ DOMAIN buf' = Decoders /\ buf'[d] = Tail(q)
      /\ \A e \in Decoders : e # d => buf'[e] = buf[e]
      /\ buf' = [e \in Decoders |-> buf'[e]]
  BY DEF EventsDecode, Shape
<1>3. /\ Len(q) \in Nat /\ DOMAIN q = 1 .. Len(q) /\ 1 \in DOMAIN q /\ s = q[1]
      /\ IsSequence(Tail(q)) /\ DOMAIN Tail(q) = 1 .. (Len(q) - 1)
      /\ \A i \in DOMAIN Tail(q) : i + 1 \in DOMAIN q /\ Tail(q)[i] = q[i + 1]
  BY <1>1, SequenceFacts DEF Shape
<1>4. /\ Len(log) \in Nat /\ DOMAIN log = 1 .. Len(log) /\ IsSequence(log')
      /\ DOMAIN log' = 1 .. (Len(log) + 1) /\ log'[Len(log) + 1] = EventLine(s)
      /\ \A k \in DOMAIN log : log'[k] = log[k]
  BY <1>1, SequenceFacts DEF Shape
<1> HIDE DEF s
<1>5. \A e \in Decoders : IsSequence(buf'[e])
  BY <1>2, <1>3 DEF Shape
<1>6. Shape'
  BY <1>1, <1>2, <1>4, <1>5 DEF Shape
<1>7. \A k \in DOMAIN buf'[d] :
        k \in Nat \ {0} /\ k + 1 \in DOMAIN buf[d] /\ buf'[d][k] = buf[d][k + 1]
  BY <1>2, <1>3
<1>8. ASSUME NEW k \in DOMAIN q, k # 1
      PROVE  k \in Nat /\ k - 1 \in DOMAIN buf'[d] /\ buf'[d][k - 1] = q[k]
  <2>1. k \in Nat /\ k - 1 \in 1 .. (Len(q) - 1) /\ (k - 1) + 1 = k
    BY <1>3, <1>8
  <2> QED
    BY <1>2, <1>3, <2>1
<1>9. /\ \A k \in DOMAIN log : k \in DOMAIN log' /\ log'[k] = log[k]
      /\ \A k \in DOMAIN log' : k \in DOMAIN log \/ k = Len(log) + 1
      /\ Len(log) + 1 \in DOMAIN log'
  BY <1>4
<1>10. Turned(d, s)
  BY <1>1, <1>2, <1>3, <1>4, <1>7, <1>8, <1>9 DEF Turned
<1> QED
  BY <1>6, <1>10 DEF s

(* A turn of a reader keeps the invariant: the sample leaves the map as    *)
(* its line enters the log, and LineGood says the line is right.           *)
LEMMA ReadKeeps ==
  ASSUME IInv, NEW d \in Decoders, EventsDecode(d)
  PROVE  IInv'
<1> DEFINE s == Head(buf[d])
           l == EventLine(s)
           n == Len(log) + 1
<1>1. Shape' /\ Turned(d, s)
  BY TurnedShape DEF IInv
<1>2. n \in DOMAIN log' /\ log'[n] = l
  BY <1>1 DEF Turned
<1> HIDE DEF s
<1>3. s.decoder = d /\ s.call \in DOMAIN calls /\ Sent(s, calls[s.call])
  BY <1>1 DEF IInv, SamplesSent, Turned
<1>4. GoodLine(l, calls[s.call]) /\ l.call = s.call /\ l.decoder = s.decoder
  BY <1>3, LineGood, SMTT(30)
<1>5. calls[s.call] \in Connects => s.decoder = ConnectMap(calls[s.call])
  BY <1>3, ConnectOnly DEF Sent
<1> HIDE DEF l
<1>6. \A k \in DOMAIN log' : (k \in DOMAIN log /\ log'[k] = log[k]) \/ k = n
  BY <1>1 DEF Turned
<1> HIDE DEF n
<1>7. LinesRight'
  <2> SUFFICES ASSUME NEW k \in DOMAIN log'
               PROVE  /\ log'[k].call \in DOMAIN calls' /\ log'[k].decoder \in Decoders
                      /\ GoodLine(log'[k], calls'[log'[k].call])
                      /\ calls'[log'[k].call] \in Connects =>
                           log'[k].decoder = ConnectMap(calls'[log'[k].call])
    BY DEF LinesRight
  <2>1. calls' = calls
    BY <1>1 DEF Turned
  <2>2. CASE k \in DOMAIN log /\ log'[k] = log[k]
    BY <2>1, <2>2 DEF IInv, LinesRight
  <2>3. CASE k = n
    BY <1>2, <1>3, <1>4, <1>5, <2>1, <2>3
  <2> QED
    BY <1>6, <2>2, <2>3
(* Where a sample was before the turn.                                     *)
<1> DEFINE was(e, k) == IF e = d THEN k + 1 ELSE k
<1>8. ASSUME NEW e \in Decoders, NEW k \in DOMAIN buf'[e]
      PROVE  /\ was(e, k) \in DOMAIN buf[e] /\ buf'[e][k] = buf[e][was(e, k)]
             /\ e = d => k \in Nat \ {0} /\ was(e, k) = k + 1
             /\ e # d => was(e, k) = k
  BY <1>1, <1>8 DEF Turned
<1> HIDE DEF was
<1>9. ASSUME NEW e \in Decoders, NEW k \in DOMAIN buf'[e]
      PROVE  /\ buf'[e][k].decoder = e /\ buf'[e][k].call \in DOMAIN calls'
             /\ k <= buf'[e][k].call /\ Sent(buf'[e][k], calls'[buf'[e][k].call])
             /\ buf'[e][k].call # s.call
  <2>1. /\ buf'[e][k].decoder = e /\ buf'[e][k].call \in DOMAIN calls
        /\ was(e, k) <= buf'[e][k].call /\ Sent(buf'[e][k], calls[buf'[e][k].call])
    BY <1>8, <1>9 DEF IInv, SamplesSent
  <2>2. calls' = calls /\ buf[d][1] = s /\ 1 \in DOMAIN buf[d]
    BY <1>1 DEF Turned
  <2>3. DOMAIN calls = 1 .. Len(calls) /\ Len(calls) \in Nat
    BY SequenceFacts DEF IInv, Shape
  <2>4. k <= buf'[e][k].call
    BY <1>8, <1>9, <2>1, <2>3
  <2>5. ~(e = d /\ was(e, k) = 1)
    BY <1>8, <1>9
  <2>6. buf'[e][k].call # s.call
    BY <1>8, <1>9, <2>2, <2>5 DEF IInv, OnePlace
  <2> QED
    BY <2>1, <2>2, <2>4, <2>6
<1>10. SamplesSent'
  BY <1>9 DEF SamplesSent
<1>11. OnePlace'
  <2>1. ASSUME NEW e \in Decoders, NEW f \in Decoders, NEW k \in DOMAIN buf'[e],
               NEW j \in DOMAIN buf'[f], buf'[e][k].call = buf'[f][j].call
        PROVE  e = f /\ k = j
    <3>1. e = f /\ was(e, k) = was(f, j)
      BY <1>8, <2>1 DEF IInv, OnePlace
    <3> QED
      BY <1>8, <2>1, <3>1
  <2>2. \A k \in DOMAIN log : log[k].call # s.call
    BY <1>1 DEF IInv, OnePlace, Turned
  <2>3. ASSUME NEW k \in DOMAIN log', NEW j \in DOMAIN log', log'[k].call = log'[j].call
        PROVE  k = j
    BY <1>2, <1>4, <1>6, <2>2, <2>3 DEF IInv, OnePlace
  <2>4. ASSUME NEW e \in Decoders, NEW k \in DOMAIN buf'[e], NEW j \in DOMAIN log'
        PROVE  buf'[e][k].call # log'[j].call
    <3>1. CASE j \in DOMAIN log /\ log'[j] = log[j]
      BY <1>8, <2>4, <3>1 DEF IInv, OnePlace
    <3>2. CASE j = n
      BY <1>2, <1>4, <1>9, <2>4, <3>2
    <3> QED
      BY <1>6, <3>1, <3>2
  <2> QED
    BY <2>1, <2>3, <2>4 DEF OnePlace
<1>12. ASSUME NEW i \in DOMAIN calls', calls'[i] \in Connects, ConnectMap(calls'[i]) # "none"
       PROVE  \/ \E k \in DOMAIN buf'[ConnectMap(calls'[i])] :
                   buf'[ConnectMap(calls'[i])][k].call = i
              \/ \E k \in DOMAIN log' : log'[k].call = i
  <2> DEFINE e == ConnectMap(calls[i])
  <2>1. calls' = calls
    BY <1>1 DEF Turned
  <2>2. e \in Decoders
    BY <1>12, <2>1, ConnectMaps DEF Decoders
  <2> HIDE DEF e
  <2>3. \/ \E k \in DOMAIN buf[e] : buf[e][k].call = i
        \/ \E k \in DOMAIN log : log[k].call = i
    BY <1>12, <2>1 DEF IInv, Delivered, e
  <2>4. CASE \E k \in DOMAIN log : log[k].call = i
    BY <1>1, <2>4 DEF Turned
  <2>5. ASSUME NEW k \in DOMAIN buf[e], buf[e][k].call = i
        PROVE  \/ \E j \in DOMAIN buf'[e] : buf'[e][j].call = i
               \/ \E j \in DOMAIN log' : log'[j].call = i
    <3>1. CASE e # d
      BY <1>1, <2>2, <2>5, <3>1 DEF Turned
    <3>2. CASE e = d /\ k # 1
      BY <1>1, <2>5, <3>2 DEF Turned
    <3>3. CASE e = d /\ k = 1
      <4>1. s.call = i
        BY <1>1, <2>5, <3>3 DEF Turned
      <4> QED
        BY <1>2, <1>4, <4>1
    <3> QED
      BY <3>1, <3>2, <3>3
  <2> QED
    BY <2>1, <2>3, <2>4, <2>5 DEF e
<1>13. Delivered'
  BY <1>12 DEF Delivered
<1> QED
  BY <1>1, <1>7, <1>10, <1>11, <1>13 DEF IInv

(* The inductive invariant holds in every reachable state: of the first    *)
(* state, of a kernel call with what its program outputs, of a reader's    *)
(* turn and of stuttering.                                                 *)
THEOREM DecodeInvariant == Spec => []IInv
<1>1. Init => IInv
  BY InitIInv
<1>2. IInv /\ [Next]_vars => IInv'
  <2> SUFFICES ASSUME IInv, [Next]_vars PROVE IInv'
    OBVIOUS
  <2>1. CASE UNCHANGED vars
    BY <2>1 DEF vars, IInv, Shape, SamplesSent, LinesRight, OnePlace, Delivered
  <2>2. CASE Next
    BY <2>1, <2>2, CallSteps, CallKeeps, ReadKeeps
  <2> QED
    BY <2>1, <2>2
<1> QED
  BY <1>1, <1>2, PTL DEF Spec

(* A set whose elements are equal has one element or none.                 *)
LEMMA AtMostOne ==
  ASSUME NEW S, \A x, y \in S : x = y
  PROVE  /\ Cardinality(S) \in {0, 1}
         /\ Cardinality(S) = 0 <=> S = {}
<1>1. CASE S = {}
  BY <1>1, FS_EmptySet
<1>2. CASE S # {}
  <2>1. PICK x : S = {x}
    BY <1>2
  <2> QED
    BY <2>1, FS_Singleton
<1> QED
  BY <1>1, <1>2

(* What Reports counts: a call is one sample of the maps, or one line, or  *)
(* neither.                                                                *)
LEMMA ReportsAre ==
  ASSUME IInv, NEW i, NEW ds \in SUBSET Decoders
  PROVE  /\ Reports(i, ds) \in {0, 1}
         /\ Reports(i, ds) = 1 <=>
              \/ \E d \in ds : \E k \in DOMAIN buf[d] : buf[d][k].call = i
              \/ \E k \in DOMAIN log : log[k].call = i /\ log[k].decoder \in ds
<1> DEFINE P == {p \in ds \X (1 .. MaxCalls) :
                   p[2] \in DOMAIN buf[p[1]] /\ buf[p[1]][p[2]].call = i}
           L == {k \in DOMAIN log : log[k].call = i /\ log[k].decoder \in ds}
<1>1. \A p \in P : /\ p = <<p[1], p[2]>> /\ p[1] \in Decoders /\ p[1] \in ds
                   /\ p[2] \in DOMAIN buf[p[1]] /\ buf[p[1]][p[2]].call = i
  OBVIOUS
<1>2. \A k \in L : k \in DOMAIN log /\ log[k].call = i /\ log[k].decoder \in ds
  OBVIOUS
<1>3. ASSUME NEW d \in ds, NEW k \in DOMAIN buf[d], buf[d][k].call = i
      PROVE  <<d, k>> \in P
  <2>1. /\ Len(calls) \in Nat /\ DOMAIN calls = 1 .. Len(calls) /\ Len(calls) <= MaxCalls
        /\ Len(buf[d]) \in Nat /\ DOMAIN buf[d] = 1 .. Len(buf[d]) /\ MaxCalls \in Nat
    BY <1>3, SequenceFacts, DecodeAssumption DEF IInv, Shape
  <2>2. k <= buf[d][k].call /\ buf[d][k].call \in DOMAIN calls
    BY <1>3 DEF IInv, SamplesSent
  <2>3. k \in 1 .. MaxCalls
    BY <1>3, <2>1, <2>2
  <2> QED
    BY <1>3, <2>3
<1>4. \A k \in DOMAIN log : log[k].call = i /\ log[k].decoder \in ds => k \in L
  OBVIOUS
<1>5. Reports(i, ds) = Cardinality(P) + Cardinality(L)
  BY DEF Reports
<1> HIDE DEF P, L
<1>6. \A p, q \in P : p = q
  BY <1>1 DEF IInv, OnePlace
<1>7. \A k, j \in L : k = j
  BY <1>2 DEF IInv, OnePlace
<1>8. P = {} \/ L = {}
  BY <1>1, <1>2 DEF IInv, OnePlace
<1>9. /\ Cardinality(P) \in {0, 1} /\ (Cardinality(P) = 0 <=> P = {})
      /\ Cardinality(L) \in {0, 1} /\ (Cardinality(L) = 0 <=> L = {})
  BY <1>6, <1>7, AtMostOne
<1>10. Reports(i, ds) \in {0, 1} /\ (Reports(i, ds) = 1 <=> P # {} \/ L # {})
  BY <1>5, <1>8, <1>9
<1>11. P # {} <=> \E d \in ds : \E k \in DOMAIN buf[d] : buf[d][k].call = i
  BY <1>1, <1>3
<1>12. L # {} <=> \E k \in DOMAIN log : log[k].call = i /\ log[k].decoder \in ds
  BY <1>2, <1>4
<1> QED
  BY <1>10, <1>11, <1>12

(* A connect is reported once at most, and once if its program reports it. *)
LEMMA ConnectsCounted ==
  ASSUME IInv
  PROVE  ConnectReportedOnce
<1> SUFFICES ASSUME NEW i \in DOMAIN calls, calls[i].prog = "connect"
             PROVE  /\ Reports(i, Decoders) <= 1
                    /\ calls[i].skp /\ calls[i].address
                         /\ calls[i].family \notin {AF_UNIX, AF_UNSPEC}
                         /\ (calls[i].family \in {AF_INET, AF_INET6} => calls[i].next # 0)
                       => Reports(i, Decoders) = 1
  BY DEF ConnectReportedOnce
<1> DEFINE c == calls[i]
<1>1. c \in Connects
  <2>1. c \in Calls
    BY DEF IInv, Shape
  <2>2. /\ \A x \in Execs : x.prog = "java"
        /\ \A x \in TcpCloses : x.prog = "tcp"
        /\ \A x \in Lookups : x.prog = "dns"
        /\ \A x \in BpfCalls : x.prog = "bpf"
        /\ \A x \in Forks : x.prog = "fork"
        /\ \A x \in Receives : x.prog = "udp"
    BY DecodeAssumption, Zenon
  <2> QED
    BY <2>1, <2>2 DEF Calls
<1>2. Reports(i, Decoders) <= 1
  BY ReportsAre
(* A sample or a line of the call is of the decoder that the program chose. *)
<1>3. /\ \A d \in Decoders : \A k \in DOMAIN buf[d] : buf[d][k].call = i => d = ConnectMap(c)
      /\ \A k \in DOMAIN log : log[k].call = i => log[k].decoder = ConnectMap(c)
  <2>1. ASSUME NEW d \in Decoders, NEW k \in DOMAIN buf[d], buf[d][k].call = i
        PROVE  d = ConnectMap(c)
    <3>1. buf[d][k].decoder = d /\ Sent(buf[d][k], c)
      BY <2>1 DEF IInv, SamplesSent
    <3> QED
      BY <1>1, <3>1, ConnectOnly, Zenon DEF Sent
  <2>2. \A k \in DOMAIN log : log[k].call = i => log[k].decoder = ConnectMap(c)
    BY <1>1 DEF IInv, LinesRight
  <2> QED
    BY <2>1, <2>2
<1>4. ASSUME c.skp, c.address, c.family \notin {AF_UNIX, AF_UNSPEC},
             c.family \in {AF_INET, AF_INET6} => c.next # 0
      PROVE  Reports(i, Decoders) = 1
  <2>1. ConnectMap(c) = "EventOther"
    BY <1>1, <1>4, ConnectMaps
  <2>2. ConnectMap(c) \in Decoders
    BY <2>1 DEF Decoders
  <2>3. \/ \E k \in DOMAIN buf[ConnectMap(c)] : buf[ConnectMap(c)][k].call = i
        \/ \E k \in DOMAIN log : log[k].call = i
    BY <1>1, <2>1 DEF IInv, Delivered
  <2>4. \/ \E d \in Decoders : \E k \in DOMAIN buf[d] : buf[d][k].call = i
        \/ \E k \in DOMAIN log : log[k].call = i /\ log[k].decoder \in Decoders
    BY <1>3, <2>2, <2>3
  <2> QED
    BY <2>4, ReportsAre
<1> QED
  BY <1>2, <1>4

(* Every field that a log line prints, of those read from the right place, *)
(* is read from the bytes where the C compiler puts the struct's field.    *)
THEOREM FieldsReadInPlace == Spec => []FieldsInPlace
<1>1. IInv => FieldsInPlace
  BY DEF IInv, LinesRight, GoodLine, FieldsInPlace, Lines
<1> QED
  BY <1>1, DecodeInvariant, PTL

(* No Decode runs out of bytes or leaves a field unread, whatever the      *)
(* padding of perf; only a packet that is no DNS message is an error.      *)
THEOREM PayloadsSuffice == Spec => []PayloadLongEnough
<1>1. IInv => PayloadLongEnough
  BY DEF IInv, LinesRight, GoodLine, PayloadLongEnough, Lines
<1> QED
  BY <1>1, DecodeInvariant, PTL

(* Each number that ShowsCall compares is, in the log line, the one of the *)
(* kernel call that the line reports: family and user of a connect, peer,  *)
(* direction and result of a connection, its user if below 65536, family,  *)
(* user and IPv4 address of a lookup, mode of an exec, user and command of *)
(* a bpf() call. Nothing is said of the numbers of a fork line, the pid of *)
(* a UDP line, the port of a TCP line or larger users of it.               *)
THEOREM NumbersAreTheCalls == Spec => []NumbersShown
<1>1. IInv => NumbersShown
  BY DEF IInv, LinesRight, GoodLine, NumbersShown, Lines
<1> QED
  BY <1>1, DecodeInvariant, PTL

(* A connect is reported at most once over the maps of its program, and    *)
(* exactly once when its address has a port or a family without ports but  *)
(* AF_UNIX and AF_UNSPEC.                                                  *)
THEOREM ConnectsReportedOnce == Spec => []ConnectReportedOnce
<1>1. IInv => ConnectReportedOnce
  BY ConnectsCounted
<1> QED
  BY <1>1, DecodeInvariant, PTL

=============================================================================

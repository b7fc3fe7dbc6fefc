-------------------------- MODULE AgentStreamProofs -------------------------
(***************************************************************************)
(* Proofs that every sample has one fate and that the event path of Agent  *)
(* implements LossyStream, for any modules and maps, any number of samples *)
(* and any size of the kernel buffers.                                     *)
(*                                                                         *)
(* What the agent knows of the samples of one map is the map's account.    *)
(* First come the moves an account can make and what they preserve, then   *)
(* the proof that every step of the agent is a move of one account or      *)
(* leaves them all alone.                                                  *)
(***************************************************************************)
EXTENDS AgentProofs

Accounts ==
  [buf : Seq(Records), hand : 0 .. MaxSamples, missed : SUBSET Samples,
   reported : SUBSET Samples, undecoded : SUBSET Samples, lost : SUBSET Samples,
   dropped : SUBSET Samples, emitted : 0 .. MaxSamples]

Account(q) ==
  [buf |-> buf[q], hand |-> hand[q], missed |-> missed[q], reported |-> reported[q],
   undecoded |-> undecoded[q], lost |-> lost[q], dropped |-> dropped[q],
   emitted |-> emitted[q]]

-----------------------------------------------------------------------------
(* The samples in a sequence of records                                    *)

Ids(s, k) == UNION {IF s[i].kind = k THEN s[i].ids ELSE {} : i \in 1 .. Len(s)}

All(s) == Ids(s, "sample") \cup Ids(s, "lost")

Sorted(s) ==
  \A i, j \in 1 .. Len(s) : i < j => \A x \in s[i].ids, y \in s[j].ids : x < y

(* Which samples the records of a kind in a buffer stand for.              *)
LEMMA IdsMember ==
  ASSUME NEW s, NEW k, NEW x
  PROVE  x \in Ids(s, k) <=> \E i \in 1 .. Len(s) : s[i].kind = k /\ x \in s[i].ids
BY DEF Ids

(* A record is of one of the two kinds, and of samples.                    *)
LEMMA RecordFields ==
  ASSUME NEW r \in Records
  PROVE  /\ r.kind \in {"sample", "lost"}
         /\ r.ids \subseteq Samples
BY DEF Records

(* The samples of a buffer, of either kind or both.                        *)
LEMMA IdsSamples ==
  ASSUME NEW s \in Seq(Records)
  PROVE  /\ \A k : Ids(s, k) \subseteq Samples
         /\ \A x : x \in All(s) <=> \E i \in 1 .. Len(s) : x \in s[i].ids
<1>1. \A i \in 1 .. Len(s) : s[i] \in Records
  OBVIOUS
<1>2. \A i \in 1 .. Len(s) : s[i].kind \in {"sample", "lost"} /\ s[i].ids \subseteq Samples
  BY <1>1, RecordFields
<1> QED
  BY <1>2, IdsMember DEF All

(* What is left of a buffer when its first record is read.                 *)
LEMMA TailElements ==
  ASSUME NEW s \in Seq(Records), s # <<>>
  PROVE  /\ Tail(s) \in Seq(Records) /\ Head(s) \in Records /\ Head(s) = s[1]
         /\ Len(s) \in Nat /\ Len(s) >= 1 /\ Len(Tail(s)) = Len(s) - 1
         /\ \A i \in 1 .. Len(s) - 1 : Tail(s)[i] = s[i + 1]
OBVIOUS

(* Reading a record takes its samples from the buffer and no others.       *)
LEMMA IdsTail ==
  ASSUME NEW s \in Seq(Records), s # <<>>, NEW k, NEW x
  PROVE  x \in Ids(s, k) <=> (Head(s).kind = k /\ x \in Head(s).ids) \/ x \in Ids(Tail(s), k)
<1>1. ASSUME NEW i \in 1 .. Len(s), s[i].kind = k, x \in s[i].ids
      PROVE  (Head(s).kind = k /\ x \in Head(s).ids) \/ x \in Ids(Tail(s), k)
  <2>1. CASE i = 1
    BY <1>1, <2>1, TailElements
  <2>2. CASE i # 1
    <3>1. i - 1 \in 1 .. Len(Tail(s)) /\ Tail(s)[i - 1] = s[i]
      BY <2>2, TailElements
    <3> QED
      BY <1>1, <3>1, IdsMember, Zenon
  <2> QED
    BY <2>1, <2>2
<1>2. ASSUME NEW i \in 1 .. Len(Tail(s)), Tail(s)[i].kind = k, x \in Tail(s)[i].ids
      PROVE  x \in Ids(s, k)
  <2>1. i + 1 \in 1 .. Len(s) /\ Tail(s)[i] = s[i + 1]
    BY TailElements
  <2> QED
    BY <1>2, <2>1, IdsMember
<1>3. Head(s).kind = k /\ x \in Head(s).ids => x \in Ids(s, k)
  <2>1. 1 \in 1 .. Len(s) /\ Head(s) = s[1]
    BY TailElements
  <2> QED
    BY <2>1, IdsMember
<1>4. x \in Ids(s, k) => (Head(s).kind = k /\ x \in Head(s).ids) \/ x \in Ids(Tail(s), k)
  BY <1>1, IdsMember, Zenon
<1>5. x \in Ids(Tail(s), k) => x \in Ids(s, k)
  <2>1. x \in Ids(Tail(s), k) =>
          \E i \in 1 .. Len(Tail(s)) : Tail(s)[i].kind = k /\ x \in Tail(s)[i].ids
    BY IdsMember, Zenon
  <2> QED
    BY <1>2, <2>1, Zenon
<1> QED
  BY <1>3, <1>4, <1>5, Zenon

(* What is left of a sorted buffer is sorted and newer than the record     *)
(* read.                                                                   *)
LEMMA SortedTail ==
  ASSUME NEW s \in Seq(Records), s # <<>>, Sorted(s)
  PROVE  /\ Sorted(Tail(s))
         /\ \A x \in Head(s).ids, y \in All(Tail(s)) : x < y
<1>1. Sorted(Tail(s))
  <2> SUFFICES ASSUME NEW i \in 1 .. Len(Tail(s)), NEW j \in 1 .. Len(Tail(s)), i < j,
                      NEW x \in Tail(s)[i].ids, NEW y \in Tail(s)[j].ids
               PROVE  x < y
    BY DEF Sorted
  <2>1. /\ i + 1 \in 1 .. Len(s) /\ j + 1 \in 1 .. Len(s) /\ i + 1 < j + 1
        /\ Tail(s)[i] = s[i + 1] /\ Tail(s)[j] = s[j + 1]
    BY TailElements
  <2> QED
    BY <2>1 DEF Sorted
<1>2. ASSUME NEW x \in Head(s).ids, NEW y \in All(Tail(s)) PROVE x < y
  <2>1. PICK j \in 1 .. Len(Tail(s)) : y \in Tail(s)[j].ids
    BY TailElements, IdsSamples, Zenon
  <2>2. /\ 1 \in 1 .. Len(s) /\ j + 1 \in 1 .. Len(s) /\ 1 < j + 1
        /\ Head(s) = s[1] /\ Tail(s)[j] = s[j + 1]
    BY TailElements
  <2> QED
    BY <2>1, <2>2 DEF Sorted
<1> QED
  BY <1>1, <1>2

(* What a buffer holds after records are written to its end.               *)
LEMMA ConcatElements ==
  ASSUME NEW s \in Seq(Records), NEW t \in Seq(Records)
  PROVE  /\ s \o t \in Seq(Records)
         /\ Len(s) \in Nat /\ Len(t) \in Nat /\ Len(s \o t) = Len(s) + Len(t)
         /\ \A i \in 1 .. Len(s) : (s \o t)[i] = s[i]
         /\ \A i \in 1 .. Len(t) : (s \o t)[Len(s) + i] = t[i]
OBVIOUS

(* An element of a concatenation is one of the first or of the second.     *)
LEMMA ConcatIndex ==
  ASSUME NEW s \in Seq(Records), NEW t \in Seq(Records), NEW i \in 1 .. Len(s \o t)
  PROVE  \/ i \in 1 .. Len(s) /\ (s \o t)[i] = s[i]
         \/ \E j \in 1 .. Len(t) : i = Len(s) + j /\ (s \o t)[i] = t[j]
<1>1. CASE i \in 1 .. Len(s)
  BY <1>1, ConcatElements
<1>2. CASE i \notin 1 .. Len(s)
  <2>1. i - Len(s) \in 1 .. Len(t) /\ i = Len(s) + (i - Len(s))
    BY <1>2, ConcatElements
  <2>2. (s \o t)[Len(s) + (i - Len(s))] = t[i - Len(s)]
    BY <2>1, ConcatElements
  <2>3. (s \o t)[i] = t[i - Len(s)]
    BY <2>1, <2>2
  <2> QED
    BY <2>1, <2>3
<1> QED
  BY <1>1, <1>2

(* Writing records adds their samples to the buffer and no others.         *)
LEMMA IdsConcat ==
  ASSUME NEW s \in Seq(Records), NEW t \in Seq(Records), NEW k, NEW x
  PROVE  x \in Ids(s \o t, k) <=> x \in Ids(s, k) \/ x \in Ids(t, k)
<1>1. ASSUME x \in Ids(s \o t, k) PROVE x \in Ids(s, k) \/ x \in Ids(t, k)
  <2>1. PICK i \in 1 .. Len(s \o t) : (s \o t)[i].kind = k /\ x \in (s \o t)[i].ids
    BY <1>1, IdsMember, Zenon
  <2>2. CASE i \in 1 .. Len(s) /\ (s \o t)[i] = s[i]
    <3>1. s[i].kind = k /\ x \in s[i].ids
      BY <2>1, <2>2
    <3> QED
      BY <2>2, <3>1, IdsMember
  <2>3. ASSUME NEW j \in 1 .. Len(t), (s \o t)[i] = t[j] PROVE x \in Ids(t, k)
    <3>1. t[j].kind = k /\ x \in t[j].ids
      BY <2>1, <2>3
    <3> QED
      BY <3>1, IdsMember
  <2> QED
    BY <2>2, <2>3, ConcatIndex
<1>2. ASSUME x \in Ids(s, k) PROVE x \in Ids(s \o t, k)
  <2>1. PICK i \in 1 .. Len(s) : s[i].kind = k /\ x \in s[i].ids
    BY <1>2, IdsMember
  <2>2. i \in 1 .. Len(s \o t) /\ (s \o t)[i] = s[i]
    BY ConcatElements
  <2>3. (s \o t)[i].kind = k /\ x \in (s \o t)[i].ids
    BY <2>1, <2>2
  <2> QED
    BY <2>2, <2>3, IdsMember, Zenon
<1>3. ASSUME x \in Ids(t, k) PROVE x \in Ids(s \o t, k)
  <2>1. PICK i \in 1 .. Len(t) : t[i].kind = k /\ x \in t[i].ids
    BY <1>3, IdsMember
  <2>2. Len(s) + i \in 1 .. Len(s \o t) /\ (s \o t)[Len(s) + i] = t[i]
    BY ConcatElements
  <2>3. (s \o t)[Len(s) + i].kind = k /\ x \in (s \o t)[Len(s) + i].ids
    BY <2>1, <2>2
  <2> QED
    BY <2>2, <2>3, IdsMember, Zenon
<1> QED
  BY <1>1, <1>2, <1>3

(* Newer records at the end of a sorted buffer leave it sorted.            *)
LEMMA SortedConcat ==
  ASSUME NEW s \in Seq(Records), NEW t \in Seq(Records), Sorted(s), Sorted(t),
         \A x \in All(s), y \in All(t) : x < y
  PROVE  Sorted(s \o t)
<1> SUFFICES ASSUME NEW i \in 1 .. Len(s \o t), NEW j \in 1 .. Len(s \o t), i < j,
                    NEW x \in (s \o t)[i].ids, NEW y \in (s \o t)[j].ids
             PROVE  x < y
  BY DEF Sorted
<1>1. CASE i \in 1 .. Len(s) /\ j \in 1 .. Len(s)
  BY <1>1, ConcatElements DEF Sorted
<1>2. CASE i \in 1 .. Len(s) /\ j \notin 1 .. Len(s)
  <2>1. PICK b \in 1 .. Len(t) : (s \o t)[j] = t[b]
    BY <1>2, ConcatIndex
  <2>2. (s \o t)[i] = s[i]
    BY <1>2, ConcatElements
  <2>3. x \in All(s) /\ y \in All(t)
    BY <1>2, <2>1, <2>2, IdsSamples
  <2> QED
    BY <2>3
<1>3. CASE i \notin 1 .. Len(s)
  <2>1. PICK a \in 1 .. Len(t) : i = Len(s) + a /\ (s \o t)[i] = t[a]
    BY <1>3, ConcatIndex
  <2>2. j \notin 1 .. Len(s)
    BY <2>1, ConcatElements
  <2>3. PICK b \in 1 .. Len(t) : j = Len(s) + b /\ (s \o t)[j] = t[b]
    BY <2>2, ConcatIndex
  <2>4. a < b
    BY <2>1, <2>3, ConcatElements
  <2> QED
    BY <2>1, <2>3, <2>4 DEF Sorted
<1> QED
  BY <1>1, <1>2, <1>3

-----------------------------------------------------------------------------
(* Sound accounts and their moves                                          *)

Held(v) == {v.hand} \ {0}

Ended(v) == v.reported \cup v.undecoded \cup v.lost \cup v.dropped

(* Samples are under way in the order they were output: first the one in   *)
(* the reader's hand, then those in the buffer, then those a LOST record   *)
(* is still owed for.  Every sample output is in one place.                *)
InOrder(v) ==
  /\ Sorted(v.buf)
  /\ \A x \in All(v.buf) : v.hand < x
  /\ \A y \in v.missed : v.hand < y
  /\ \A x \in All(v.buf), y \in v.missed : x < y

Covered(v) == 1 .. v.emitted = All(v.buf) \cup Held(v) \cup v.missed \cup Ended(v)

Separate(v) ==
  /\ \A x \in Ended(v) : x \notin All(v.buf) /\ x \notin Held(v) /\ x \notin v.missed
  /\ \A x \in Ids(v.buf, "sample") : x \notin Ids(v.buf, "lost")
  /\ \A x \in v.reported : x \notin v.undecoded /\ x \notin v.lost /\ x \notin v.dropped
  /\ \A x \in v.undecoded : x \notin v.lost /\ x \notin v.dropped
  /\ \A x \in v.lost : x \notin v.dropped

Sound(v) == InOrder(v) /\ Covered(v) /\ Separate(v)

(* A reader takes a sample out of the buffer.                              *)
TakenBy(v, w, n) ==
  /\ Head(v.buf).ids = {n}
  /\ w.buf = Tail(v.buf) /\ w.hand = n /\ w.missed = v.missed /\ w.emitted = v.emitted
  /\ w.reported = v.reported /\ w.undecoded = v.undecoded
  /\ w.lost = v.lost /\ w.dropped = v.dropped

Taken(v, w) ==
  /\ v.hand = 0
  /\ v.buf # <<>>
  /\ Head(v.buf).kind = "sample"
  /\ \E n \in Samples : TakenBy(v, w, n)

(* The sample in its hand is written to the log or rejected.               *)
Settled(v, w) ==
  /\ v.hand # 0
  /\ w.buf = v.buf /\ w.hand = 0 /\ w.missed = v.missed /\ w.emitted = v.emitted
  /\ w.lost = v.lost /\ w.dropped = v.dropped
  /\ \/ w.reported = v.reported \cup {v.hand} /\ w.undecoded = v.undecoded
     \/ w.undecoded = v.undecoded \cup {v.hand} /\ w.reported = v.reported

(* A LOST record is logged, or ignored by lostEventsHandle.                *)
Counted(v, w) ==
  /\ v.buf # <<>>
  /\ Head(v.buf).kind = "lost"
  /\ w.buf = Tail(v.buf) /\ w.hand = v.hand /\ w.missed = v.missed
  /\ w.emitted = v.emitted /\ w.reported = v.reported /\ w.undecoded = v.undecoded
  /\ \/ w.lost = v.lost \cup Head(v.buf).ids /\ w.dropped = v.dropped
     \/ w.dropped = v.dropped \cup Head(v.buf).ids /\ w.lost = v.lost

(* What is written for sample n when the samples of M were missed.         *)
Written(M, n) == IF M = {} THEN <<Sample(n)>> ELSE <<LostRecord(M), Sample(n)>>

(* A program outputs a sample, which is accepted, missed or dropped.       *)
Accepts(v, w, n) ==
  w.buf = v.buf \o Written(v.missed, n) /\ w.missed = {} /\ w.dropped = v.dropped

Misses(v, w, n) == w.buf = v.buf /\ w.missed = v.missed \cup {n} /\ w.dropped = v.dropped

Drops(v, w, n) == w.buf = v.buf /\ w.missed = v.missed /\ w.dropped = v.dropped \cup {n}

Produced(v, w) ==
  LET n == v.emitted + 1
  IN  /\ n \in Samples
      /\ w.emitted = n /\ w.hand = v.hand /\ w.reported = v.reported
      /\ w.undecoded = v.undecoded /\ w.lost = v.lost
      /\ Accepts(v, w, n) \/ Misses(v, w, n) \/ Drops(v, w, n)

(* A perf reader returns, and its buffer is gone.                          *)
Cleared(v, w) ==
  /\ v.hand = 0
  /\ w.buf = <<>> /\ w.hand = 0 /\ w.missed = {} /\ w.emitted = v.emitted
  /\ w.reported = v.reported /\ w.undecoded = v.undecoded /\ w.lost = v.lost
  /\ w.dropped = v.dropped \cup All(v.buf) \cup v.missed

(* The types of an account's parts.                                        *)
LEMMA AccountTypes ==
  ASSUME NEW v \in Accounts
  PROVE  /\ v.buf \in Seq(Records) /\ v.hand \in Nat /\ v.emitted \in Nat
         /\ v.missed \subseteq Samples /\ v.reported \subseteq Samples
         /\ v.undecoded \subseteq Samples /\ v.lost \subseteq Samples
         /\ v.dropped \subseteq Samples
         /\ \A k : Ids(v.buf, k) \subseteq Samples
         /\ All(v.buf) \subseteq Samples
         /\ Samples \subseteq Nat /\ 0 \notin Samples
<1>1. v.buf \in Seq(Records)
  BY DEF Accounts
<1>2. v.hand \in 0 .. MaxSamples /\ v.emitted \in 0 .. MaxSamples
  BY DEF Accounts
<1>3. Samples \subseteq Nat /\ 0 \notin Samples /\ 0 .. MaxSamples \subseteq Nat
  BY AgentAssumption DEF Samples
<1>4. /\ v.missed \subseteq Samples /\ v.reported \subseteq Samples
      /\ v.undecoded \subseteq Samples /\ v.lost \subseteq Samples
      /\ v.dropped \subseteq Samples
  BY DEF Accounts
<1>5. \A k : Ids(v.buf, k) \subseteq Samples
  BY <1>1, IdsSamples
<1> QED
  BY <1>1, <1>2, <1>3, <1>4, <1>5 DEF All

(* Taking the first record out of the buffer of a sound account.           *)
LEMMA HeadTaken ==
  ASSUME NEW v \in Accounts, Sound(v), v.buf # <<>>
  PROVE  LET t == Tail(v.buf)
             r == Head(v.buf)
         IN  /\ Sorted(t)
             /\ \A x \in r.ids : x \in All(v.buf) /\ x \notin All(t)
             /\ \A x \in r.ids, y \in All(t) : x < y
             /\ All(v.buf) = r.ids \cup All(t)
             /\ \A k : Ids(t, k) \subseteq Ids(v.buf, k)
             /\ \A k : Ids(v.buf, k) = Ids(t, k) \cup IF r.kind = k THEN r.ids ELSE {}
<1> DEFINE t == Tail(v.buf)
           r == Head(v.buf)
<1>1. v.buf \in Seq(Records) /\ All(v.buf) \subseteq Nat
  BY AccountTypes
<1>2. Sorted(t) /\ \A x \in r.ids, y \in All(t) : x < y
  BY <1>1, SortedTail DEF Sound, InOrder
<1>3. \A k : Ids(v.buf, k) = Ids(t, k) \cup IF r.kind = k THEN r.ids ELSE {}
  BY <1>1, IdsTail
<1>4. r.kind \in {"sample", "lost"}
  BY <1>1, TailElements, RecordFields
<1>5. All(v.buf) = r.ids \cup All(t)
  BY <1>3, <1>4 DEF All
<1>6. \A x \in r.ids : x \notin All(t)
  BY <1>1, <1>2, <1>5
<1> HIDE DEF t, r
<1>7. \A k : Ids(t, k) \subseteq Ids(v.buf, k)
  BY <1>3
<1>8. \A x \in r.ids : x \in All(v.buf) /\ x \notin All(t)
  BY <1>5, <1>6
<1> QED
  BY <1>2, <1>3, <1>5, <1>7, <1>8 DEF t, r

(* A reader that takes a sample into its hand keeps the account sound.     *)
LEMMA TakenSound ==
  ASSUME NEW v \in Accounts, NEW w \in Accounts, Sound(v), Taken(v, w)
  PROVE  Sound(w)
<1>1. PICK n \in Samples : TakenBy(v, w, n)
  BY DEF Taken
<1>2. /\ Head(v.buf).ids = {n}
      /\ w.buf = Tail(v.buf) /\ w.hand = n /\ w.missed = v.missed /\ w.emitted = v.emitted
      /\ w.reported = v.reported /\ w.undecoded = v.undecoded /\ w.lost = v.lost
      /\ w.dropped = v.dropped
  BY <1>1 DEF TakenBy
<1>3. Ended(w) = Ended(v)
  BY <1>2 DEF Ended
<1>4. v.hand = 0 /\ v.buf # <<>> /\ Head(v.buf).kind = "sample" /\ Held(v) = {} /\ Held(w) = {n}
  BY <1>2, AccountTypes DEF Taken, Held
<1>5. n \in All(v.buf) /\ n \notin All(w.buf) /\ All(v.buf) = {n} \cup All(w.buf)
  BY <1>2, <1>4, HeadTaken, Zenon
<1>6. \A k : Ids(w.buf, k) \subseteq Ids(v.buf, k)
  BY <1>2, <1>4, HeadTaken
<1>7. InOrder(w)
  <2>1. Sorted(w.buf) /\ \A y \in All(w.buf) : n < y
    BY <1>2, <1>4, HeadTaken, Zenon
  <2> QED
    BY <1>2, <1>5, <2>1 DEF Sound, InOrder
<1>8. Covered(w)
  BY <1>2, <1>3, <1>4, <1>5 DEF Sound, Covered
<1>9. Separate(w)
  BY <1>2, <1>3, <1>4, <1>5, <1>6 DEF Sound, Separate
<1> QED
  BY <1>7, <1>8, <1>9 DEF Sound

(* A reader that reports or fails to decode the sample in its hand keeps   *)
(* the account sound.                                                      *)
LEMMA SettledSound ==
  ASSUME NEW v \in Accounts, NEW w \in Accounts, Sound(v), Settled(v, w)
  PROVE  Sound(w)
<1>1. /\ w.buf = v.buf /\ w.hand = 0 /\ w.missed = v.missed /\ w.emitted = v.emitted
      /\ w.lost = v.lost /\ w.dropped = v.dropped
      /\ \/ w.reported = v.reported \cup {v.hand} /\ w.undecoded = v.undecoded
         \/ w.undecoded = v.undecoded \cup {v.hand} /\ w.reported = v.reported
  BY DEF Settled
<1>2. Held(v) = {v.hand} /\ Held(w) = {}
  BY <1>1 DEF Settled, Held
<1>3. Ended(w) = Ended(v) \cup {v.hand}
  BY <1>1 DEF Ended
<1>4. /\ All(v.buf) \subseteq Nat /\ 0 \notin All(v.buf) /\ v.missed \subseteq Nat
      /\ 0 \notin v.missed /\ v.hand \in Nat
  BY AccountTypes
<1>5. InOrder(w)
  <2>1. \A x \in All(w.buf) \cup w.missed : 0 < x
    BY <1>1, <1>4
  <2> QED
    BY <1>1, <2>1 DEF Sound, InOrder
<1>6. Covered(w)
  BY <1>1, <1>2, <1>3 DEF Sound, Covered
<1>7. Separate(w)
  <2>1. v.hand \notin All(v.buf) /\ v.hand \notin v.missed
    BY <1>4 DEF Sound, InOrder
  <2>2. v.hand \notin Ended(v)
    BY <1>2 DEF Sound, Separate
  <2>3. \A x \in Ended(w) : x \notin All(w.buf) /\ x \notin Held(w) /\ x \notin w.missed
    BY <1>1, <1>2, <1>3, <2>1 DEF Sound, Separate
  <2> QED
    BY <1>1, <2>2, <2>3 DEF Sound, Separate, Ended
<1> QED
  BY <1>5, <1>6, <1>7 DEF Sound

(* A reader that logs a LOST record keeps the account sound.               *)
LEMMA CountedSound ==
  ASSUME NEW v \in Accounts, NEW w \in Accounts, Sound(v), Counted(v, w)
  PROVE  Sound(w)
<1> DEFINE S == Head(v.buf).ids
<1>1. /\ w.buf = Tail(v.buf) /\ w.hand = v.hand /\ w.missed = v.missed
      /\ w.emitted = v.emitted /\ w.reported = v.reported /\ w.undecoded = v.undecoded
      /\ \/ w.lost = v.lost \cup S /\ w.dropped = v.dropped
         \/ w.dropped = v.dropped \cup S /\ w.lost = v.lost
  BY DEF Counted
<1>2. v.buf # <<>>
  BY DEF Counted
<1>3. /\ Sorted(w.buf) /\ All(v.buf) = S \cup All(w.buf)
      /\ \A x \in S : x \in All(v.buf) /\ x \notin All(w.buf)
      /\ \A k : Ids(w.buf, k) \subseteq Ids(v.buf, k)
  BY <1>1, <1>2, HeadTaken
<1> HIDE DEF S
<1>4. Held(w) = Held(v) /\ Ended(w) = Ended(v) \cup S
  BY <1>1 DEF Held, Ended
<1>5. InOrder(w)
  BY <1>1, <1>3 DEF Sound, InOrder
<1>6. Covered(w)
  BY <1>1, <1>3, <1>4 DEF Sound, Covered
<1>7. Separate(w)
  <2>1. \A x \in S : x \in Nat /\ v.hand \in Nat /\ x \notin Held(v) /\ x \notin v.missed
    <3>1. All(v.buf) \subseteq Nat /\ v.hand \in Nat /\ v.missed \subseteq Nat
      BY AccountTypes
    <3> QED
      BY <1>3, <3>1 DEF Sound, InOrder, Held
  <2>2. \A x \in S : x \notin Ended(v)
    BY <1>3 DEF Sound, Separate
  <2>3. \A x \in Ended(w) : x \notin All(w.buf) /\ x \notin Held(w) /\ x \notin w.missed
    BY <1>1, <1>3, <1>4, <2>1 DEF Sound, Separate
  <2>4. \A x \in Ids(w.buf, "sample") : x \notin Ids(w.buf, "lost")
    BY <1>3 DEF Sound, Separate
  <2> QED
    BY <1>1, <2>2, <2>3, <2>4 DEF Sound, Separate, Ended
<1> QED
  BY <1>5, <1>6, <1>7 DEF Sound

(* What a program's output adds to the buffer.                             *)
LEMMA WrittenFacts ==
  ASSUME NEW M \in SUBSET Samples, NEW n \in Samples, \A y \in M : y < n
  PROVE  LET t == Written(M, n)
         IN  /\ t \in Seq(Records) /\ Sorted(t)
             /\ Ids(t, "sample") = {n} /\ Ids(t, "lost") = M
<1> DEFINE t == Written(M, n)
<1>1. Sample(n) \in Records /\ Sample(n).kind = "sample" /\ Sample(n).ids = {n}
  BY DEF Sample, Records
<1>2. LostRecord(M) \in Records /\ LostRecord(M).kind = "lost" /\ LostRecord(M).ids = M
  BY DEF LostRecord, Records
<1>3. CASE M = {}
  <2>1. t \in Seq(Records) /\ Len(t) = 1 /\ t[1] = Sample(n)
    BY <1>1, <1>3 DEF Written
  <2> HIDE DEF t
  <2>2. \A i \in 1 .. Len(t) : i = 1
    BY <2>1
  <2>3. 1 \in 1 .. Len(t)
    BY <2>1
  <2>4. Sorted(t)
    <3>1. \A i, j \in 1 .. Len(t) : ~ (i < j)
      BY <2>1
    <3> QED
      BY <3>1 DEF Sorted
  <2>5. \A x : x \in Ids(t, "sample") <=> x \in {n}
    <3>1. t[1].kind = "sample" /\ t[1].ids = {n}
      BY <1>1, <2>1
    <3>2. \A x : (\E i \in 1 .. Len(t) : t[i].kind = "sample" /\ x \in t[i].ids) <=> x \in {n}
      BY <2>2, <2>3, <3>1
    <3> QED
      BY <3>2, IdsMember
  <2>6. \A x : x \notin Ids(t, "lost")
    BY <1>1, <2>1, <2>2, IdsMember
  <2>7. Ids(t, "sample") = {n} /\ Ids(t, "lost") = M
    BY <1>3, <2>5, <2>6
  <2> QED
    BY <2>1, <2>4, <2>7 DEF t
<1>4. CASE M # {}
  <2>1. t \in Seq(Records) /\ Len(t) = 2 /\ t[1] = LostRecord(M) /\ t[2] = Sample(n)
    BY <1>1, <1>2, <1>4 DEF Written
  <2> HIDE DEF t
  <2>2. \A i \in 1 .. Len(t) : i = 1 \/ i = 2
    BY <2>1
  <2>3. 1 \in 1 .. Len(t) /\ 2 \in 1 .. Len(t)
    BY <2>1
  <2>4. Sorted(t)
    <3>1. \A i, j \in 1 .. Len(t) : i < j => i = 1 /\ j = 2
      BY <2>1
    <3> QED
      BY <1>1, <1>2, <2>1, <3>1 DEF Sorted
  <2>5. \A x : x \in Ids(t, "sample") <=> x \in {n}
    BY <1>1, <1>2, <2>1, <2>2, <2>3, IdsMember
  <2>6. \A x : x \in Ids(t, "lost") <=> x \in M
    BY <1>1, <1>2, <2>1, <2>2, <2>3, IdsMember
  <2>7. Ids(t, "sample") = {n} /\ Ids(t, "lost") = M
    BY <2>5, <2>6
  <2> QED
    BY <2>1, <2>4, <2>7 DEF t
<1> QED
  BY <1>3, <1>4

(* The next sample is younger than every sample output before it.          *)
LEMMA NextIsNew ==
  ASSUME NEW v \in Accounts, Sound(v), v.emitted + 1 \in Samples
  PROVE  LET n == v.emitted + 1
         IN  /\ \A x \in All(v.buf) \cup v.missed \cup Ended(v) : x < n
             /\ v.hand < n
             /\ 1 .. n = (1 .. v.emitted) \cup {n}
<1>1. v.emitted \in Nat /\ v.hand \in Nat
  BY AccountTypes
<1>2. \A x \in All(v.buf) \cup v.missed \cup Ended(v) : x \in 1 .. v.emitted
  BY DEF Sound, Covered
<1>3. v.hand = 0 \/ v.hand \in 1 .. v.emitted
  BY DEF Sound, Covered, Held
<1> QED
  BY <1>1, <1>2, <1>3

(* A program's output, stored, owed as lost or dropped, keeps the account  *)
(* sound.                                                                  *)
LEMMA ProducedSound ==
  ASSUME NEW v \in Accounts, NEW w \in Accounts, Sound(v), Produced(v, w)
  PROVE  Sound(w)
<1> DEFINE n == v.emitted + 1
<1>1. n \in Samples
  BY DEF Produced
<1>2. /\ \A x \in All(v.buf) \cup v.missed \cup Ended(v) : x < n
      /\ v.hand < n /\ 1 .. n = (1 .. v.emitted) \cup {n}
  BY <1>1, NextIsNew
<1>3. /\ All(v.buf) \subseteq Nat /\ v.missed \subseteq Samples /\ v.missed \subseteq Nat
      /\ v.hand \in Nat /\ n \in Nat /\ v.buf \in Seq(Records)
  BY AccountTypes
<1>4. w.emitted = n /\ w.hand = v.hand /\ w.reported = v.reported
      /\ w.undecoded = v.undecoded /\ w.lost = v.lost
  BY DEF Produced
<1>5. Held(w) = Held(v)
  BY <1>4 DEF Held
<1>6. n \notin Held(v) /\ n \notin All(v.buf) /\ n \notin v.missed /\ n \notin Ended(v)
  <2>1. \A x \in All(v.buf) \cup v.missed \cup Ended(v) : x # n
    BY <1>2, <1>3
  <2> QED
    BY <1>2, <1>3, <2>1 DEF Held
<1>7. CASE Accepts(v, w, n)
  <2> DEFINE t == Written(v.missed, n)
  <2>1. w.buf = v.buf \o t /\ w.missed = {} /\ w.dropped = v.dropped
    BY <1>7 DEF Accepts
  <2>2. /\ t \in Seq(Records) /\ Sorted(t) /\ Ids(t, "sample") = {n} /\ Ids(t, "lost") = v.missed
    BY <1>1, <1>2, <1>3, WrittenFacts, Zenon
  <2> HIDE DEF n, t
  <2>3. /\ Ids(w.buf, "sample") = Ids(v.buf, "sample") \cup {n}
        /\ Ids(w.buf, "lost") = Ids(v.buf, "lost") \cup v.missed
    BY <1>3, <2>1, <2>2, IdsConcat
  <2>4. All(t) = v.missed \cup {n} /\ All(w.buf) = All(v.buf) \cup v.missed \cup {n}
    BY <2>2, <2>3 DEF All
  <2>5. \A x \in All(v.buf), y \in All(t) : x < y
    BY <1>2, <2>4 DEF Sound, InOrder
  <2>6. Sorted(w.buf)
    BY <1>3, <2>1, <2>2, <2>5, SortedConcat DEF Sound, InOrder
  <2>7. Ended(w) = Ended(v)
    BY <1>4, <2>1 DEF Ended
  <2>8. InOrder(w)
    BY <1>2, <1>4, <2>1, <2>4, <2>6 DEF Sound, InOrder
  <2>9. Covered(w)
    BY <1>2, <1>4, <1>5, <2>1, <2>4, <2>7 DEF Sound, Covered
  <2>10. \A x \in Ids(w.buf, "sample") : x \notin Ids(w.buf, "lost")
    <3>1. \A x \in Ids(v.buf, "sample") : x \in Nat /\ x \notin v.missed
      BY <1>3 DEF Sound, InOrder, All
    <3>2. n \notin Ids(v.buf, "lost")
      BY <1>6 DEF All
    <3> QED
      BY <1>6, <2>3, <3>1, <3>2 DEF Sound, Separate
  <2>11. Separate(w)
    BY <1>4, <1>5, <1>6, <2>1, <2>4, <2>7, <2>10 DEF Sound, Separate
  <2> QED
    BY <2>8, <2>9, <2>11 DEF Sound
<1>8. CASE Misses(v, w, n)
  <2>1. w.buf = v.buf /\ w.missed = v.missed \cup {n} /\ w.dropped = v.dropped
    BY <1>8 DEF Misses
  <2> HIDE DEF n
  <2>2. Ended(w) = Ended(v)
    BY <1>4, <2>1 DEF Ended
  <2>3. InOrder(w)
    BY <1>2, <1>4, <2>1 DEF Sound, InOrder
  <2>4. Covered(w)
    BY <1>2, <1>4, <1>5, <2>1, <2>2 DEF Sound, Covered
  <2>5. Separate(w)
    BY <1>4, <1>5, <1>6, <2>1, <2>2 DEF Sound, Separate
  <2> QED
    BY <2>3, <2>4, <2>5 DEF Sound
<1>9. CASE Drops(v, w, n)
  <2>1. w.buf = v.buf /\ w.missed = v.missed /\ w.dropped = v.dropped \cup {n}
    BY <1>9 DEF Drops
  <2> HIDE DEF n
  <2>2. Ended(w) = Ended(v) \cup {n}
    BY <1>4, <2>1 DEF Ended
  <2>3. InOrder(w)
    BY <1>4, <2>1 DEF Sound, InOrder
  <2>4. Covered(w)
    BY <1>2, <1>4, <1>5, <2>1, <2>2 DEF Sound, Covered
  <2>5. n \notin v.reported /\ n \notin v.undecoded /\ n \notin v.lost
    BY <1>6 DEF Ended
  <2>6. Separate(w)
    BY <1>4, <1>5, <1>6, <2>1, <2>2, <2>5 DEF Sound, Separate
  <2> QED
    BY <2>3, <2>4, <2>6 DEF Sound
<1> QED
  BY <1>7, <1>8, <1>9 DEF Produced

(* A buffer that is empty holds no samples.                                *)
LEMMA NoIds ==
  /\ \A k : Ids(<<>>, k) = {}
  /\ All(<<>>) = {} /\ Sorted(<<>>)
BY DEF Ids, All, Sorted

(* A reader that closes its buffer keeps the account sound.                *)
LEMMA ClearedSound ==
  ASSUME NEW v \in Accounts, NEW w \in Accounts, Sound(v), Cleared(v, w)
  PROVE  Sound(w)
<1>1. /\ w.buf = <<>> /\ w.hand = 0 /\ w.missed = {} /\ w.emitted = v.emitted
      /\ w.reported = v.reported /\ w.undecoded = v.undecoded /\ w.lost = v.lost
      /\ w.dropped = v.dropped \cup All(v.buf) \cup v.missed
  BY DEF Cleared
<1>2. /\ All(w.buf) = {} /\ Ids(w.buf, "sample") = {} /\ Sorted(w.buf)
      /\ Held(v) = {} /\ Held(w) = {}
  BY <1>1, NoIds DEF Cleared, Held
<1>3. Ended(w) = Ended(v) \cup All(v.buf) \cup v.missed
  BY <1>1 DEF Ended
<1>4. InOrder(w)
  BY <1>1, <1>2 DEF InOrder
<1>5. Covered(w)
  BY <1>1, <1>2, <1>3 DEF Sound, Covered
<1>6. Separate(w)
  BY <1>1, <1>2 DEF Sound, Separate, Ended
<1> QED
  BY <1>4, <1>5, <1>6 DEF Sound

-----------------------------------------------------------------------------
(* The fate of the samples of an account                                   *)

FateIn(n, v) ==
  CASE n \in v.reported -> "reported"
    [] n \in v.undecoded -> "undecoded"
    [] n \in Ids(v.buf, "lost") \cup v.missed \cup v.lost \cup v.dropped -> "lost"
    [] n \in Ids(v.buf, "sample") \cup Held(v) -> "flight"
    [] OTHER -> IF n <= v.emitted THEN "vanished" ELSE "none"

Refused(v) == Ids(v.buf, "lost") \cup v.missed \cup v.lost \cup v.dropped

UnderWay(v) == Ids(v.buf, "sample") \cup Held(v)

(* In a sound account the fate of a sample tells where it is.              *)
LEMMA FateOfSound ==
  ASSUME NEW v \in Accounts, Sound(v), NEW n \in Samples
  PROVE  /\ FateIn(n, v) \in {"reported", "undecoded", "lost", "flight", "none"}
         /\ FateIn(n, v) = "reported" <=> n \in v.reported
         /\ FateIn(n, v) = "undecoded" <=> n \in v.undecoded
         /\ FateIn(n, v) = "lost" <=> n \in Refused(v)
         /\ FateIn(n, v) = "flight" <=> n \in UnderWay(v)
         /\ FateIn(n, v) = "none" <=> n > v.emitted
<1>1. /\ v.hand \in Nat /\ v.emitted \in Nat /\ n \in Nat /\ n >= 1 /\ All(v.buf) \subseteq Nat
      /\ v.missed \subseteq Nat
  BY AccountTypes
<1>2. n <= v.emitted <=> n \in v.reported \cup v.undecoded \cup Refused(v) \cup UnderWay(v)
  <2>1. n <= v.emitted <=> n \in 1 .. v.emitted
    BY <1>1
  <2> QED
    BY <2>1 DEF Sound, Covered, Ended, Refused, UnderWay, All
<1>3. n \in v.reported => n \notin v.undecoded /\ n \notin Refused(v) /\ n \notin UnderWay(v)
  BY DEF Sound, Separate, Refused, UnderWay, All, Ended
<1>4. n \in v.undecoded => n \notin Refused(v) /\ n \notin UnderWay(v)
  BY DEF Sound, Separate, Refused, UnderWay, All, Ended
<1>5. n \in UnderWay(v) => n \notin Refused(v)
  <2>1. n \in UnderWay(v) => n \notin v.lost /\ n \notin v.dropped
    BY DEF Sound, Separate, UnderWay, All, Ended
  <2>2. n \in UnderWay(v) => n \notin v.missed
    BY <1>1 DEF Sound, InOrder, UnderWay, All, Held
  <2>3. n \in UnderWay(v) => n \notin Ids(v.buf, "lost")
    BY <1>1 DEF Sound, InOrder, Separate, UnderWay, All, Held
  <2> QED
    BY <2>1, <2>2, <2>3 DEF Refused
<1>6. FateIn(n, v) = IF n \in v.reported THEN "reported"
                     ELSE IF n \in v.undecoded THEN "undecoded"
                     ELSE IF n \in Refused(v) THEN "lost"
                     ELSE IF n \in UnderWay(v) THEN "flight"
                     ELSE IF n <= v.emitted THEN "vanished" ELSE "none"
  BY <1>3, <1>4, <1>5 DEF FateIn, Refused, UnderWay
<1> QED
  BY <1>1, <1>2, <1>3, <1>4, <1>5, <1>6

(* Samples that are where they were have the fate they had.                *)
LEMMA SameFate ==
  ASSUME NEW v \in Accounts, NEW w \in Accounts, Sound(v), Sound(w), NEW n \in Samples,
         n \in w.reported <=> n \in v.reported,
         n \in w.undecoded <=> n \in v.undecoded,
         n \in Refused(w) <=> n \in Refused(v),
         n \in UnderWay(w) <=> n \in UnderWay(v),
         n > w.emitted <=> n > v.emitted
  PROVE  FateIn(n, w) = FateIn(n, v)
<1> DEFINE f == FateIn(n, v)
           g == FateIn(n, w)
<1>1. /\ f \in {"reported", "undecoded", "lost", "flight", "none"}
      /\ f = "reported" <=> n \in v.reported
      /\ f = "undecoded" <=> n \in v.undecoded
      /\ f = "lost" <=> n \in Refused(v)
      /\ f = "flight" <=> n \in UnderWay(v)
      /\ f = "none" <=> n > v.emitted
  BY FateOfSound
<1>2. /\ g \in {"reported", "undecoded", "lost", "flight", "none"}
      /\ g = "reported" <=> n \in w.reported
      /\ g = "undecoded" <=> n \in w.undecoded
      /\ g = "lost" <=> n \in Refused(w)
      /\ g = "flight" <=> n \in UnderWay(w)
      /\ g = "none" <=> n > w.emitted
  BY FateOfSound
<1> HIDE DEF f, g
<1>3. f = g
  BY <1>1, <1>2
<1> QED
  BY <1>3 DEF f, g

(* Taking a sample or a LOST record changes nobody's fate.                 *)
LEMMA QuietMoves ==
  ASSUME NEW v \in Accounts, NEW w \in Accounts, Sound(v), Sound(w),
         Taken(v, w) \/ Counted(v, w)
  PROVE  \A n \in Samples : FateIn(n, w) = FateIn(n, v)
<1>1. CASE Taken(v, w)
  <2>1. PICK n \in Samples : TakenBy(v, w, n)
    BY <1>1 DEF Taken
  <2>2. /\ Head(v.buf).ids = {n}
        /\ w.buf = Tail(v.buf) /\ w.hand = n /\ w.missed = v.missed /\ w.emitted = v.emitted
        /\ w.reported = v.reported /\ w.undecoded = v.undecoded /\ w.lost = v.lost
        /\ w.dropped = v.dropped
    BY <2>1 DEF TakenBy
  <2>3. Held(v) = {} /\ Held(w) = {n}
    BY <1>1, <2>2, AccountTypes DEF Taken, Held
  <2>4. /\ Ids(v.buf, "sample") = Ids(w.buf, "sample") \cup {n}
        /\ Ids(v.buf, "lost") = Ids(w.buf, "lost")
    <3>1. v.buf # <<>> /\ Head(v.buf).kind = "sample"
      BY <1>1 DEF Taken
    <3>2. \A k : Ids(v.buf, k) = Ids(w.buf, k) \cup
                   IF Head(v.buf).kind = k THEN Head(v.buf).ids ELSE {}
      BY <2>2, <3>1, HeadTaken
    <3>3. /\ Ids(v.buf, "sample") = Ids(w.buf, "sample") \cup Head(v.buf).ids
          /\ Ids(v.buf, "lost") = Ids(w.buf, "lost") \cup {}
      BY <3>1, <3>2, Zenon
    <3> QED
      BY <2>2, <3>3
  <2>5. Refused(w) = Refused(v) /\ UnderWay(w) = UnderWay(v)
    BY <2>2, <2>3, <2>4 DEF Refused, UnderWay
  <2> QED
    BY <2>2, <2>5, SameFate
<1>2. CASE Counted(v, w)
  <2> DEFINE S == Head(v.buf).ids
  <2>1. /\ w.buf = Tail(v.buf) /\ w.hand = v.hand /\ w.missed = v.missed
        /\ w.emitted = v.emitted /\ w.reported = v.reported /\ w.undecoded = v.undecoded
        /\ \/ w.lost = v.lost \cup S /\ w.dropped = v.dropped
           \/ w.dropped = v.dropped \cup S /\ w.lost = v.lost
    BY <1>2 DEF Counted
  <2>2. /\ Ids(v.buf, "sample") = Ids(w.buf, "sample")
        /\ Ids(v.buf, "lost") = Ids(w.buf, "lost") \cup S
    <3>1. \A k : Ids(v.buf, k) = Ids(w.buf, k) \cup IF k = "lost" THEN S ELSE {}
      BY <1>2, <2>1, HeadTaken DEF Counted
    <3> HIDE DEF S
    <3> QED
      BY <3>1
  <2> HIDE DEF S
  <2>3. Refused(w) = Refused(v) /\ UnderWay(w) = UnderWay(v)
    BY <2>1, <2>2 DEF Refused, UnderWay, Held
  <2> QED
    BY <2>1, <2>3, SameFate
<1> QED
  BY <1>1, <1>2

(* The sample in hand is the oldest under way, and settling it changes its *)
(* fate alone.                                                             *)
LEMMA SettlingMove ==
  ASSUME NEW v \in Accounts, NEW w \in Accounts, Sound(v), Sound(w), Settled(v, w)
  PROVE  /\ v.hand \in Samples
         /\ FateIn(v.hand, v) = "flight"
         /\ \A k \in Samples : k < v.hand => FateIn(k, v) # "flight"
         /\ FateIn(v.hand, w) \in {"reported", "undecoded"}
         /\ \A k \in Samples : k # v.hand => FateIn(k, w) = FateIn(k, v)
<1>1. v.hand \in Samples
  BY DEF Settled, Accounts, Samples
<1>2. /\ w.buf = v.buf /\ w.hand = 0 /\ w.missed = v.missed /\ w.emitted = v.emitted
      /\ w.lost = v.lost /\ w.dropped = v.dropped
      /\ \/ w.reported = v.reported \cup {v.hand} /\ w.undecoded = v.undecoded
         \/ w.undecoded = v.undecoded \cup {v.hand} /\ w.reported = v.reported
  BY DEF Settled
<1>3. Held(v) = {v.hand} /\ Held(w) = {}
  BY <1>2 DEF Settled, Held
<1>4. /\ UnderWay(v) = Ids(v.buf, "sample") \cup {v.hand}
      /\ UnderWay(w) = Ids(v.buf, "sample") /\ Refused(w) = Refused(v)
  BY <1>2, <1>3 DEF UnderWay, Refused
<1>5. FateIn(v.hand, v) = "flight"
  BY <1>1, <1>4, FateOfSound
<1>6. \A k \in Samples : k < v.hand => k \notin UnderWay(v)
  <2>1. Samples \subseteq Nat /\ v.hand \in Nat
    BY AccountTypes
  <2>2. \A x \in Ids(v.buf, "sample") : v.hand < x
    BY DEF Sound, InOrder, All
  <2> QED
    BY <1>4, <2>1, <2>2
<1>7. \A k \in Samples : k < v.hand => FateIn(k, v) # "flight"
  BY <1>6, FateOfSound
<1>8. FateIn(v.hand, w) \in {"reported", "undecoded"}
  <2>1. v.hand \in w.reported \/ v.hand \in w.undecoded
    BY <1>2
  <2> QED
    BY <1>1, <2>1, FateOfSound
<1>9. \A k \in Samples : k # v.hand => FateIn(k, w) = FateIn(k, v)
  BY <1>2, <1>4, SameFate
<1> QED
  BY <1>1, <1>5, <1>7, <1>8, <1>9

(* The sample a program outputs is the first without a fate and gets one.  *)
LEMMA ProducingMove ==
  ASSUME NEW v \in Accounts, NEW w \in Accounts, Sound(v), Sound(w), Produced(v, w)
  PROVE  /\ v.emitted + 1 \in Samples
         /\ FateIn(v.emitted + 1, v) = "none"
         /\ \A k \in Samples : k < v.emitted + 1 => FateIn(k, v) # "none"
         /\ FateIn(v.emitted + 1, w) \in {"flight", "lost"}
         /\ \A k \in Samples : k # v.emitted + 1 => FateIn(k, w) = FateIn(k, v)
<1> DEFINE n == v.emitted + 1
<1>1. n \in Samples /\ v.emitted \in Nat /\ Samples \subseteq Nat
  BY AccountTypes DEF Produced
<1>2. FateIn(n, v) = "none"
  <2>1. n > v.emitted
    BY <1>1
  <2> QED
    BY <1>1, <2>1, FateOfSound
<1>3. \A k \in Samples : k < n => FateIn(k, v) # "none"
  <2>1. \A k \in Samples : k < n => ~ (k > v.emitted)
    BY <1>1
  <2> QED
    BY <2>1, FateOfSound
<1>4. /\ w.emitted = n /\ w.hand = v.hand /\ w.reported = v.reported
      /\ w.undecoded = v.undecoded /\ w.lost = v.lost /\ Held(w) = Held(v)
  BY DEF Produced, Held
<1>5. \A k \in Samples : k # n => (k > w.emitted <=> k > v.emitted)
  BY <1>1, <1>4
<1>6. /\ v.missed \subseteq Samples /\ v.buf \in Seq(Records)
      /\ \A y \in v.missed : y < n
  BY <1>1, AccountTypes, NextIsNew
<1>7. \/ Refused(w) = Refused(v) \cup {n} /\ UnderWay(w) = UnderWay(v)
      \/ Refused(w) = Refused(v) /\ UnderWay(w) = UnderWay(v) \cup {n}
  <2>1. CASE Accepts(v, w, n)
    <3> DEFINE t == Written(v.missed, n)
    <3>1. w.buf = v.buf \o t /\ w.missed = {} /\ w.dropped = v.dropped
      BY <2>1 DEF Accepts
    <3>2. t \in Seq(Records) /\ Ids(t, "sample") = {n} /\ Ids(t, "lost") = v.missed
      BY <1>1, <1>6, WrittenFacts, Zenon
    <3> HIDE DEF n, t
    <3>3. /\ Ids(w.buf, "sample") = Ids(v.buf, "sample") \cup {n}
          /\ Ids(w.buf, "lost") = Ids(v.buf, "lost") \cup v.missed
      BY <1>6, <3>1, <3>2, IdsConcat
    <3> QED
      BY <1>4, <3>1, <3>3 DEF Refused, UnderWay
  <2>2. CASE Misses(v, w, n)
    <3>1. w.buf = v.buf /\ w.missed = v.missed \cup {n} /\ w.dropped = v.dropped
      BY <2>2 DEF Misses
    <3> HIDE DEF n
    <3> QED
      BY <1>4, <3>1 DEF Refused, UnderWay
  <2>3. CASE Drops(v, w, n)
    <3>1. w.buf = v.buf /\ w.missed = v.missed /\ w.dropped = v.dropped \cup {n}
      BY <2>3 DEF Drops
    <3> HIDE DEF n
    <3> QED
      BY <1>4, <3>1 DEF Refused, UnderWay
  <2> QED
    BY <2>1, <2>2, <2>3 DEF Produced
<1> HIDE DEF n
<1>8. FateIn(n, w) \in {"flight", "lost"}
  BY <1>1, <1>7, FateOfSound
<1>9. \A k \in Samples : k # n => FateIn(k, w) = FateIn(k, v)
  BY <1>4, <1>5, <1>7, SameFate
<1> QED
  BY <1>1, <1>2, <1>3, <1>8, <1>9 DEF n

(* A sample a program drops is lost.                                       *)
LEMMA DroppedIsLost ==
  ASSUME NEW w \in Accounts, Sound(w), NEW n \in Samples, n \in w.dropped
  PROVE  FateIn(n, w) = "lost"
BY FateOfSound DEF Refused

(* When the buffer is closed the samples under way are lost, and no other  *)
(* sample changes its fate.                                                *)
LEMMA ClearingMove ==
  ASSUME NEW v \in Accounts, NEW w \in Accounts, Sound(v), Sound(w), Cleared(v, w)
  PROVE  \A n \in Samples : FateIn(n, w) = Stream!AfterClose(FateIn(n, v))
<1>1. /\ w.buf = <<>> /\ w.hand = 0 /\ w.missed = {} /\ w.emitted = v.emitted
      /\ w.reported = v.reported /\ w.undecoded = v.undecoded /\ w.lost = v.lost
      /\ w.dropped = v.dropped \cup All(v.buf) \cup v.missed
  BY DEF Cleared
<1>2. Held(v) = {} /\ Held(w) = {} /\ \A k : Ids(w.buf, k) = {}
  BY <1>1, NoIds DEF Cleared, Held
<1>3. UnderWay(w) = {} /\ Refused(w) = Refused(v) \cup UnderWay(v)
  BY <1>1, <1>2 DEF UnderWay, Refused, All
<1>4. ASSUME NEW n \in Samples, FateIn(n, v) = "flight" PROVE FateIn(n, w) = "lost"
  BY <1>3, <1>4, FateOfSound
<1>5. ASSUME NEW n \in Samples, FateIn(n, v) # "flight" PROVE FateIn(n, w) = FateIn(n, v)
  <2>1. n \notin UnderWay(v)
    BY <1>5, FateOfSound
  <2> QED
    BY <1>1, <1>3, <2>1, SameFate
<1> QED
  BY <1>4, <1>5 DEF Stream!AfterClose

-----------------------------------------------------------------------------
(* The steps of the agent                                                  *)

(* Only a reader about to decode holds a sample.                           *)
HandInv == \A q \in Maps : hand[q] # 0 => reader[q] = "decode"

StreamInv == HandInv /\ \A q \in Maps : Sound(Account(q))

(* What a reader may do to the account of its map.  DataHandler takes and  *)
(* settles a sample in one step.                                           *)
Handled(v, w) ==
  \/ Taken(v, w) \/ Settled(v, w) \/ Counted(v, w)
  \/ \E u \in Accounts : Taken(v, u) /\ Settled(u, w)

MapVars == <<buf, hand, missed, reported, undecoded, lost, dropped, emitted>>

(* The account of a map is an account.                                     *)
LEMMA AccountTyped ==
  ASSUME TypeInv, NEW q \in Maps
  PROVE  Account(q) \in Accounts
BY DEF TypeInv, TypeOK, Account, Accounts

(* A step that leaves the maps alone leaves the accounts.                  *)
LEMMA AccountSame ==
  ASSUME UNCHANGED MapVars, NEW q \in Maps
  PROVE  Account(q)' = Account(q)
BY DEF MapVars, Account

(* The steps of main, of Run and of readEvents touch no sample.            *)
LEMMA ControlSteps ==
  ASSUME \/ UNCHANGED vars \/ Terminated \/ Main \/ Signal
         \/ \E m \in Modules : Start(m) \/ ReadEvents(m)
  PROVE  UNCHANGED MapVars
<1> USE DEF MapVars, vars, mainVars, runVars, kernVars, fateVars
<1>1. CASE UNCHANGED vars \/ Terminated
  BY <1>1 DEF Terminated
<1>2. CASE Main \/ Signal
  BY <1>2 DEF Main, Signal, EnterMain, Setup, Shutdown, Exit, Register, StartModule
<1>3. ASSUME NEW m \in Modules, Start(m) PROVE UNCHANGED MapVars
  BY <1>3 DEF Start, LoadAsset, InitManager, StartManager, InitDecodeFun
<1>4. ASSUME NEW m \in Modules, ReadEvents(m) PROVE UNCHANGED MapVars
  BY <1>4, Zenon DEF ReadEvents, SpawnReader, AwaitError, ReceiveError
<1> QED
  BY <1>1, <1>2, <1>3, <1>4

(* No reader comes back, and none returns but by closing its buffer: the   *)
(* control steps close nothing.                                            *)
LEMMA NothingCloses ==
  ASSUME \A q \in Maps : reader'[q] = "done" <=> reader[q] = "done"
  PROVE  Closed' = Closed
BY DEF Closed

LEMMA ControlClosesNothing ==
  ASSUME TypeInv, ErrInv,
         \/ UNCHANGED vars \/ Terminated \/ Main \/ Signal
         \/ \E m \in Modules : Start(m) \/ ReadEvents(m)
  PROVE  Closed' = Closed
<1> USE DEF vars, mainVars, runVars
<1>1. CASE UNCHANGED reader
  BY <1>1, NothingCloses
<1>2. CASE UNCHANGED vars \/ Terminated
  BY <1>1, <1>2 DEF Terminated
<1>3. CASE Main \/ Signal
  BY <1>1, <1>3 DEF Main, Signal, EnterMain, Setup, Shutdown, Exit, Register, StartModule
<1>4. ASSUME NEW m \in Modules, Start(m) \/ ReadEvents(m) PROVE Closed' = Closed
  <2>1. CASE LoadAsset(m) \/ InitManager(m) \/ InitDecodeFun(m) \/ AwaitError(m) \/ ReceiveError(m)
    BY <1>1, <2>1 DEF LoadAsset, InitManager, InitDecodeFun, AwaitError, ReceiveError
  <2>2. CASE StartManager(m)
    <3>1. reader' \in {reader, HandlersStarted(m)}
      BY <2>2 DEF StartManager
    <3>2. \A q \in Maps : reader[q] = "done" => q \notin HandlerMaps
      BY AgentAssumption, ListedFacts, Zenon DEF ErrInv
    <3>3. \A q \in Maps : reader'[q] = "done" <=> reader[q] = "done"
      BY <3>1, <3>2 DEF HandlersStarted
    <3> QED
      BY <3>3, NothingCloses
  <2>3. CASE SpawnReader(m)
    <3>1. PICK p \in Maps : reader[p] = "none" /\ reader' = [reader EXCEPT ![p] = "new"]
      BY <2>3, SpawnEffect, Zenon
    <3>2. \A q \in Maps : reader'[q] = "done" <=> reader[q] = "done"
      BY <3>1 DEF TypeInv, TypeOK
    <3> QED
      BY <3>2, NothingCloses
  <2> QED
    BY <1>4, <2>1, <2>2, <2>3 DEF Start, ReadEvents
<1> QED
  BY <1>2, <1>3, <1>4

(* The steps of a reader that touch no sample.                             *)
Idles(q) ==
  \/ CreateReader(q) \/ ReadFails(q) \/ (CheckCtx(q) /\ ~ctxDone)

LEMMA ReaderSteps ==
  ASSUME TypeInv, NEW q \in Maps, Idles(q)
  PROVE  UNCHANGED MapVars /\ Closed' = Closed
<1>1. /\ UNCHANGED MapVars
      /\ reader[q] # "done" /\ \E to \in ReaderPcs \ {"done"} : reader' = [reader EXCEPT ![q] = to]
  BY DEF Idles, MapVars, kernVars, fateVars, CreateReader, CheckCtx, ReadFails, ReaderPcs
<1>2. \A p \in Maps : reader'[p] = "done" <=> reader[p] = "done"
  BY <1>1 DEF TypeInv, TypeOK
<1> QED
  BY <1>1, <1>2, NothingCloses

(* Every step keeps HandInv: a reader holds a sample only while it         *)
(* decodes.                                                                *)
LEMMA HandStep == TypeInv /\ ErrInv /\ HandInv /\ [Next]_vars => HandInv'
<1> SUFFICES ASSUME TypeInv, ErrInv, HandInv, [Next]_vars PROVE HandInv'
  OBVIOUS
<1> USE DEF vars, mainVars, runVars, kernVars, fateVars
<1>1. CASE UNCHANGED <<hand, reader>>
  BY <1>1, Zenon DEF HandInv
<1>2. CASE UNCHANGED vars \/ Terminated \/ Main \/ Signal
  <2>1. UNCHANGED <<hand, reader>>
    BY <1>2 DEF Terminated, Main, Signal, EnterMain, Setup, Shutdown, Exit, Register, StartModule
  <2> QED
    BY <1>1, <2>1
<1>3. ASSUME NEW m \in Modules, Start(m) \/ ReadEvents(m) PROVE HandInv'
  <2>1. CASE LoadAsset(m) \/ InitManager(m) \/ InitDecodeFun(m) \/ AwaitError(m) \/ ReceiveError(m)
    BY <1>1, <2>1, Zenon DEF LoadAsset, InitManager, InitDecodeFun, AwaitError, ReceiveError
  <2>2. CASE StartManager(m)
    <3>1. reader' \in {reader, HandlersStarted(m)} /\ UNCHANGED hand
      BY <2>2 DEF StartManager
    <3>2. \A q \in Maps : reader[q] = "decode" => q \notin HandlerMaps
      BY AgentAssumption, ListedFacts, Zenon DEF ErrInv
    <3>3. \A q \in Maps : reader[q] = "decode" => reader'[q] = "decode"
      BY <3>1, <3>2 DEF HandlersStarted, TypeInv, TypeOK
    <3> QED
      BY <3>1, <3>3, Zenon DEF HandInv
  <2>3. CASE SpawnReader(m)
    <3>1. PICK p \in Maps : reader[p] = "none" /\ reader' = [reader EXCEPT ![p] = "new"]
      BY <2>3, SpawnEffect, Zenon
    <3>2. UNCHANGED hand
      BY <2>3 DEF SpawnReader
    <3> QED
      BY <3>1, <3>2 DEF HandInv, TypeInv, TypeOK
  <2> QED
    BY <1>3, <2>1, <2>2, <2>3 DEF Start, ReadEvents
<1>4. ASSUME NEW q \in Maps, PerfEventReader(q) \/ RingbufEventReader(q) \/ ReadFails(q)
      PROVE  HandInv'
  <2>1. CASE CreateReader(q) \/ CheckCtx(q) \/ SendError(q) \/ ReadFails(q)
    <3>1. /\ reader[q] # "decode" /\ UNCHANGED hand
          /\ \A p \in Maps : p # q => reader'[p] = reader[p]
      BY <2>1, SMTT(30) DEF CreateReader, CheckCtx, SendError, ReadFails, CloseReader, TypeInv, TypeOK
    <3> QED
      BY <3>1 DEF HandInv
  <2>2. CASE TakeSample(q)
    <3>1. /\ reader'[q] = "decode"
          /\ \A p \in Maps : p # q => reader'[p] = reader[p] /\ hand'[p] = hand[p]
      BY <2>2 DEF TakeSample, TypeInv, TypeOK
    <3> QED
      BY <3>1 DEF HandInv
  <2>3. CASE TakeLost(q)
    <3>1. /\ reader[q] # "decode" /\ UNCHANGED hand
          /\ \A p \in Maps : p # q => reader'[p] = reader[p]
      BY <2>3 DEF TakeLost, TakeRecord, TypeInv, TypeOK
    <3> QED
      BY <3>1 DEF HandInv
  <2>4. CASE DecodeAndWrite(q)
    <3>1. /\ hand'[q] = 0
          /\ \A p \in Maps : p # q => reader'[p] = reader[p] /\ hand'[p] = hand[p]
      BY <2>4 DEF DecodeAndWrite, TypeInv, TypeOK
    <3> QED
      BY <3>1, SMTT(30) DEF HandInv
  <2> QED
    BY <1>4, <2>1, <2>2, <2>3, <2>4 DEF PerfEventReader, RingbufEventReader
<1>5. ASSUME NEW q \in Maps, DataHandler(q) \/ Emit(q) PROVE HandInv'
  <2>1. UNCHANGED <<hand, reader>>
    BY <1>5, Zenon DEF DataHandler, Emit
  <2> QED
    BY <1>1, <2>1
<1> QED
  BY <1>2, <1>3, <1>4, <1>5 DEF Next

(* A step that changes the variables of q alone changes q's account alone. *)
LEMMA OthersSame ==
  ASSUME TypeInv, NEW q \in Maps, NEW p \in Maps, p # q,
         /\ buf'[p] = buf[p] /\ hand'[p] = hand[p] /\ missed'[p] = missed[p]
         /\ reported'[p] = reported[p] /\ undecoded'[p] = undecoded[p]
         /\ lost'[p] = lost[p] /\ dropped'[p] = dropped[p] /\ emitted'[p] = emitted[p]
  PROVE  Account(p)' = Account(p)
BY Zenon DEF Account

(* The parts of a map's account before and after a step.                   *)
LEMMA AccountFields ==
  ASSUME NEW q \in Maps
  PROVE  /\ Account(q).buf = buf[q] /\ Account(q).hand = hand[q]
         /\ Account(q).missed = missed[q] /\ Account(q).reported = reported[q]
         /\ Account(q).undecoded = undecoded[q] /\ Account(q).lost = lost[q]
         /\ Account(q).dropped = dropped[q] /\ Account(q).emitted = emitted[q]
         /\ Account(q)'.buf = buf'[q] /\ Account(q)'.hand = hand'[q]
         /\ Account(q)'.missed = missed'[q] /\ Account(q)'.reported = reported'[q]
         /\ Account(q)'.undecoded = undecoded'[q] /\ Account(q)'.lost = lost'[q]
         /\ Account(q)'.dropped = dropped'[q] /\ Account(q)'.emitted = emitted'[q]
BY Zenon DEF Account

(* A step touches the account of q alone: its reader handles a record, a   *)
(* program outputs a sample, or the reader closes the buffer.              *)
OthersRest(q) == \A p \in Maps : p # q => Account(p)' = Account(p)

Handles(q) ==
  Closed' = Closed /\ q \notin Closed /\ Handled(Account(q), Account(q)')

Emits(q) ==
  /\ Closed' = Closed
  /\ Produced(Account(q), Account(q)')
  /\ q \in Closed => Drops(Account(q), Account(q)', Account(q).emitted + 1)

Closes(q) ==
  Closed' = Closed \cup {q} /\ q \notin Closed /\ Cleared(Account(q), Account(q)')

OneMoves(q) == OthersRest(q) /\ (Handles(q) \/ Emits(q) \/ Closes(q))

(* A reader that moves on from the middle of its loop.                     *)
LEMMA ReaderMovesOn ==
  ASSUME TypeInv, NEW q \in Maps, reader[q] # "done",
         NEW to \in ReaderPcs \ {"done"}, reader' = [reader EXCEPT ![q] = to]
  PROVE  Closed' = Closed /\ q \notin Closed
<1>1. \A p \in Maps : reader'[p] = "done" <=> reader[p] = "done"
  BY DEF TypeInv, TypeOK
<1> QED
  BY <1>1, NothingCloses DEF Closed

(* Reading a sample is a move of one account.                              *)
LEMMA TakeSampleMoves ==
  ASSUME TypeInv, HandInv, NEW q \in Maps, TakeSample(q)
  PROVE  OneMoves(q)
<1> USE DEF fateVars
<1>1. /\ reader[q] = "read" /\ buf[q] # <<>> /\ Head(buf[q]).kind = "sample"
      /\ buf' = [buf EXCEPT ![q] = Tail(buf[q])]
      /\ hand' = [hand EXCEPT ![q] = CHOOSE n \in Head(buf[q]).ids : TRUE]
      /\ UNCHANGED <<emitted, missed, reported, undecoded, lost, dropped>>
  BY DEF TakeSample, TakeRecord
<1>2. Head(buf[q]) \in Records
  BY <1>1, HeadRecord
<1>3. PICK n \in Samples : Head(buf[q]).ids = {n}
  BY <1>1, <1>2, Zenon DEF Records
<1>4. (CHOOSE x \in Head(buf[q]).ids : TRUE) = n
  BY <1>3
<1>5. hand' = [hand EXCEPT ![q] = n] /\ hand[q] = 0
  BY <1>1, <1>4, Zenon DEF HandInv, TypeInv, TypeOK
<1>6. /\ buf'[q] = Tail(buf[q]) /\ hand'[q] = n /\ missed'[q] = missed[q]
      /\ reported'[q] = reported[q] /\ undecoded'[q] = undecoded[q] /\ lost'[q] = lost[q]
      /\ dropped'[q] = dropped[q] /\ emitted'[q] = emitted[q]
  BY <1>1, <1>5 DEF TypeInv, TypeOK
<1>7. TakenBy(Account(q), Account(q)', n)
  BY <1>3, <1>6, AccountFields, Zenon DEF TakenBy
<1>8. Taken(Account(q), Account(q)')
  BY <1>1, <1>5, <1>7, AccountFields, Zenon DEF Taken
<1>9. \A p \in Maps : p # q => Account(p)' = Account(p)
  BY <1>1, <1>5, OthersSame DEF TypeInv, TypeOK
<1>10. Closed' = Closed /\ q \notin Closed
  BY <1>1, ReaderMovesOn DEF TakeSample, ReaderPcs
<1> QED
  BY <1>8, <1>9, <1>10 DEF OneMoves, OthersRest, Handles, Handled

(* Reading a LOST record is a move of one account.                         *)
LEMMA TakeLostMoves ==
  ASSUME TypeInv, NEW q \in Maps, TakeLost(q)
  PROVE  OneMoves(q)
<1>1. /\ buf[q] # <<>> /\ Head(buf[q]).kind = "lost"
      /\ buf' = [buf EXCEPT ![q] = Tail(buf[q])]
      /\ lost' = [lost EXCEPT ![q] = lost[q] \cup Head(buf[q]).ids]
      /\ UNCHANGED <<hand, emitted, missed, reported, undecoded, dropped>>
  BY DEF TakeLost, TakeRecord
<1>2. /\ buf'[q] = Tail(buf[q]) /\ hand'[q] = hand[q] /\ missed'[q] = missed[q]
      /\ reported'[q] = reported[q] /\ undecoded'[q] = undecoded[q]
      /\ lost'[q] = lost[q] \cup Head(buf[q]).ids
      /\ dropped'[q] = dropped[q] /\ emitted'[q] = emitted[q]
  BY <1>1 DEF TypeInv, TypeOK
<1>4. Counted(Account(q), Account(q)')
  BY <1>1, <1>2, AccountFields, Zenon DEF Counted
<1>5. \A p \in Maps : p # q => Account(p)' = Account(p)
  BY <1>1, OthersSame DEF TypeInv, TypeOK
<1>6. Closed' = Closed /\ q \notin Closed
  BY ReaderMovesOn DEF TakeLost, TakeRecord, ReaderPcs
<1> QED
  BY <1>4, <1>5, <1>6 DEF OneMoves, OthersRest, Handles, Handled

(* Decoding and writing is a move of one account.                          *)
LEMMA DecodeMoves ==
  ASSUME TypeInv, NEW q \in Maps, DecodeAndWrite(q)
  PROVE  OneMoves(q)
<1> USE DEF kernVars
<1>1. /\ hand[q] \in Samples /\ hand' = [hand EXCEPT ![q] = 0]
      /\ UNCHANGED <<buf, emitted, missed, lost, dropped>>
      /\ \/ reported' = [reported EXCEPT ![q] = reported[q] \cup {hand[q]}] /\ UNCHANGED undecoded
         \/ undecoded' = [undecoded EXCEPT ![q] = undecoded[q] \cup {hand[q]}] /\ UNCHANGED reported
  BY Zenon DEF DecodeAndWrite, Write, TypeInv, TypeOK
<1>2. /\ buf'[q] = buf[q] /\ hand'[q] = 0 /\ missed'[q] = missed[q]
      /\ lost'[q] = lost[q] /\ dropped'[q] = dropped[q] /\ emitted'[q] = emitted[q]
      /\ \/ reported'[q] = reported[q] \cup {hand[q]} /\ undecoded'[q] = undecoded[q]
         \/ undecoded'[q] = undecoded[q] \cup {hand[q]} /\ reported'[q] = reported[q]
  BY <1>1 DEF TypeInv, TypeOK
<1>4. hand[q] # 0
  BY <1>1 DEF Samples
<1>5. Settled(Account(q), Account(q)')
  BY <1>2, <1>4, AccountFields, Zenon DEF Settled
<1>6. \A p \in Maps : p # q => Account(p)' = Account(p)
  BY <1>1, OthersSame DEF TypeInv, TypeOK
<1>7. Closed' = Closed /\ q \notin Closed
  BY ReaderMovesOn DEF DecodeAndWrite, ReaderPcs
<1> QED
  BY <1>5, <1>6, <1>7 DEF OneMoves, OthersRest, Handles, Handled

(* dataHandler is a move of one account.                                   *)
LEMMA DataHandlerMoves ==
  ASSUME TypeInv, HandInv, NEW q \in Maps, DataHandler(q)
  PROVE  OneMoves(q)
<1>1. /\ reader[q] = "handler" /\ buf[q] # <<>>
      /\ buf' = [buf EXCEPT ![q] = Tail(buf[q])]
      /\ UNCHANGED <<hand, emitted, missed>>
  BY DEF DataHandler
<1>2. Head(buf[q]) \in Records /\ Tail(buf[q]) \in Seq(Records)
  BY <1>1, HeadRecord
<1>3. Closed' = Closed /\ q \notin Closed
  BY <1>1 DEF DataHandler, Closed
<1>4. CASE /\ Head(buf[q]).kind = "sample"
           /\ Write(q, CHOOSE n \in Head(buf[q]).ids : TRUE)
  <2>1. PICK n \in Samples : Head(buf[q]).ids = {n}
    BY <1>2, <1>4, Zenon DEF Records
  <2>2. (CHOOSE x \in Head(buf[q]).ids : TRUE) = n
    BY <2>1
  <2>3. /\ reported' = [reported EXCEPT ![q] = reported[q] \cup {n}]
        /\ UNCHANGED <<undecoded, lost, dropped>>
    BY <1>4, <2>2, Zenon DEF Write
  <2>4. hand[q] = 0
    BY <1>1 DEF HandInv, TypeInv, TypeOK
  <2>5. PICK u : u = [buf |-> Tail(buf[q]), hand |-> n, missed |-> missed[q],
                      reported |-> reported[q], undecoded |-> undecoded[q],
                      lost |-> lost[q], dropped |-> dropped[q], emitted |-> emitted[q]]
    BY Zenon
  <2>6. u \in Accounts
    <3>1. n \in 0 .. MaxSamples
      BY DEF Samples
    <3> QED
      BY <1>2, <2>5, <3>1 DEF Accounts, TypeInv, TypeOK
  <2>7. TakenBy(Account(q), u, n)
    BY <2>1, <2>5, AccountFields, Zenon DEF TakenBy
  <2>8. Taken(Account(q), u)
    BY <1>1, <1>4, <2>4, <2>7, AccountFields, Zenon DEF Taken
  <2>9. /\ buf'[q] = u.buf /\ hand'[q] = 0 /\ missed'[q] = u.missed /\ u.hand = n
        /\ reported'[q] = u.reported \cup {n} /\ undecoded'[q] = u.undecoded
        /\ lost'[q] = u.lost /\ dropped'[q] = u.dropped /\ emitted'[q] = u.emitted
    BY <1>1, <2>3, <2>4, <2>5 DEF TypeInv, TypeOK
  <2>10. Settled(u, Account(q)')
    <3>1. n # 0
      BY DEF Samples
    <3> QED
      BY <2>9, <3>1, AccountFields, Zenon DEF Settled
  <2>11. \A p \in Maps : p # q => Account(p)' = Account(p)
    BY <1>1, <2>3, OthersSame DEF TypeInv, TypeOK
  <2> QED
    BY <1>3, <2>6, <2>8, <2>10, <2>11 DEF OneMoves, OthersRest, Handles, Handled
<1>5. CASE /\ Head(buf[q]).kind = "lost"
           /\ dropped' = [dropped EXCEPT ![q] = @ \cup Head(buf[q]).ids]
           /\ UNCHANGED <<reported, undecoded, lost, late>>
  <2>1. /\ buf'[q] = Tail(buf[q]) /\ hand'[q] = hand[q] /\ missed'[q] = missed[q]
        /\ reported'[q] = reported[q] /\ undecoded'[q] = undecoded[q] /\ lost'[q] = lost[q]
        /\ dropped'[q] = dropped[q] \cup Head(buf[q]).ids /\ emitted'[q] = emitted[q]
    BY <1>1, <1>5 DEF TypeInv, TypeOK
  <2>2. Counted(Account(q), Account(q)')
    BY <1>1, <1>5, <2>1, AccountFields, Zenon DEF Counted
  <2>3. \A p \in Maps : p # q => Account(p)' = Account(p)
    BY <1>1, <1>5, OthersSame DEF TypeInv, TypeOK
  <2> QED
    BY <1>3, <2>2, <2>3 DEF OneMoves, OthersRest, Handles, Handled
<1> QED
  BY <1>4, <1>5 DEF DataHandler

(* An output of a program is a move of one account.                        *)
LEMMA EmitMoves ==
  ASSUME TypeInv, NEW q \in Maps, Emit(q)
  PROVE  OneMoves(q)
<1> DEFINE n == emitted[q] + 1
<1>1. /\ n \in Samples /\ emitted' = [emitted EXCEPT ![q] = n]
      /\ UNCHANGED <<hand, reported, undecoded, lost>>
  <2>1. emitted[q] < MaxSamples /\ emitted[q] \in 0 .. MaxSamples
    <3>1. emitted[q] < Outputs[q] /\ emitted[q] \in 0 .. MaxSamples
      BY DEF Emit, TypeInv, TypeOK
    <3>2. Outputs[q] \in 0 .. MaxSamples /\ MaxSamples \in Nat
      BY AgentAssumption
    <3> QED
      BY <3>1, <3>2
  <2> QED
    BY <2>1, AgentAssumption, SMTT(30) DEF Emit, Samples
<1>2. PerfRecords(q, n) = Written(missed[q], n)
  BY DEF PerfRecords, Written
<1>3. \/ /\ buf' = [buf EXCEPT ![q] = buf[q] \o Written(missed[q], n)]
         /\ missed' = [missed EXCEPT ![q] = {}] /\ UNCHANGED dropped
      \/ missed' = [missed EXCEPT ![q] = missed[q] \cup {n}] /\ UNCHANGED <<buf, dropped>>
      \/ dropped' = [dropped EXCEPT ![q] = dropped[q] \cup {n}] /\ UNCHANGED <<buf, missed>>
  BY <1>2, Zenon DEF Emit, EmitTo
<1>5. \A p \in Maps : p # q => Account(p)' = Account(p)
  <2> HIDE DEF n
  <2> QED
    BY <1>1, <1>3, OthersSame DEF TypeInv, TypeOK
<1>6. /\ hand'[q] = hand[q] /\ reported'[q] = reported[q] /\ undecoded'[q] = undecoded[q]
      /\ lost'[q] = lost[q] /\ emitted'[q] = n
      /\ \/ /\ buf'[q] = buf[q] \o Written(missed[q], n)
            /\ missed'[q] = {} /\ dropped'[q] = dropped[q]
         \/ buf'[q] = buf[q] /\ missed'[q] = missed[q] \cup {n} /\ dropped'[q] = dropped[q]
         \/ buf'[q] = buf[q] /\ missed'[q] = missed[q] /\ dropped'[q] = dropped[q] \cup {n}
  <2> HIDE DEF n
  <2> QED
    BY <1>1, <1>3 DEF TypeInv, TypeOK
<1>7. Produced(Account(q), Account(q)')
  BY <1>1, <1>6, AccountFields, Zenon DEF Produced, Accepts, Misses, Drops
<1>8. ASSUME q \in Closed PROVE Drops(Account(q), Account(q)', Account(q).emitted + 1)
  <2>1. ~BufferOpen(q)
    BY <1>8, AgentAssumption DEF Closed, BufferOpen
  <2>2. dropped' = [dropped EXCEPT ![q] = dropped[q] \cup {n}] /\ UNCHANGED <<buf, missed>>
    BY <2>1, Zenon DEF Emit
  <2>3. buf'[q] = buf[q] /\ missed'[q] = missed[q] /\ dropped'[q] = dropped[q] \cup {n}
    <3> HIDE DEF n
    <3> QED
      BY <2>2 DEF TypeInv, TypeOK
  <2> QED
    BY <2>3, AccountFields, Zenon DEF Drops
<1>9. Closed' = Closed
  BY DEF Emit, Closed
<1> QED
  BY <1>5, <1>7, <1>8, <1>9 DEF OneMoves, OthersRest, Emits

(* The return of a perf reader clears one account; a ring buffer outlives  *)
(* its reader.                                                             *)
LEMMA CloseMoves ==
  ASSUME TypeInv, HandInv, NEW q \in Maps, CloseReader(q),
         reader[q] \in {"check", "createErr", "readErr"}
  PROVE  UNCHANGED <<MapVars, Closed>> \/ OneMoves(q)
<1>1. reader' = [reader EXCEPT ![q] = "done"] /\ reader[q] # "done"
  BY DEF CloseReader
<1>2. CASE MapType[q] = "RingBuf"
  <2>1. UNCHANGED MapVars
    BY <1>2 DEF CloseReader, MapVars
  <2>2. Closed' = Closed
    BY <1>1, <1>2 DEF Closed, TypeInv, TypeOK
  <2> QED
    BY <2>1, <2>2
<1>3. CASE MapType[q] = "PerfEventArray"
  <2>1. /\ buf' = [buf EXCEPT ![q] = <<>>] /\ missed' = [missed EXCEPT ![q] = {}]
        /\ dropped' = [dropped EXCEPT ![q] = dropped[q] \cup Buffered(q, "sample")
                                               \cup Buffered(q, "lost") \cup missed[q]]
        /\ UNCHANGED <<hand, emitted, reported, undecoded, lost>>
    BY <1>3 DEF CloseReader
  <2>2. Buffered(q, "sample") \cup Buffered(q, "lost") = All(buf[q])
    BY DEF Buffered, All, Ids
  <2>3. /\ buf'[q] = <<>> /\ missed'[q] = {} /\ hand'[q] = hand[q]
        /\ dropped'[q] = dropped[q] \cup All(buf[q]) \cup missed[q]
        /\ emitted'[q] = emitted[q] /\ reported'[q] = reported[q]
        /\ undecoded'[q] = undecoded[q] /\ lost'[q] = lost[q]
    BY <2>1, <2>2 DEF TypeInv, TypeOK
  <2>4. hand[q] = 0
    BY DEF HandInv
  <2>5. Cleared(Account(q), Account(q)')
    BY <2>3, <2>4, AccountFields, Zenon DEF Cleared
  <2>6. OthersRest(q)
    BY <2>1, OthersSame DEF OthersRest, TypeInv, TypeOK
  <2>7. Closed' = Closed \cup {q} /\ q \notin Closed
    BY <1>1, <1>3 DEF Closed, TypeInv, TypeOK
  <2> QED
    BY <2>5, <2>6, <2>7 DEF OneMoves, Closes
<1> QED
  BY <1>2, <1>3, AgentAssumption

(* Every step leaves all accounts alone or is a move of one of them.       *)
LEMMA StepMoves ==
  ASSUME TypeInv, ErrInv, HandInv, [Next]_vars
  PROVE  \/ Closed' = Closed /\ \A q \in Maps : Account(q)' = Account(q)
         \/ \E q \in Maps : OneMoves(q)
<1>1. CASE UNCHANGED <<MapVars, Closed>>
  BY <1>1, AccountSame
<1>2. CASE \/ UNCHANGED vars \/ Terminated \/ Main \/ Signal
           \/ \E m \in Modules : Start(m) \/ ReadEvents(m)
  BY <1>1, <1>2, ControlSteps, ControlClosesNothing
<1>3. ASSUME NEW q \in Maps, PerfEventReader(q) \/ RingbufEventReader(q) \/ ReadFails(q)
      PROVE  UNCHANGED <<MapVars, Closed>> \/ OneMoves(q)
  <2>1. CASE Idles(q)
    BY <2>1, ReaderSteps
  <2>2. CASE SendError(q) \/ (CheckCtx(q) /\ ctxDone)
    <3>1. CloseReader(q) /\ reader[q] \in {"check", "createErr", "readErr"}
      BY <2>2 DEF SendError, CheckCtx
    <3> QED
      BY <3>1, CloseMoves
  <2>3. CASE TakeSample(q) \/ TakeLost(q) \/ DecodeAndWrite(q)
    BY <2>3, TakeSampleMoves, TakeLostMoves, DecodeMoves
  <2> QED
    BY <1>3, <2>1, <2>2, <2>3 DEF PerfEventReader, RingbufEventReader, Idles
<1>4. ASSUME NEW q \in Maps, DataHandler(q) \/ Emit(q) PROVE OneMoves(q)
  BY <1>4, DataHandlerMoves, EmitMoves
<1> QED
  BY <1>1, <1>2, <1>3, <1>4 DEF Next

-----------------------------------------------------------------------------
(* The invariant                                                           *)

(* Any of the moves keeps an account sound.                                *)
LEMMA MovedSound ==
  ASSUME NEW v \in Accounts, NEW w \in Accounts, Sound(v),
         Handled(v, w) \/ Produced(v, w) \/ Cleared(v, w)
  PROVE  Sound(w)
<1>1. ASSUME NEW u \in Accounts, Taken(v, u), Settled(u, w) PROVE Sound(w)
  BY <1>1, TakenSound, SettledSound
<1> QED
  BY <1>1, TakenSound, SettledSound, CountedSound, ProducedSound, ClearedSound DEF Handled

(* The accounts are sound in the first state.                              *)
LEMMA StreamInit == Init => StreamInv
<1> SUFFICES ASSUME Init, NEW q \in Maps PROVE hand[q] = 0 /\ Sound(Account(q))
  BY DEF StreamInv, HandInv
<1> DEFINE v == Account(q)
<1>1. /\ v.buf = <<>> /\ v.hand = 0 /\ v.missed = {} /\ v.reported = {} /\ v.undecoded = {}
      /\ v.lost = {} /\ v.dropped = {} /\ v.emitted = 0
  BY AccountFields, Zenon DEF Init
<1> HIDE DEF v
<1>2. All(v.buf) = {} /\ Held(v) = {} /\ Ended(v) = {} /\ Ids(v.buf, "sample") = {}
  BY <1>1 DEF All, Ids, Held, Ended
<1>3. InOrder(v) /\ Separate(v)
  BY <1>1, <1>2 DEF InOrder, Sorted, Separate
<1>4. Covered(v)
  BY <1>1, <1>2 DEF Covered
<1>5. Sound(Account(q))
  BY <1>3, <1>4 DEF Sound, v
<1> QED
  BY <1>5, SMTT(30) DEF Init

(* Every step keeps StreamInv.                                             *)
LEMMA StreamStep ==
  TypeInv /\ TypeInv' /\ ErrInv /\ StreamInv /\ [Next]_vars => StreamInv'
<1> SUFFICES ASSUME TypeInv, TypeInv', ErrInv, StreamInv, [Next]_vars PROVE StreamInv'
  OBVIOUS
<1>1. HandInv'
  BY HandStep DEF StreamInv
<1>2. \A q \in Maps : Account(q) \in Accounts /\ Account(q)' \in Accounts
  BY AccountTyped, Zenon DEF TypeInv, TypeOK, Account, Accounts
<1>3. ASSUME NEW q \in Maps PROVE Sound(Account(q)')
  <2>1. \/ Account(q)' = Account(q) \/ Handled(Account(q), Account(q)')
        \/ Produced(Account(q), Account(q)') \/ Cleared(Account(q), Account(q)')
    BY StepMoves DEF StreamInv, OneMoves, OthersRest, Handles, Emits, Closes
  <2>2. Sound(Account(q))
    BY DEF StreamInv
  <2> QED
    BY <1>2, <2>1, <2>2, MovedSound
<1> QED
  BY <1>1, <1>3 DEF StreamInv

(* The invariants hold together in every reachable state.                  *)
LEMMA Invariant == Spec => [](TypeInv /\ ErrInv /\ StreamInv)
<1>1. Init => ErrInv
  BY DEF Init, ErrInv
<1> QED
  BY <1>1, TypeInit, TypeStep, ErrStep, StreamInit, StreamStep, PTL DEF Spec

(* For any modules, maps, buffer sizes and numbers of samples, every       *)
(* sample a program outputs has exactly one fate, so that no event is      *)
(* logged twice and none that is logged or rejected was counted as lost.   *)
THEOREM SamplesHaveOneFate == Spec => []OneFate
<1>1. TypeInv /\ StreamInv => OneFate
  <2> SUFFICES ASSUME TypeInv, StreamInv, NEW q \in Maps
               PROVE  LET fates == <<Buffered(q, "sample"), InHand(q), reported[q], undecoded[q],
                                     Buffered(q, "lost"), missed[q], lost[q], dropped[q]>>
                      IN  /\ UNION {fates[i] : i \in DOMAIN fates} = 1 .. emitted[q]
                          /\ \A i, j \in DOMAIN fates : i # j => fates[i] \cap fates[j] = {}
    BY Zenon DEF OneFate
  <2> DEFINE v == Account(q)
             fates == <<Buffered(q, "sample"), InHand(q), reported[q], undecoded[q],
                        Buffered(q, "lost"), missed[q], lost[q], dropped[q]>>
  <2>1. v \in Accounts /\ Sound(v)
    BY AccountTyped DEF StreamInv
  <2>2. fates = <<Ids(v.buf, "sample"), Held(v), v.reported, v.undecoded,
                  Ids(v.buf, "lost"), v.missed, v.lost, v.dropped>>
    BY AccountFields DEF Buffered, InHand, Ids, Held
  <2>3. emitted[q] = v.emitted
    BY AccountFields
  <2> HIDE DEF v, fates
  <2>4. /\ DOMAIN fates = 1 .. 8
        /\ fates[1] = Ids(v.buf, "sample") /\ fates[2] = Held(v) /\ fates[3] = v.reported
        /\ fates[4] = v.undecoded /\ fates[5] = Ids(v.buf, "lost") /\ fates[6] = v.missed
        /\ fates[7] = v.lost /\ fates[8] = v.dropped
    BY <2>2
  <2>5. UNION {fates[i] : i \in DOMAIN fates} =
          Ids(v.buf, "sample") \cup Held(v) \cup v.reported \cup v.undecoded
            \cup Ids(v.buf, "lost") \cup v.missed \cup v.lost \cup v.dropped
    <3>1. \A i \in 1 .. 8 : i = 1 \/ i = 2 \/ i = 3 \/ i = 4 \/ i = 5 \/ i = 6 \/ i = 7 \/ i = 8
      OBVIOUS
    <3>2. /\ 1 \in 1 .. 8 /\ 2 \in 1 .. 8 /\ 3 \in 1 .. 8 /\ 4 \in 1 .. 8 /\ 5 \in 1 .. 8
          /\ 6 \in 1 .. 8 /\ 7 \in 1 .. 8 /\ 8 \in 1 .. 8
      OBVIOUS
    <3> QED
      BY <2>4, <3>1, <3>2
  <2>6. UNION {fates[i] : i \in DOMAIN fates} = 1 .. v.emitted
    BY <2>1, <2>5 DEF Sound, Covered, Ended, All
  <2>7. /\ All(v.buf) \subseteq Nat /\ v.missed \subseteq Nat /\ v.hand \in Nat
    BY <2>1, AccountTypes
  <2>8. /\ Held(v) \cap All(v.buf) = {} /\ Held(v) \cap v.missed = {}
        /\ All(v.buf) \cap v.missed = {}
    BY <2>1, <2>7, SMTT(30) DEF Sound, InOrder, Held
  <2>9. /\ Ids(v.buf, "sample") \cap Held(v) = {} /\ Ids(v.buf, "lost") \cap Held(v) = {}
        /\ Ids(v.buf, "sample") \cap v.missed = {} /\ Ids(v.buf, "lost") \cap v.missed = {}
        /\ Ids(v.buf, "sample") \cap Ids(v.buf, "lost") = {} /\ Held(v) \cap v.missed = {}
    BY <2>1, <2>8 DEF Sound, Separate, All
  <2>10. \A S \in {v.reported, v.undecoded, v.lost, v.dropped} :
           /\ S \cap Ids(v.buf, "sample") = {} /\ S \cap Ids(v.buf, "lost") = {}
           /\ S \cap Held(v) = {} /\ S \cap v.missed = {}
    BY <2>1 DEF Sound, Separate, Ended, All
  <2>11. /\ v.reported \cap v.undecoded = {} /\ v.reported \cap v.lost = {}
         /\ v.reported \cap v.dropped = {} /\ v.undecoded \cap v.lost = {}
         /\ v.undecoded \cap v.dropped = {} /\ v.lost \cap v.dropped = {}
    BY <2>1 DEF Sound, Separate
  <2>12. ASSUME NEW i \in 1 .. 8, NEW j \in 1 .. 8, i < j PROVE fates[i] \cap fates[j] = {}
    <3>1. CASE i = 1
      BY <2>4, <2>9, <2>10, <2>12, <3>1
    <3>2. CASE i = 2
      BY <2>4, <2>9, <2>10, <2>12, <3>2
    <3>3. CASE i \in {3, 4}
      BY <2>4, <2>10, <2>11, <2>12, <3>3
    <3>4. CASE i \in {5, 6}
      BY <2>4, <2>9, <2>10, <2>12, <3>4, SMTT(30)
    <3>5. CASE i = 7
      BY <2>4, <2>11, <2>12, <3>5
    <3> QED
      BY <2>12, <3>1, <3>2, <3>3, <3>4, <3>5
  <2>13. \A i, j \in DOMAIN fates : i # j => fates[i] \cap fates[j] = {}
    <3>1. \A i, j \in 1 .. 8 : i # j => i < j \/ j < i
      OBVIOUS
    <3> QED
      BY <2>4, <2>12, <3>1
  <2> QED
    BY <2>3, <2>6, <2>13, Zenon DEF fates
<1> QED
  BY <1>1, Invariant, PTL

-----------------------------------------------------------------------------
(* The refinement                                                          *)

(* The state of the abstract stream.                                       *)
Fates == [q \in Maps |-> [n \in Samples |-> Fate(q, n)]]

(* The fate of a sample can be read from the account of its map.           *)
LEMMA FateOfAccount ==
  ASSUME NEW q \in Maps, NEW n \in Samples
  PROVE  Fate(q, n) = FateIn(n, Account(q)) /\ Fate(q, n)' = FateIn(n, Account(q)')
<1>1. PICK v : v = Account(q)
  OBVIOUS
<1>2. PICK w : w = Account(q)'
  OBVIOUS
<1>3. v.buf = buf[q] /\ v.hand = hand[q] /\ w.buf = buf'[q] /\ w.hand = hand'[q]
  BY <1>1, <1>2, AccountFields, Zenon
<1>4. /\ Buffered(q, "lost") = Ids(v.buf, "lost") /\ InHand(q) = Held(v)
      /\ Buffered(q, "sample") = Ids(v.buf, "sample")
      /\ Buffered(q, "lost")' = Ids(w.buf, "lost") /\ InHand(q)' = Held(w)
      /\ Buffered(q, "sample")' = Ids(w.buf, "sample")
  BY <1>3, Zenon DEF Buffered, InHand, Ids, Held
<1>5. Fate(q, n) = FateIn(n, v)
  BY <1>1, <1>4, AccountFields DEF Fate, FateIn, Accepted, LostBefore
<1>6. Fate(q, n)' = FateIn(n, w)
  BY <1>2, <1>4, AccountFields DEF Fate, FateIn, Accepted, LostBefore
<1> QED
  BY <1>1, <1>2, <1>5, <1>6

(* One sample changes its fate.                                            *)
LEMMA OneFateChanges ==
  ASSUME NEW q \in Maps, NEW n \in Samples, NEW f, Fate(q, n)' = f,
         \A p \in Maps, k \in Samples : p # q \/ k # n => Fate(p, k)' = Fate(p, k)
  PROVE  Fates' = [Fates EXCEPT ![q][n] = f]
<1>1. [k \in Samples |-> Fate(q, k)]' = [[k \in Samples |-> Fate(q, k)] EXCEPT ![n] = f]
  BY Zenon
<1>2. \A p \in Maps : p # q => [k \in Samples |-> Fate(p, k)]' = [k \in Samples |-> Fate(p, k)]
  OBVIOUS
<1> QED
  BY <1>1, <1>2, Zenon DEF Fates

(* The buffer of a map is closed.                                          *)
LEMMA FatesClosed ==
  ASSUME NEW q \in Maps,
         \A k \in Samples : Fate(q, k)' = Stream!AfterClose(Fate(q, k)),
         \A p \in Maps, k \in Samples : p # q => Fate(p, k)' = Fate(p, k)
  PROVE  Fates' = [Fates EXCEPT ![q] = [n \in Samples |-> Stream!AfterClose(Fates[q][n])]]
<1>1. [k \in Samples |-> Fate(q, k)]' = [n \in Samples |-> Stream!AfterClose(Fates[q][n])]
  BY DEF Fates
<1>2. \A p \in Maps : p # q => [k \in Samples |-> Fate(p, k)]' = [k \in Samples |-> Fate(p, k)]
  OBVIOUS
<1> QED
  BY <1>1, <1>2, Zenon DEF Fates

(* A move of one account is a step of LossyStream or changes no fate.      *)
LEMMA MoveRefines ==
  ASSUME NEW q \in Maps, OneMoves(q),
         \A p \in Maps : /\ Account(p) \in Accounts /\ Account(p)' \in Accounts
                         /\ Sound(Account(p)) /\ Sound(Account(p)')
  PROVE  Stream!Next \/ (Fates' = Fates /\ Closed' = Closed)
<1>1. \A p \in Maps, k \in Samples : p # q => Fate(p, k)' = Fate(p, k)
  BY FateOfAccount DEF OneMoves, OthersRest
<1>2. PICK v : v = Account(q)
  OBVIOUS
<1>3. PICK w : w = Account(q)'
  OBVIOUS
<1>4. v \in Accounts /\ w \in Accounts /\ Sound(v) /\ Sound(w)
  BY <1>2, <1>3
<1>5. \A k \in Samples : Fate(q, k) = FateIn(k, v) /\ Fate(q, k)' = FateIn(k, w)
  BY <1>2, <1>3, FateOfAccount
<1>6. CASE Closed' = Closed /\ \A k \in Samples : FateIn(k, w) = FateIn(k, v)
  <2>1. \A p \in Maps, k \in Samples : Fate(p, k)' = Fate(p, k)
    BY <1>1, <1>5, <1>6
  <2> QED
    BY <1>6, <2>1 DEF Fates
<1>7. ASSUME NEW n \in Samples, Closed' = Closed, q \notin Closed,
             FateIn(n, v) = "flight",
             \A k \in Samples : k < n => FateIn(k, v) # "flight",
             FateIn(n, w) \in {"reported", "undecoded"},
             \A k \in Samples : k # n => FateIn(k, w) = FateIn(k, v)
      PROVE  Stream!Next
  <2>1. \A p \in Maps, k \in Samples : p # q \/ k # n => Fate(p, k)' = Fate(p, k)
    BY <1>1, <1>5, <1>7
  <2>2. \E f \in {"reported", "undecoded"} : Fates' = [Fates EXCEPT ![q][n] = f]
    BY <1>5, <1>7, <2>1, OneFateChanges
  <2>3. Fates[q][n] = "flight" /\ \A k \in Samples : k < n => Fates[q][k] # "flight"
    BY <1>5, <1>7 DEF Fates
  <2>4. Stream!Settle(q, n)
    BY <1>7, <2>2, <2>3, Zenon DEF Stream!Settle, Stream!Samples, Samples, Fates
  <2> QED
    BY <2>4 DEF Stream!Next, Stream!Samples, Samples
<1>8. ASSUME NEW n \in Samples, Closed' = Closed,
             FateIn(n, v) = "none",
             \A k \in Samples : k < n => FateIn(k, v) # "none",
             FateIn(n, w) \in {"flight", "lost"},
             q \in Closed => FateIn(n, w) = "lost",
             \A k \in Samples : k # n => FateIn(k, w) = FateIn(k, v)
      PROVE  Stream!Next
  <2>1. \A p \in Maps, k \in Samples : p # q \/ k # n => Fate(p, k)' = Fate(p, k)
    BY <1>1, <1>5, <1>8
  <2>2. \E f \in {"flight", "lost"} :
          (q \in Closed => f = "lost") /\ Fates' = [Fates EXCEPT ![q][n] = f]
    BY <1>5, <1>8, <2>1, OneFateChanges
  <2>3. Fates[q][n] = "none" /\ \A k \in Samples : k < n => Fates[q][k] # "none"
    BY <1>5, <1>8 DEF Fates
  <2>4. Stream!Produce(q, n)
    BY <1>8, <2>2, <2>3, Zenon DEF Stream!Produce, Stream!Samples, Samples, Fates
  <2> QED
    BY <2>4 DEF Stream!Next, Stream!Samples, Samples
<1>9. CASE Handles(q)
  <2>1. Closed' = Closed /\ q \notin Closed /\ Handled(v, w)
    BY <1>2, <1>3, <1>9 DEF Handles
  <2>2. CASE Taken(v, w) \/ Counted(v, w)
    BY <1>4, <1>6, <2>1, <2>2, QuietMoves
  <2>3. CASE Settled(v, w)
    BY <1>4, <1>7, <2>1, <2>3, SettlingMove
  <2>4. ASSUME NEW u \in Accounts, Taken(v, u), Settled(u, w) PROVE Stream!Next
    <3>1. Sound(u)
      BY <1>4, <2>4, TakenSound
    <3>2. \A k \in Samples : FateIn(k, u) = FateIn(k, v)
      BY <1>4, <2>4, <3>1, QuietMoves
    <3>3. /\ u.hand \in Samples /\ FateIn(u.hand, u) = "flight"
          /\ \A k \in Samples : k < u.hand => FateIn(k, u) # "flight"
          /\ FateIn(u.hand, w) \in {"reported", "undecoded"}
          /\ \A k \in Samples : k # u.hand => FateIn(k, w) = FateIn(k, u)
      BY <1>4, <2>4, <3>1, SettlingMove
    <3> QED
      BY <1>7, <2>1, <3>2, <3>3
  <2> QED
    BY <2>1, <2>2, <2>3, <2>4 DEF Handled
<1>10. CASE Emits(q)
  <2>1. /\ Closed' = Closed /\ Produced(v, w)
        /\ q \in Closed => Drops(v, w, v.emitted + 1)
    BY <1>2, <1>3, <1>10 DEF Emits
  <2>2. PICK n \in Samples :
          /\ n = v.emitted + 1 /\ FateIn(n, v) = "none"
          /\ \A k \in Samples : k < n => FateIn(k, v) # "none"
          /\ FateIn(n, w) \in {"flight", "lost"}
          /\ \A k \in Samples : k # n => FateIn(k, w) = FateIn(k, v)
    BY <1>4, <2>1, ProducingMove
  <2>3. q \in Closed => FateIn(n, w) = "lost"
    BY <1>4, <2>1, <2>2, DroppedIsLost DEF Drops
  <2> QED
    BY <1>8, <2>1, <2>2, <2>3
<1>11. CASE Closes(q)
  <2>1. Closed' = Closed \cup {q} /\ q \notin Closed /\ Cleared(v, w)
    BY <1>2, <1>3, <1>11 DEF Closes
  <2>2. \A k \in Samples : Fate(q, k)' = Stream!AfterClose(Fate(q, k))
    BY <1>4, <1>5, <2>1, ClearingMove
  <2>3. Fates' = [Fates EXCEPT ![q] = [n \in Samples |-> Stream!AfterClose(Fates[q][n])]]
    BY <1>1, <2>2, FatesClosed
  <2>4. Stream!Close(q)
    BY <2>1, <2>3, Zenon DEF Stream!Close, Stream!Samples, Samples, Fates
  <2> QED
    BY <2>4 DEF Stream!Next
<1> QED
  BY <1>9, <1>10, <1>11 DEF OneMoves

(* Every step of the agent is a step of LossyStream or changes no fate.    *)
LEMMA NextRefines ==
  TypeInv /\ ErrInv /\ StreamInv /\ [Next]_vars => [Stream!Next]_<<Fates, Closed>>
<1> SUFFICES ASSUME TypeInv, ErrInv, StreamInv, [Next]_vars
             PROVE  Stream!Next \/ (Fates' = Fates /\ Closed' = Closed)
  OBVIOUS
<1>1. TypeInv' /\ StreamInv'
  BY TypeStep, StreamStep
<1>2. \A p \in Maps : Account(p) \in Accounts /\ Account(p)' \in Accounts
  BY <1>1, AccountTyped, Zenon DEF TypeInv, TypeOK, Account, Accounts
<1>3. \A p \in Maps : Sound(Account(p)) /\ Sound(Account(p)')
  BY <1>1 DEF StreamInv
<1>4. CASE Closed' = Closed /\ \A q \in Maps : Account(q)' = Account(q)
  <2>1. \A q \in Maps, k \in Samples : Fate(q, k)' = Fate(q, k)
    BY <1>4, FateOfAccount
  <2> QED
    BY <1>4, <2>1 DEF Fates
<1>5. CASE \E q \in Maps : OneMoves(q)
  BY <1>2, <1>3, <1>5, MoveRefines
<1> QED
  BY <1>4, <1>5, StepMoves DEF StreamInv

(* The agent begins as LossyStream does.                                   *)
LEMMA InitRefines == Init => Stream!Init
<1> SUFFICES ASSUME Init PROVE Stream!Init
  OBVIOUS
<1>1. ASSUME NEW q \in Maps, NEW n \in Samples PROVE Fate(q, n) = "none"
  <2>1. Account(q) \in Accounts /\ Sound(Account(q))
    BY TypeInit, StreamInit, AccountTyped DEF StreamInv
  <2>2. Account(q).emitted = 0
    <3>1. emitted[q] = 0
      BY DEF Init
    <3> QED
      BY <3>1, AccountFields, Zenon
  <2>3. n > 0
    BY AgentAssumption DEF Samples
  <2> QED
    BY <2>1, <2>2, <2>3, FateOfSound, FateOfAccount
<1>2. Closed = {}
  BY DEF Init, Closed
<1> QED
  BY <1>1, <1>2 DEF Stream!Init, Stream!Samples, Samples

(* The agent's event path implements the lossy stream: for any modules and *)
(* maps and whatever fails or is cancelled, the samples a kernel buffer    *)
(* accepted are settled once each and in the order of their output, until  *)
(* the reader of a perf buffer returns and its rd.Close() loses what the   *)
(* buffer still held.                                                      *)
THEOREM AgentImplementsStream == Spec => ImplementsStream
<1>1. TypeInv /\ ErrInv /\ StreamInv /\ [Next]_vars
        => [Stream!Next]_<<[q \in Maps |-> [n \in Samples |-> Fate(q, n)]], Closed>>
  BY NextRefines DEF Fates
<1> QED
  BY <1>1, Invariant, InitRefines, PTL DEF Spec, ImplementsStream, Stream!Spec
=============================================================================

---------------------------- MODULE AgentProofs ----------------------------
(***************************************************************************)
(* Proofs about Agent, for any set of modules and maps, any number of      *)
(* samples and any capacities.                                             *)
(***************************************************************************)
EXTENDS Agent, FiniteSetTheorems, TLAPS

(* TypeOK is inductive together with: a reader about to decode holds a     *)
(* sample.                                                                 *)
TypeInv ==
  /\ TypeOK
  /\ \A q \in Maps : reader[q] = "decode" => hand[q] \in Samples

(* The types hold in the first state.                                      *)
LEMMA TypeInit == Init => TypeInv
<1> SUFFICES ASSUME Init PROVE TypeInv
  OBVIOUS
<1>1. /\ mainPc \in MainPcs /\ stopper \in 0 .. StopperCap
      /\ modules \subseteq Registering /\ attached \subseteq Modules
  BY AgentAssumption DEF Init, MainPcs
<1>6. ctxDone \in BOOLEAN
  BY DEF Init
<1>7. /\ run \in [Modules -> RunPcs]
      /\ reader \in [Maps -> ReaderPcs]
  BY DEF Init, RunPcs, ReaderPcs
<1>2. /\ eventMaps \in [Modules -> Seq(Maps)] /\ errChan \in [Modules -> Seq(Maps)]
      /\ buf \in [Maps -> Seq(Records)]
  BY DEF Init
<1>3. /\ hand \in [Maps -> 0 .. MaxSamples] /\ emitted \in [Maps -> 0 .. MaxSamples]
      /\ late \in [Maps -> Nat]
  BY AgentAssumption DEF Init
<1>4. /\ missed \in [Maps -> SUBSET Samples] /\ reported \in [Maps -> SUBSET Samples]
      /\ undecoded \in [Maps -> SUBSET Samples] /\ lost \in [Maps -> SUBSET Samples]
      /\ dropped \in [Maps -> SUBSET Samples]
  BY DEF Init
<1>5. \A q \in Maps : reader[q] # "decode"
  BY DEF Init
<1> QED
  BY <1>1, <1>2, <1>3, <1>4, <1>5, <1>6, <1>7 DEF TypeInv, TypeOK

(* The record at the head of a non-empty buffer is a record.               *)
LEMMA HeadRecord ==
  ASSUME TypeInv, NEW q \in Maps, buf[q] # << >>
  PROVE  /\ Head(buf[q]) \in Records
         /\ Tail(buf[q]) \in Seq(Records)
  BY DEF TypeInv, TypeOK

(* A sample record holds exactly one sample.                               *)
LEMMA SampleOfRecord ==
  ASSUME NEW r \in Records, r.kind = "sample"
  PROVE  (CHOOSE n \in r.ids : TRUE) \in Samples
<1>1. PICK n \in Samples : r.ids = {n}
  BY DEF Records
<1> QED
  BY <1>1

(* The samples that a record stands for are samples.                       *)
LEMMA LostOfRecord ==
  ASSUME NEW r \in Records
  PROVE  r.ids \subseteq Samples
  BY DEF Records

FatesTyped ==
  /\ reported \in [Maps -> SUBSET Samples]
  /\ undecoded \in [Maps -> SUBSET Samples]
  /\ lost \in [Maps -> SUBSET Samples]
  /\ dropped \in [Maps -> SUBSET Samples]
  /\ late \in [Maps -> Nat]

(* Write adds a sample to the log and counts it when it comes late.        *)
LEMMA WriteTyped ==
  ASSUME FatesTyped, NEW q \in Maps, NEW n \in Samples, Write(q, n)
  PROVE  FatesTyped'
<1>1. reported' \in [Maps -> SUBSET Samples]
  BY DEF Write, FatesTyped
<1>2. late' = [late EXCEPT ![q] = late[q] + 1] \/ late' = [late EXCEPT ![q] = late[q]]
  BY DEF Write
<1>3. late' \in [Maps -> Nat]
  BY <1>2 DEF FatesTyped
<1> QED
  BY <1>1, <1>3 DEF Write, FatesTyped

(* The samples in a buffer are samples.                                    *)
LEMMA BufferedSamples ==
  ASSUME TypeInv, NEW q \in Maps, NEW k
  PROVE  Buffered(q, k) \subseteq Samples
<1>1. \A i \in 1 .. Len(buf[q]) : buf[q][i] \in Records
  BY DEF TypeInv, TypeOK
<1>2. \A i \in 1 .. Len(buf[q]) : buf[q][i].ids \subseteq Samples
  BY <1>1, LostOfRecord
<1> QED
  BY <1>2 DEF Buffered

(* Closing a reader keeps the types.                                       *)
LEMMA CloseTyped ==
  ASSUME TypeInv, NEW q \in Maps, CloseReader(q)
  PROVE  /\ reader' = [reader EXCEPT ![q] = "done"]
         /\ buf' \in [Maps -> Seq(Records)]
         /\ missed' \in [Maps -> SUBSET Samples]
         /\ dropped' \in [Maps -> SUBSET Samples]
         /\ UNCHANGED <<hand, emitted, reported, undecoded, lost, late>>
<1>1. dropped[q] \cup Buffered(q, "sample") \cup Buffered(q, "lost") \cup missed[q]
        \in SUBSET Samples
  BY BufferedSamples DEF TypeInv, TypeOK
<1>2. PICK S \in SUBSET Samples :
        S = dropped[q] \cup Buffered(q, "sample") \cup Buffered(q, "lost") \cup missed[q]
  BY <1>1
<1>3. \/ /\ buf' = [buf EXCEPT ![q] = << >>]
         /\ missed' = [missed EXCEPT ![q] = {}]
         /\ dropped' = [dropped EXCEPT ![q] = S]
      \/ UNCHANGED <<buf, missed, dropped>>
  BY <1>2 DEF CloseReader
<1>4. << >> \in Seq(Records) /\ {} \in SUBSET Samples
  OBVIOUS
<1> QED
  BY <1>3, <1>4 DEF CloseReader, TypeInv, TypeOK

(* readEvents starts the reader of one map that had none.                  *)
LEMMA SpawnEffect ==
  ASSUME TypeInv, NEW m \in Modules, SpawnReader(m)
  PROVE  \E i \in 1 .. Len(eventMaps[m]) :
           /\ eventMaps[m][i] \in Maps
           /\ reader[eventMaps[m][i]] = "none"
           /\ reader' = [reader EXCEPT ![eventMaps[m][i]] = "new"]
<1>1. PICK i \in 1 .. Len(eventMaps[m]) :
        /\ reader[eventMaps[m][i]] = "none"
        /\ reader' = [reader EXCEPT ![eventMaps[m][i]] = "new"]
  BY DEF SpawnReader
<1>2. eventMaps[m] \in Seq(Maps)
  BY DEF TypeInv, TypeOK
<1>3. eventMaps[m][i] \in Maps
  BY <1>2
<1> QED
  BY <1>1, <1>3

(* The steps of main and a signal keep the types.                          *)
LEMMA TypeMain ==
  ASSUME TypeInv, Main \/ Signal
  PROVE  TypeInv'
<1> USE AgentAssumption DEF TypeInv, TypeOK, mainVars, runVars, kernVars, fateVars, MainPcs, RunPcs
<1>1. CASE Signal
  BY <1>1 DEF Signal
<1>2. CASE EnterMain
  BY <1>2 DEF EnterMain
<1>3. CASE Setup
  BY <1>3 DEF Setup
<1>4. CASE Shutdown
  BY <1>4 DEF Shutdown
<1>5. CASE Exit
  BY <1>5 DEF Exit
<1>6. ASSUME NEW m \in Modules, Register(m) PROVE TypeInv'
  BY <1>6 DEF Register
<1>7. ASSUME NEW m \in Modules, StartModule(m) PROVE TypeInv'
  BY <1>7 DEF StartModule
<1> QED
  BY <1>1, <1>2, <1>3, <1>4, <1>5, <1>6, <1>7 DEF Main

(* The steps of a module's Run keep the types.                             *)
LEMMA TypeRun ==
  ASSUME TypeInv, NEW m \in Modules, Start(m) \/ ReadEvents(m)
  PROVE  TypeInv'
<1> USE AgentAssumption DEF TypeInv, TypeOK, mainVars, runVars, kernVars, fateVars, RunPcs, ReaderPcs, Proceed
<1>1. CASE LoadAsset(m)
  BY <1>1 DEF LoadAsset
<1>2. CASE InitManager(m)
  BY <1>2 DEF InitManager
<1>3. CASE StartManager(m)
  <2>1. HandlersStarted(m) \in [Maps -> ReaderPcs]
    BY DEF HandlersStarted
  <2>2. \A q \in Maps : HandlersStarted(m)[q] = "decode" => reader[q] = "decode"
    BY DEF HandlersStarted
  <2>3. /\ reader' \in {reader, HandlersStarted(m)}
        /\ attached' \in {attached, attached \cup {m}}
        /\ \E to \in RunPcs : run' = [run EXCEPT ![m] = to]
        /\ UNCHANGED <<mainVars, eventMaps, errChan, hand, kernVars, fateVars>>
    BY <1>3 DEF StartManager
  <2> QED
    BY <2>1, <2>2, <2>3
<1>4. CASE InitDecodeFun(m)
  <2>1. PICK k \in 0 .. Len(EventMaps[m]) :
           /\ Proceed(m, "decode", IF k = Len(EventMaps[m]) THEN "spawn" ELSE "returned")
           /\ eventMaps' = [eventMaps EXCEPT ![m] = SubSeq(EventMaps[m], 1, k)]
    BY <1>4 DEF InitDecodeFun
  <2>2. SubSeq(EventMaps[m], 1, k) \in Seq(Maps)
    BY <2>1
  <2> QED
    BY <1>4, <2>1, <2>2 DEF InitDecodeFun
<1>5. CASE SpawnReader(m)
  BY <1>5 DEF SpawnReader
<1>6. CASE AwaitError(m)
  BY <1>6 DEF AwaitError
<1>7. CASE ReceiveError(m)
  BY <1>7, SMTT(30) DEF ReceiveError
<1> QED
  BY <1>1, <1>2, <1>3, <1>4, <1>5, <1>6, <1>7 DEF Start, ReadEvents

(* The steps of a reader keep the types.                                   *)
LEMMA TypeReader ==
  ASSUME TypeInv, NEW q \in Maps, PerfEventReader(q) \/ RingbufEventReader(q) \/ ReadFails(q)
  PROVE  TypeInv'
<1> USE AgentAssumption DEF TypeInv, TypeOK, mainVars, runVars, kernVars, fateVars, ReaderPcs
<1>1. CASE CreateReader(q)
  BY <1>1 DEF CreateReader
<1>8. ASSUME CloseReader(q), UNCHANGED <<mainVars, runVars>>, errChan' \in [Modules -> Seq(Maps)]
      PROVE  TypeInv'
  BY <1>8, CloseTyped
<1>2. CASE CheckCtx(q)
  <2>1. UNCHANGED <<mainVars, runVars, errChan>>
    BY <1>2 DEF CheckCtx
  <2>2. CASE CloseReader(q)
    BY <1>8, <2>1, <2>2
  <2>3. CASE /\ reader' = [reader EXCEPT ![q] = "read"]
             /\ UNCHANGED <<hand, kernVars, fateVars>>
    BY <2>1, <2>3
  <2> QED
    BY <1>2, <2>2, <2>3 DEF CheckCtx
<1>3. CASE TakeSample(q)
  <2>1. /\ Head(buf[q]) \in Records
        /\ Tail(buf[q]) \in Seq(Records)
        /\ Head(buf[q]).kind = "sample"
    BY <1>3, HeadRecord, SMTT(30) DEF TakeSample, TakeRecord
  <2> DEFINE n == CHOOSE x \in Head(buf[q]).ids : TRUE
  <2>2. n \in Samples
    BY <2>1, SampleOfRecord
  <2>3. hand' = [hand EXCEPT ![q] = n] /\ buf' = [buf EXCEPT ![q] = Tail(@)]
    BY <1>3 DEF TakeSample, TakeRecord
  <2> HIDE DEF n
  <2>4. n \in 0 .. MaxSamples
    BY <2>2 DEF Samples
  <2>5. hand' \in [Maps -> 0 .. MaxSamples]
    BY <2>3, <2>4
  <2>7. buf' \in [Maps -> Seq(Records)]
    BY <2>1, <2>3
  <2>8. reader' \in [Maps -> ReaderPcs]
    BY <1>3 DEF TakeSample
  <2>6. \A x \in Maps : reader'[x] = "decode" => hand'[x] \in Samples
    BY <1>3, <2>2, <2>3 DEF TakeSample
  <2> QED
    BY <1>3, <2>5, <2>6, <2>7, <2>8 DEF TakeSample
<1>4. CASE TakeLost(q)
  <2>1. /\ Head(buf[q]).ids \subseteq Samples
        /\ Tail(buf[q]) \in Seq(Records)
    BY <1>4, HeadRecord, LostOfRecord DEF TakeLost, TakeRecord
  <2> QED
    BY <1>4, <2>1, SMTT(30) DEF TakeLost, TakeRecord
<1>5. CASE DecodeAndWrite(q)
  <2>1. hand[q] \in Samples
    BY <1>5 DEF DecodeAndWrite
  <2>2. /\ hand' = [hand EXCEPT ![q] = 0]
        /\ reader' = [reader EXCEPT ![q] = "check"]
        /\ UNCHANGED <<mainVars, runVars, errChan, kernVars>>
    BY <1>5 DEF DecodeAndWrite
  <2>3. \/ Write(q, hand[q])
        \/ /\ undecoded' = [undecoded EXCEPT ![q] = @ \cup {hand[q]}]
           /\ UNCHANGED <<reported, lost, dropped, late>>
    BY <1>5 DEF DecodeAndWrite
  <2>9. FatesTyped
    BY DEF FatesTyped
  <2>10. Write(q, hand[q]) => FatesTyped'
    BY <2>1, <2>9, WriteTyped
  <2>11. ASSUME /\ undecoded' = [undecoded EXCEPT ![q] = @ \cup {hand[q]}]
                /\ UNCHANGED <<reported, lost, dropped, late>>
         PROVE  FatesTyped'
    <3>1. undecoded[q] \cup {hand[q]} \in SUBSET Samples
      BY <2>1
    <3>2. undecoded' \in [Maps -> SUBSET Samples]
      BY <2>11, <3>1
    <3> QED
      BY <2>9, <2>11, <3>2 DEF FatesTyped
  <2>4. FatesTyped'
    BY <2>3, <2>10, <2>11
  <2>5. 0 \in 0 .. MaxSamples
    OBVIOUS
  <2>6. hand' \in [Maps -> 0 .. MaxSamples]
    BY <2>2, <2>5
  <2>7. reader' \in [Maps -> ReaderPcs]
    BY <2>2
  <2>8. \A x \in Maps : reader'[x] = "decode" => hand'[x] \in Samples
    BY <2>2
  <2> QED
    BY <2>2, <2>4, <2>6, <2>7, <2>8 DEF FatesTyped
<1>6. CASE SendError(q)
  <2>1. errChan' \in [Modules -> Seq(Maps)]
    BY <1>6 DEF SendError
  <2> QED
    BY <1>6, <1>8, <2>1 DEF SendError
<1>7. CASE ReadFails(q)
  BY <1>7 DEF ReadFails
<1> QED
  BY <1>1, <1>2, <1>3, <1>4, <1>5, <1>6, <1>7 DEF PerfEventReader, RingbufEventReader

(* The outputs of the programs and the handler of the bpf() map keep the   *)
(* types.                                                                  *)
LEMMA TypeKernel ==
  ASSUME TypeInv, NEW q \in Maps, DataHandler(q) \/ Emit(q)
  PROVE  TypeInv'
<1> USE AgentAssumption DEF TypeInv, TypeOK, mainVars, runVars, kernVars, fateVars, ReaderPcs
<1>1. CASE DataHandler(q)
  <2>1. /\ Head(buf[q]) \in Records
        /\ Tail(buf[q]) \in Seq(Records)
    BY <1>1, HeadRecord, SMTT(30) DEF DataHandler
  <2>2. Head(buf[q]).ids \subseteq Samples
    BY <2>1, LostOfRecord
  <2> DEFINE n == CHOOSE x \in Head(buf[q]).ids : TRUE
  <2>3. Head(buf[q]).kind = "sample" => n \in Samples
    BY <2>1, SampleOfRecord
  <2>4. CASE Head(buf[q]).kind = "sample" /\ Write(q, n)
    <3> HIDE DEF n
    <3>1. FatesTyped'
      BY <2>3, <2>4, WriteTyped, SMTT(30) DEF FatesTyped
    <3>3. buf' \in [Maps -> Seq(Records)]
      BY <1>1, <2>1, SMTT(30) DEF DataHandler
    <3> QED
      BY <1>1, <3>1, <3>3, SMTT(30) DEF DataHandler, FatesTyped
  <2>5. CASE /\ dropped' = [dropped EXCEPT ![q] = @ \cup Head(buf[q]).ids]
             /\ UNCHANGED <<reported, undecoded, lost, late>>
    BY <1>1, <2>1, <2>2, <2>5 DEF DataHandler
  <2> QED
    BY <1>1, <2>4, <2>5 DEF DataHandler
<1>2. CASE Emit(q)
  <2> DEFINE n == emitted[q] + 1
             recs == PerfRecords(q, n)
  <2>1. n \in Samples /\ n \in 0 .. MaxSamples
    <3>1. emitted[q] < Outputs[q] /\ Outputs[q] \in 0 .. MaxSamples
      BY <1>2 DEF Emit
    <3> QED
      BY <3>1 DEF Samples
  <2>2. recs \in Seq(Records)
    <3>1. Sample(n) \in Records
      BY <2>1 DEF Sample, Records
    <3>2. LostRecord(missed[q]) \in Records
      BY DEF LostRecord, Records
    <3> QED
      BY <3>1, <3>2 DEF PerfRecords
  <2>3. buf[q] \o recs \in Seq(Records)
    BY <2>2
  <2>4. emitted' = [emitted EXCEPT ![q] = n]
    BY <1>2 DEF Emit
  <2>5. \/ EmitTo(q, recs)
        \/ missed' = [missed EXCEPT ![q] = @ \cup {n}] /\ UNCHANGED <<buf, dropped>>
        \/ dropped' = [dropped EXCEPT ![q] = @ \cup {n}] /\ UNCHANGED <<buf, missed>>
    BY <1>2 DEF Emit
  <2>6. UNCHANGED <<mainVars, runVars, errChan, reader, hand, reported, undecoded, lost, late>>
    BY <1>2 DEF Emit
  <2> HIDE DEF n, recs
  <2>7. emitted' \in [Maps -> 0 .. MaxSamples]
    BY <2>1, <2>4
  <2>8. buf' \in [Maps -> Seq(Records)]
    BY <2>3, <2>5 DEF EmitTo
  <2>11. missed[q] \cup {n} \in SUBSET Samples /\ dropped[q] \cup {n} \in SUBSET Samples
    BY <2>1
  <2>12. \E S \in SUBSET Samples : missed' \in {missed, [missed EXCEPT ![q] = S]}
    BY <2>5, <2>11 DEF EmitTo
  <2>13. \E S \in SUBSET Samples : dropped' \in {dropped, [dropped EXCEPT ![q] = S]}
    BY <2>5, <2>11 DEF EmitTo
  <2>9. missed' \in [Maps -> SUBSET Samples]
    BY <2>12
  <2>10. dropped' \in [Maps -> SUBSET Samples]
    BY <2>13
  <2> QED
    BY <2>6, <2>7, <2>8, <2>9, <2>10
<1> QED
  BY <1>1, <1>2

(* Every step keeps the types.                                             *)
LEMMA TypeStep == TypeInv /\ [Next]_vars => TypeInv'
<1> SUFFICES ASSUME TypeInv, [Next]_vars PROVE TypeInv'
  OBVIOUS
<1>1. CASE UNCHANGED vars
  BY <1>1 DEF TypeInv, TypeOK, vars, mainVars, runVars, kernVars, fateVars
<1>2. CASE Terminated
  BY <1>1, <1>2 DEF Terminated
<1> QED
  BY <1>1, <1>2, TypeMain, TypeRun, TypeReader, TypeKernel DEF Next

(* In every state of the agent every variable has its type: what a reader  *)
(* logs or rejects is a sample, for any modules, maps and numbers of       *)
(* samples, and never a LOST record, which has none.                       *)
THEOREM TypeCorrect == Spec => []TypeOK
<1>1. TypeInv => TypeOK
  BY DEF TypeInv
<1> QED
  BY <1>1, TypeInit, TypeStep, PTL DEF Spec

-----------------------------------------------------------------------------
(* A reader that has reported a sample after the cancellation is back at   *)
(* its look at the context, or gone.                                       *)
LateInv ==
  \A q \in Maps \ HandlerMaps :
    /\ reader[q] # "handler"
    /\ \/ late[q] = 0
       \/ ctxDone = TRUE /\ late[q] = 1 /\ reader[q] \in {"check", "done"}

(* Steps that neither write to the log nor move a reader that has already  *)
(* reported late keep LateInv.                                             *)
LEMMA LateFrame ==
  ASSUME LateInv, UNCHANGED late, ctxDone = TRUE => ctxDone' = TRUE,
         \A q \in Maps \ HandlerMaps :
           /\ reader'[q] # "handler"
           /\ ctxDone = TRUE /\ reader[q] \in {"check", "done"} =>
                reader'[q] \in {"check", "done"}
  PROVE  LateInv'
  BY DEF LateInv

(* Every step keeps LateInv: a report is followed by a look at the         *)
(* context.                                                                *)
LEMMA LateStep == TypeInv /\ LateInv /\ [Next]_vars => LateInv'
<1> SUFFICES ASSUME TypeInv, LateInv, [Next]_vars PROVE LateInv'
  OBVIOUS
<1> USE DEF vars, mainVars, runVars, kernVars, fateVars
<1>1. CASE UNCHANGED <<reader, late, ctxDone>>
  BY <1>1, LateFrame DEF LateInv
<1>2. CASE UNCHANGED vars \/ Terminated
  BY <1>1, <1>2 DEF Terminated
<1>3. CASE Main \/ Signal
  <2>1. UNCHANGED <<reader, late>> /\ (ctxDone = TRUE => ctxDone' = TRUE)
    BY <1>3 DEF Main, Signal, EnterMain, Setup, Shutdown, Exit, Register, StartModule
  <2> QED
    BY <2>1, LateFrame DEF LateInv
<1>4. ASSUME NEW m \in Modules, Start(m) \/ ReadEvents(m) PROVE LateInv'
  <2>1. CASE StartManager(m)
    <3>1. reader' \in {reader, HandlersStarted(m)} /\ UNCHANGED <<late, ctxDone>>
      BY <2>1 DEF StartManager
    <3>2. \A q \in Maps \ HandlerMaps : reader'[q] = reader[q]
      BY <3>1 DEF HandlersStarted
    <3> QED
      BY <3>1, <3>2, LateFrame DEF LateInv
  <2>2. CASE SpawnReader(m)
    <3>1. PICK q \in Maps : reader[q] = "none" /\ reader' = [reader EXCEPT ![q] = "new"]
      BY <2>2, SpawnEffect
    <3>2. UNCHANGED <<late, ctxDone>>
      BY <2>2, SMTT(30) DEF SpawnReader
    <3> QED
      BY <3>1, <3>2, LateFrame, SMTT(30) DEF LateInv, TypeInv, TypeOK
  <2>3. CASE LoadAsset(m) \/ InitManager(m) \/ InitDecodeFun(m) \/ AwaitError(m) \/ ReceiveError(m)
    BY <1>1, <2>3 DEF LoadAsset, InitManager, InitDecodeFun, AwaitError, ReceiveError
  <2> QED
    BY <1>4, <2>1, <2>2, <2>3 DEF Start, ReadEvents
<1>5. ASSUME NEW q \in Maps, PerfEventReader(q) \/ RingbufEventReader(q) \/ ReadFails(q)
      PROVE  LateInv'
  <2>1. CASE CreateReader(q) \/ CheckCtx(q) \/ TakeSample(q) \/ TakeLost(q) \/ SendError(q) \/ ReadFails(q)
    <3>1. /\ UNCHANGED <<late, ctxDone>>
          /\ \E to \in ReaderPcs \ {"handler"} :
               /\ reader' = [reader EXCEPT ![q] = to]
               /\ ctxDone = TRUE /\ reader[q] \in {"check", "done"} => to \in {"check", "done"}
      BY <2>1 DEF CreateReader, CheckCtx, TakeSample, TakeLost, TakeRecord, SendError, ReadFails,
                  CloseReader, ReaderPcs
    <3> QED
      BY <3>1, LateFrame, SMTT(30) DEF LateInv, TypeInv, TypeOK
  <2>2. CASE DecodeAndWrite(q)
    <3>1. /\ reader[q] = "decode"
          /\ reader' = [reader EXCEPT ![q] = "check"]
          /\ UNCHANGED ctxDone
      BY <2>2, SMTT(30) DEF DecodeAndWrite
    <3>2. \/ UNCHANGED late
          \/ ctxDone = TRUE /\ late' = [late EXCEPT ![q] = late[q] + 1]
      BY <2>2 DEF DecodeAndWrite, Write, TypeInv, TypeOK
    <3>3. q \in Maps \ HandlerMaps => late[q] = 0
      BY <3>1 DEF LateInv
    <3> QED
      BY <3>1, <3>2, <3>3 DEF LateInv, TypeInv, TypeOK
  <2> QED
    BY <1>5, <2>1, <2>2 DEF PerfEventReader, RingbufEventReader
<1>6. ASSUME NEW q \in Maps, DataHandler(q) PROVE LateInv'
  <2>1. q \in HandlerMaps
    BY <1>6 DEF DataHandler, LateInv
  <2>2. UNCHANGED <<reader, ctxDone>>
    BY <1>6 DEF DataHandler
  <2>3. \A x \in Maps \ HandlerMaps : late'[x] = late[x]
    BY <1>6, <2>1, SMTT(30) DEF DataHandler, Write, TypeInv, TypeOK
  <2> QED
    BY <2>2, <2>3 DEF LateInv
<1>7. ASSUME NEW q \in Maps, Emit(q) PROVE LateInv'
  BY <1>1, <1>7 DEF Emit
<1> QED
  BY <1>2, <1>3, <1>4, <1>5, <1>6, <1>7 DEF Next

(* However many modules, maps and samples there are, a reader goroutine    *)
(* writes at most one sample to the log after main cancelled the context.  *)
THEOREM LateReports == Spec => []AtMostOneLateReport
<1>1. Init => LateInv
  BY DEF Init, LateInv
<1>2. TypeInv /\ LateInv => AtMostOneLateReport
  BY DEF LateInv, AtMostOneLateReport
<1> QED
  BY <1>1, <1>2, TypeInit, TypeStep, LateStep, PTL DEF Spec

-----------------------------------------------------------------------------
(* The maps of Events() once initDecodeFun has succeeded.                  *)
Listed(m) == {EventMaps[m][i] : i \in 1 .. Len(EventMaps[m])}

(* Every error waiting in errChan is the only one of its reader, which has *)
(* returned; and only maps of Events() have a reader.                      *)
ErrInv ==
  /\ \A m \in Modules :
       /\ \A i \in 1 .. Len(eventMaps[m]) : eventMaps[m][i] \in Listed(m)
       /\ \A i \in 1 .. Len(errChan[m]) :
            errChan[m][i] \in Listed(m) /\ reader[errChan[m][i]] = "done"
       /\ \A i, j \in 1 .. Len(errChan[m]) : errChan[m][i] = errChan[m][j] => i = j
  /\ \A q \in Maps : reader[q] \notin {"none", "handler"} => q \in Listed(Owner[q])

(* A map that Events() lists is the module's own and has a reader.         *)
LEMMA ListedFacts ==
  ASSUME NEW m \in Modules, NEW q \in Listed(m)
  PROVE  q \in Maps /\ Owner[q] = m /\ q \notin HandlerMaps
  BY AgentAssumption, EventMapsAssumption DEF Listed

(* Different errors of different maps: with one more map whose error has   *)
(* not been sent, the channel has a place left.                            *)
LEMMA RoomForError ==
  ASSUME TypeInv, ErrInv, NEW q \in Maps, reader[q] \in {"createErr", "readErr"}
  PROVE  Len(errChan[Owner[q]]) < ErrChanCap
<1> DEFINE m == Owner[q]
           es == errChan[m]
           N == Len(EventMaps[m])
           L == Len(es)
           item(i) == IF i = L + 1 THEN q ELSE es[i]
           f == [i \in 1 .. L + 1 |-> CHOOSE k \in 1 .. N : EventMaps[m][k] = item(i)]
<1>1. m \in Modules /\ L \in Nat /\ N \in Nat /\ N <= ErrChanCap /\ ErrChanCap \in Nat
  BY AgentAssumption, EventMapsAssumption, SMTT(30) DEF TypeInv, TypeOK
<1>2. \A i \in 1 .. L + 1 : item(i) \in Listed(m)
  <2>1. q \in Listed(m)
    BY DEF ErrInv
  <2>2. \A i \in 1 .. L : es[i] \in Listed(m)
    BY <1>1 DEF ErrInv
  <2> QED
    BY <1>1, <2>1, <2>2
<1>3. \A i, j \in 1 .. L + 1 : item(i) = item(j) => i = j
  <2>1. \A i \in 1 .. L : es[i] # q
    BY <1>1 DEF ErrInv
  <2>2. \A i, j \in 1 .. L : es[i] = es[j] => i = j
    BY <1>1 DEF ErrInv
  <2> QED
    BY <1>1, <2>1, <2>2, SMTT(30)
<1> HIDE DEF item
<1>4. \A i \in 1 .. L + 1 : f[i] \in 1 .. N /\ EventMaps[m][f[i]] = item(i)
  BY <1>2 DEF Listed
<1>5. f \in [1 .. L + 1 -> 1 .. N]
  BY <1>4
<1> HIDE DEF f, L, N
<1>6. ASSUME NEW i \in 1 .. L + 1, NEW j \in 1 .. L + 1, f[i] = f[j] PROVE i = j
  <2>1. item(i) = item(j)
    BY <1>4, <1>6
  <2> QED
    BY <1>3, <2>1
<1>7. /\ IsFiniteSet(1 .. L + 1) /\ Cardinality(1 .. L + 1) = L + 1
      /\ IsFiniteSet(1 .. N) /\ Cardinality(1 .. N) = N
  BY <1>1, FS_Interval
<1>8. ASSUME N < L + 1 PROVE FALSE
  <2>1. Cardinality(1 .. N) < Cardinality(1 .. L + 1)
    BY <1>7, <1>8
  <2>2. \E i, j \in 1 .. L + 1 : i # j /\ f[i] = f[j]
    BY ONLY <1>5, <1>7, <2>1, FS_PigeonHole, Zenon
  <2> QED
    BY <1>6, <2>2
<1>9. L < ErrChanCap
  BY <1>1, <1>8, SMTT(30)
<1> QED
  BY <1>9 DEF L

(* Steps that leave the channels alone, let returned readers be and start  *)
(* no reader keep ErrInv.                                                  *)
LEMMA ErrFrame ==
  ASSUME ErrInv, UNCHANGED <<errChan, eventMaps>>,
         \A q \in Maps :
           /\ q \notin HandlerMaps /\ reader[q] = "done" => reader'[q] = "done"
           /\ reader'[q] \notin {"none", "handler"} => reader[q] \notin {"none", "handler"}
  PROVE  ErrInv'
<1>1. \A m \in Modules : \A i \in 1 .. Len(errChan[m]) : reader'[errChan[m][i]] = "done"
  BY ListedFacts DEF ErrInv
<1> QED
  BY <1>1 DEF ErrInv, Listed

(* Every step keeps ErrInv: a reader sends its error once and returns.     *)
LEMMA ErrStep == TypeInv /\ ErrInv /\ [Next]_vars => ErrInv'
<1> SUFFICES ASSUME TypeInv, ErrInv, [Next]_vars PROVE ErrInv'
  OBVIOUS
<1> USE DEF vars, mainVars, runVars, kernVars, fateVars
<1>1. CASE UNCHANGED <<reader, errChan, eventMaps>>
  BY <1>1, ErrFrame
<1>2. CASE UNCHANGED vars \/ Terminated
  BY <1>1, <1>2, SMTT(30) DEF Terminated
<1>3. CASE Main \/ Signal
  BY <1>1, <1>3 DEF Main, Signal, EnterMain, Setup, Shutdown, Exit, Register, StartModule
<1>4. ASSUME NEW m \in Modules, Start(m) \/ ReadEvents(m) PROVE ErrInv'
  <2>1. CASE LoadAsset(m) \/ InitManager(m) \/ AwaitError(m)
    BY <1>1, <2>1 DEF LoadAsset, InitManager, AwaitError
  <2>2. CASE StartManager(m)
    <3>1. reader' \in {reader, HandlersStarted(m)} /\ UNCHANGED <<errChan, eventMaps>>
      BY <2>2 DEF StartManager
    <3>2. \A q \in Maps : reader'[q] = reader[q] \/ (q \in HandlerMaps /\ reader'[q] = "handler")
      BY <3>1, SMTT(30) DEF HandlersStarted
    <3> QED
      BY <3>1, <3>2, ErrFrame
  <2>3. CASE InitDecodeFun(m)
    <3>1. PICK k \in 0 .. Len(EventMaps[m]) :
            eventMaps' = [eventMaps EXCEPT ![m] = SubSeq(EventMaps[m], 1, k)]
      BY <2>3 DEF InitDecodeFun
    <3>2. EventMaps[m] \in Seq(Maps)
      BY AgentAssumption
    <3>3. /\ Len(SubSeq(EventMaps[m], 1, k)) = k
          /\ \A i \in 1 .. k : SubSeq(EventMaps[m], 1, k)[i] = EventMaps[m][i]
      BY <3>1, <3>2
    <3>4. \A i \in 1 .. k : EventMaps[m][i] \in Listed(m)
      BY <3>1, <3>2, SMTT(30) DEF Listed
    <3>5. \A x \in Modules : \A i \in 1 .. Len(eventMaps'[x]) : eventMaps'[x][i] \in Listed(x)
      BY <3>1, <3>3, <3>4 DEF ErrInv, TypeInv, TypeOK
    <3>6. UNCHANGED <<errChan, reader>>
      BY <2>3 DEF InitDecodeFun
    <3> QED
      BY <3>5, <3>6 DEF ErrInv, Listed
  <2>4. CASE SpawnReader(m)
    <3>1. PICK i \in 1 .. Len(eventMaps[m]) :
            /\ eventMaps[m][i] \in Maps
            /\ reader[eventMaps[m][i]] = "none"
            /\ reader' = [reader EXCEPT ![eventMaps[m][i]] = "new"]
      BY <2>4, SpawnEffect
    <3> DEFINE q == eventMaps[m][i]
    <3>2. q \in Listed(Owner[q])
      BY <3>1, ListedFacts DEF ErrInv
    <3>3. UNCHANGED <<errChan, eventMaps>>
      BY <2>4, SMTT(30) DEF SpawnReader
    <3>4. \A x \in Modules : \A j \in 1 .. Len(errChan[x]) : reader'[errChan[x][j]] = "done"
      BY <3>1, ListedFacts DEF ErrInv, TypeInv, TypeOK
    <3>5. \A x \in Maps : reader'[x] \notin {"none", "handler"} => x \in Listed(Owner[x])
      BY <3>1, <3>2, SMTT(30) DEF ErrInv, TypeInv, TypeOK
    <3> QED
      BY <3>3, <3>4, <3>5 DEF ErrInv, Listed
  <2>5. CASE ReceiveError(m)
    <3>1. /\ errChan' = [errChan EXCEPT ![m] = Tail(errChan[m])]
          /\ errChan[m] # << >>
          /\ UNCHANGED <<reader, eventMaps>>
      BY <2>5 DEF ReceiveError
    <3>2. errChan[m] \in Seq(Maps)
      BY DEF TypeInv, TypeOK
    <3>3. /\ Len(errChan[m]) \in Nat
          /\ Len(Tail(errChan[m])) = Len(errChan[m]) - 1
          /\ \A i \in 1 .. Len(errChan[m]) - 1 : Tail(errChan[m])[i] = errChan[m][i + 1]
      BY <3>1, <3>2
    <3>4. \A x \in Modules : x # m => errChan'[x] = errChan[x]
      BY <3>1 DEF TypeInv, TypeOK
    <3>5. errChan'[m] = Tail(errChan[m])
      BY <3>1 DEF TypeInv, TypeOK
    <3>6. \A i \in 1 .. Len(errChan'[m]) :
            errChan'[m][i] \in Listed(m) /\ reader[errChan'[m][i]] = "done"
      BY <3>3, <3>5 DEF ErrInv
    <3>7. \A i, j \in 1 .. Len(errChan'[m]) : errChan'[m][i] = errChan'[m][j] => i = j
      BY <3>3, <3>5 DEF ErrInv
    <3>8. \A x \in Modules : \A i \in 1 .. Len(errChan'[x]) :
            errChan'[x][i] \in Listed(x) /\ reader[errChan'[x][i]] = "done"
      BY <3>4, <3>6 DEF ErrInv
    <3>9. \A x \in Modules : \A i, j \in 1 .. Len(errChan'[x]) :
            errChan'[x][i] = errChan'[x][j] => i = j
      BY <3>4, <3>7 DEF ErrInv
    <3> QED
      BY <3>1, <3>8, <3>9 DEF ErrInv, Listed
  <2> QED
    BY <1>4, <2>1, <2>2, <2>3, <2>4, <2>5 DEF Start, ReadEvents
<1>5. ASSUME NEW q \in Maps, PerfEventReader(q) \/ RingbufEventReader(q) \/ ReadFails(q)
      PROVE  ErrInv'
  <2>1. CASE CreateReader(q) \/ CheckCtx(q) \/ TakeSample(q) \/ TakeLost(q) \/ DecodeAndWrite(q)
               \/ ReadFails(q)
    <3>1. /\ UNCHANGED <<errChan, eventMaps>>
          /\ reader[q] \notin {"none", "handler", "done"}
          /\ \E to \in ReaderPcs : reader' = [reader EXCEPT ![q] = to]
      BY <2>1 DEF CreateReader, CheckCtx, TakeSample, TakeLost, TakeRecord, DecodeAndWrite,
                  ReadFails, CloseReader, ReaderPcs
    <3> QED
      BY <3>1, ErrFrame, SMTT(30) DEF TypeInv, TypeOK
  <2>2. CASE SendError(q)
    <3> DEFINE m == Owner[q]
    <3>1. /\ reader[q] \in {"createErr", "readErr"}
          /\ errChan' = [errChan EXCEPT ![m] = Append(errChan[m], q)]
          /\ reader' = [reader EXCEPT ![q] = "done"]
          /\ UNCHANGED eventMaps
      BY <2>2, SMTT(30) DEF SendError, CloseReader
    <3>2. m \in Modules /\ errChan[m] \in Seq(Maps) /\ q \in Listed(m)
      BY <3>1, AgentAssumption DEF TypeInv, TypeOK, ErrInv
    <3>3. \A x \in Modules : x # m => errChan'[x] = errChan[x]
      BY <3>1 DEF TypeInv, TypeOK
    <3>4. errChan'[m] = Append(errChan[m], q)
      BY <3>1, <3>2, SMTT(30) DEF TypeInv, TypeOK
    <3>5. /\ Len(errChan[m]) \in Nat
          /\ Len(errChan'[m]) = Len(errChan[m]) + 1
          /\ \A i \in 1 .. Len(errChan[m]) : errChan'[m][i] = errChan[m][i]
          /\ errChan'[m][Len(errChan[m]) + 1] = q
      BY <3>2, <3>4, SMTT(30)
    <3>6. \A x \in Maps : reader'[x] = IF x = q THEN "done" ELSE reader[x]
      BY <3>1, SMTT(30) DEF TypeInv, TypeOK
    <3>7. \A i \in 1 .. Len(errChan[m]) : errChan[m][i] # q
      BY <3>1, <3>2 DEF ErrInv
    <3>8. \A i \in 1 .. Len(errChan'[m]) :
            errChan'[m][i] \in Listed(m) /\ reader'[errChan'[m][i]] = "done"
      <4>1. \A i \in 1 .. Len(errChan[m]) : errChan[m][i] \in Listed(m) /\ reader[errChan[m][i]] = "done"
        BY <3>2 DEF ErrInv
      <4>2. \A i \in 1 .. Len(errChan[m]) : errChan[m][i] \in Maps
        BY <3>2, <4>1, ListedFacts
      <4>3. \A i \in 1 .. Len(errChan[m]) : reader'[errChan[m][i]] = "done"
        BY <3>6, <4>1, <4>2
      <4>4. reader'[q] = "done"
        BY <3>6
      <4>5. q \in Listed(m)
        BY <3>2
      <4> HIDE DEF m
      <4> SUFFICES ASSUME NEW i \in 1 .. Len(errChan'[m])
                   PROVE  errChan'[m][i] \in Listed(m) /\ reader'[errChan'[m][i]] = "done"
        OBVIOUS
      <4>6. CASE i = Len(errChan[m]) + 1
        BY <3>5, <4>4, <4>5, <4>6
      <4>7. CASE i \in 1 .. Len(errChan[m])
        BY <3>5, <4>1, <4>3, <4>7
      <4> QED
        BY <3>5, <4>6, <4>7
    <3>9. \A i, j \in 1 .. Len(errChan'[m]) : errChan'[m][i] = errChan'[m][j] => i = j
      <4>1. \A i, j \in 1 .. Len(errChan[m]) : errChan[m][i] = errChan[m][j] => i = j
        BY <3>2 DEF ErrInv
      <4> HIDE DEF m
      <4> SUFFICES ASSUME NEW i \in 1 .. Len(errChan'[m]), NEW j \in 1 .. Len(errChan'[m]),
                          errChan'[m][i] = errChan'[m][j]
                   PROVE  i = j
        OBVIOUS
      <4> DEFINE last == Len(errChan[m]) + 1
      <4>2. /\ i = last \/ i \in 1 .. Len(errChan[m])
            /\ j = last \/ j \in 1 .. Len(errChan[m])
        BY <3>5
      <4>3. CASE i = last /\ j = last
        BY <4>3
      <4>4. CASE i = last /\ j \in 1 .. Len(errChan[m])
        BY <3>5, <3>7, <4>4
      <4>5. CASE j = last /\ i \in 1 .. Len(errChan[m])
        BY <3>5, <3>7, <4>5
      <4>6. CASE i \in 1 .. Len(errChan[m]) /\ j \in 1 .. Len(errChan[m])
        BY <3>5, <4>1, <4>6
      <4> QED
        BY <4>2, <4>3, <4>4, <4>5, <4>6, SMTT(30)
    <3>10. \A x \in Modules : x # m => \A i \in 1 .. Len(errChan[x]) : reader'[errChan[x][i]] = "done"
      BY <3>6, ListedFacts DEF ErrInv
    <3>11. \A x \in Maps : reader'[x] \notin {"none", "handler"} => x \in Listed(Owner[x])
      BY <3>2, <3>6, SMTT(30) DEF ErrInv
    <3> HIDE DEF m
    <3>12. \A x \in Modules : \A i \in 1 .. Len(errChan'[x]) :
             errChan'[x][i] \in Listed(x) /\ reader'[errChan'[x][i]] = "done"
      BY <3>3, <3>8, <3>10 DEF ErrInv
    <3>13. \A x \in Modules : \A i, j \in 1 .. Len(errChan'[x]) :
             errChan'[x][i] = errChan'[x][j] => i = j
      BY <3>3, <3>9, SMTT(30) DEF ErrInv
    <3> QED
      BY <3>1, <3>11, <3>12, <3>13 DEF ErrInv, Listed
  <2> QED
    BY <1>5, <2>1, <2>2 DEF PerfEventReader, RingbufEventReader
<1>6. ASSUME NEW q \in Maps, DataHandler(q) \/ Emit(q) PROVE ErrInv'
  BY <1>1, <1>6 DEF DataHandler, Emit
<1> QED
  BY <1>2, <1>3, <1>4, <1>5, <1>6 DEF Next

(* For any modules and maps, as long as no module has more event maps than *)
(* errChan has places, no reader goroutine ever blocks on sending its      *)
(* error, although readEvents takes only the first.                        *)
THEOREM ErrorSendsNeverBlock == Spec => []NoErrorSendBlocks
<1>1. Init => ErrInv
  BY DEF Init, ErrInv
<1>2. TypeInv /\ ErrInv => NoErrorSendBlocks
  BY RoomForError DEF NoErrorSendBlocks
<1> QED
  BY <1>1, <1>2, TypeInit, TypeStep, ErrStep, PTL DEF Spec
=============================================================================

------------------------------- MODULE Agent -------------------------------
(***************************************************************************)
(* The user-space agent: main(), the module registry, the life of every    *)
(* Module (Run, Start, readEvents) and the goroutine that reads each event *)
(* map, down to the kernel buffer the eBPF programs write samples to.      *)
(*                                                                         *)
(* A sample is a number: the n-th sample written to its map.  A kernel     *)
(* buffer is a sequence of records; a record holds one sample, or the set  *)
(* of samples a perf buffer had no room for (PERF_RECORD_LOST).  A perf    *)
(* map has a buffer per CPU; the model has that of one CPU, so what it     *)
(* says of the order of samples it says of the samples of one CPU.         *)
(***************************************************************************)
EXTENDS Naturals, Sequences, FiniteSets

CONSTANTS
  Modules,       \* names of the probe modules
  Registering,   \* those whose init() calls Register
  Maps,          \* the maps samples are written to
  Owner,         \* the module of a map
  EventMaps,     \* what initDecodeFun of a module appends to eventMaps
  HandlerMaps,   \* the maps read by the ebpf manager for a DataHandler
  MapType,       \* the type of a map
  ErrChanCap,    \* capacity of readEvents' errChan, 8 in the code
  StopperCap,    \* capacity of main's stopper, 1 in the code
  BufCap,        \* records the kernel buffer of a map holds
  MaxSamples,    \* bound: the numbers of samples
  Outputs        \* bound: samples the programs write to a map

ASSUME AgentAssumption ==
  /\ Registering \subseteq Modules
  /\ Owner \in [Maps -> Modules]
  /\ EventMaps \in [Modules -> Seq(Maps)]
  /\ HandlerMaps \subseteq Maps
  /\ MapType \in [Maps -> {"RingBuf", "PerfEventArray"}]
  /\ \A q \in HandlerMaps : MapType[q] = "PerfEventArray"
  /\ ErrChanCap \in Nat \ {0}
  /\ StopperCap \in Nat \ {0}
  /\ BufCap \in [Maps -> Nat \ {0}]
  /\ MaxSamples \in Nat
  /\ Outputs \in [Maps -> 0 .. MaxSamples]

(* Every map of a module's Events() is its own and occurs once, and there  *)
(* are never more of them than errChan has places.                         *)
ASSUME EventMapsAssumption ==
  \A m \in Modules :
    /\ Len(EventMaps[m]) <= ErrChanCap
    /\ \A i, j \in 1 .. Len(EventMaps[m]) :
         /\ Owner[EventMaps[m][i]] = m
         /\ EventMaps[m][i] \notin HandlerMaps
         /\ EventMaps[m][i] = EventMaps[m][j] => i = j

VARIABLES
  mainPc,     \* where main() is
  modules,    \* the registry: modules in user.modules
  stopper,    \* signals waiting in the channel stopper
  ctxDone,    \* the context is cancelled
  run,        \* where the goroutine executing m.Run() is
  attached,   \* modules whose eBPF programs are attached
  eventMaps,  \* the maps m.Events() returns and m.DecodeFun knows
  errChan,    \* the maps whose reader's error is in readEvents' channel
  reader,     \* where the goroutine reading a map is
  hand,       \* the sample that goroutine has read and not yet handled, or 0
  buf,        \* the kernel buffer of a map
  emitted,    \* how many samples the eBPF programs have produced for a map
  missed,     \* samples a full perf buffer owes a LOST record for
  reported,   \* samples written to the log by Write
  undecoded,  \* samples whose Decode failed
  lost,       \* samples reported as lost by a log line
  dropped,    \* samples gone without a trace
  late        \* samples of a map reported after the cancellation

mainVars == <<mainPc, modules, stopper, ctxDone>>
runVars  == <<run, attached, eventMaps>>
fateVars == <<reported, undecoded, lost, dropped, late>>
kernVars == <<buf, emitted, missed>>
vars == <<mainVars, runVars, errChan, reader, hand, kernVars, fateVars>>

Samples == 1 .. MaxSamples

MainPcs == {"register", "setup", "boot", "grace", "exited"}
RunPcs  == {"none", "asset", "init", "attach", "decode", "spawn", "recv", "returned"}
ReaderPcs ==
  {"none", "new", "check", "read", "decode", "createErr", "readErr", "done", "handler"}

Records ==
  [kind : {"sample"}, ids : {{n} : n \in Samples}] \cup [kind : {"lost"}, ids : SUBSET Samples]

Sample(n) == [kind |-> "sample", ids |-> {n}]
LostRecord(S) == [kind |-> "lost", ids |-> S]

(* Once main returns the process is gone, with every goroutine, every      *)
(* attachment and every map of it.                                         *)
Alive == mainPc # "exited"

Init ==
  /\ mainPc = "register"
  /\ modules = {}
  /\ stopper = 0
  /\ ctxDone = FALSE
  /\ run = [m \in Modules |-> "none"]
  /\ attached = {}
  /\ eventMaps = [m \in Modules |-> << >>]
  /\ errChan = [m \in Modules |-> << >>]
  /\ reader = [q \in Maps |-> "none"]
  /\ hand = [q \in Maps |-> 0]
  /\ buf = [q \in Maps |-> << >>]
  /\ emitted = [q \in Maps |-> 0]
  /\ missed = [q \in Maps |-> {}]
  /\ reported = [q \in Maps |-> {}]
  /\ undecoded = [q \in Maps |-> {}]
  /\ lost = [q \in Maps |-> {}]
  /\ dropped = [q \in Maps |-> {}]
  /\ late = [q \in Maps |-> 0]

-----------------------------------------------------------------------------
(* main() and the registry                                                 *)

(* The init() of a probe file puts its module in the registry.             *)
Register(m) ==
  /\ mainPc = "register"
  /\ m \in Registering \ modules
  /\ modules' = modules \cup {m}
  /\ UNCHANGED <<mainPc, stopper, ctxDone, runVars, errChan, reader, hand, kernVars, fateVars>>

(* All init() functions have run: main() is entered.                       *)
EnterMain ==
  /\ mainPc = "register"
  /\ modules = Registering
  /\ mainPc' = "setup"
  /\ UNCHANGED <<modules, stopper, ctxDone, runVars, errChan, reader, hand, kernVars, fateVars>>

(* RemoveMemlock, whose failure ends the process, and then signal.Notify.  *)
Setup ==
  /\ mainPc = "setup"
  /\ mainPc' \in {"boot", "exited"}
  /\ UNCHANGED <<modules, stopper, ctxDone, runVars, errChan, reader, hand, kernVars, fateVars>>

(* SIGINT or SIGTERM.  Before Notify it ends the process; after it, the    *)
(* runtime sends to stopper without blocking and forgets a signal that     *)
(* finds the channel full.                                                 *)
Signal ==
  /\ Alive
  /\ \/ /\ mainPc \in {"register", "setup"}
        /\ mainPc' = "exited"
        /\ UNCHANGED stopper
     \/ /\ mainPc \in {"boot", "grace"}
        /\ stopper < StopperCap
        /\ stopper' = stopper + 1
        /\ UNCHANGED mainPc
  /\ UNCHANGED <<modules, ctxDone, runVars, errChan, reader, hand, kernVars, fateVars>>

(* One turn of main's loop over the registry, in Go's arbitrary map order: *)
(* module.Init, then go module.Run().                                      *)
StartModule(m) ==
  /\ mainPc = "boot"
  /\ m \in modules
  /\ run[m] = "none"
  /\ run' = [run EXCEPT ![m] = "asset"]
  /\ UNCHANGED <<mainVars, attached, eventMaps, errChan, reader, hand, kernVars, fateVars>>

(* <-stopper after the loop, and cancelFun().                              *)
Shutdown ==
  /\ mainPc = "boot"
  /\ \A m \in modules : run[m] # "none"
  /\ stopper > 0
  /\ stopper' = stopper - 1
  /\ ctxDone' = TRUE
  /\ mainPc' = "grace"
  /\ UNCHANGED <<modules, runVars, errChan, reader, hand, kernVars, fateVars>>

(* Faulty variant: main waits for every Run to return before it exits.     *)
ExitAfterRuns ==
  /\ mainPc = "grace"
  /\ \A m \in modules : run[m] = "returned"
  /\ mainPc' = "exited"
  /\ UNCHANGED <<modules, stopper, ctxDone, runVars, errChan, reader, hand, kernVars, fateVars>>

(* The 100 ms are over and main returns.                                   *)
Exit ==
  /\ mainPc = "grace"
  /\ mainPc' = "exited"
  /\ UNCHANGED <<modules, stopper, ctxDone, runVars, errChan, reader, hand, kernVars, fateVars>>

-----------------------------------------------------------------------------
(* Module.Run: child.Start() and readEvents()                              *)

(* A step of start(): go on at pc, or return the error, which main's       *)
(* goroutine prints.  Nothing that was done before is undone.              *)
Proceed(m, from, to) ==
  /\ Alive
  /\ run[m] = from
  /\ run' = [run EXCEPT ![m] = to]

(* assets.Asset reads the embedded eBPF object.                            *)
LoadAsset(m) ==
  /\ \E to \in {"init", "returned"} : Proceed(m, "asset", to)
  /\ UNCHANGED <<mainVars, attached, eventMaps, errChan, reader, hand, kernVars, fateVars>>

(* bpfManager.InitWithOptions verifies and loads programs and maps.        *)
InitManager(m) ==
  /\ \E to \in {"attach", "returned"} : Proceed(m, "init", to)
  /\ UNCHANGED <<mainVars, attached, eventMaps, errChan, reader, hand, kernVars, fateVars>>

(* bpfManager.Start starts the readers of the manager's own perf maps and  *)
(* attaches the programs.  An error may leave any part of that done.       *)
HandlersStarted(m) ==
  [q \in Maps |-> IF q \in HandlerMaps /\ Owner[q] = m THEN "handler" ELSE reader[q]]

StartManager(m) ==
  /\ \/ /\ Proceed(m, "attach", "decode")
        /\ attached' = attached \cup {m}
        /\ reader' = HandlersStarted(m)
     \/ /\ Proceed(m, "attach", "returned")
        /\ attached' \in {attached, attached \cup {m}}
        /\ reader' \in {reader, HandlersStarted(m)}
  /\ UNCHANGED <<mainVars, eventMaps, errChan, hand, kernVars, fateVars>>

(* initDecodeFun looks the event maps up one by one, appends each to       *)
(* eventMaps with its decoder, and gives up at the first that is missing.  *)
InitDecodeFun(m) ==
  /\ \E k \in 0 .. Len(EventMaps[m]) :
       /\ Proceed(m, "decode", IF k = Len(EventMaps[m]) THEN "spawn" ELSE "returned")
       /\ eventMaps' = [eventMaps EXCEPT ![m] = SubSeq(EventMaps[m], 1, k)]
  /\ UNCHANGED <<mainVars, attached, errChan, reader, hand, kernVars, fateVars>>

(* The loop of readEvents over Events(): start a reader for the next map.  *)
SpawnReader(m) ==
  /\ Alive
  /\ run[m] = "spawn"
  /\ \E i \in 1 .. Len(eventMaps[m]) :
       /\ reader[eventMaps[m][i]] = "none"
       /\ \A j \in 1 .. i - 1 : reader[eventMaps[m][j]] # "none"
       /\ reader' = [reader EXCEPT ![eventMaps[m][i]] = "new"]
  /\ UNCHANGED <<mainVars, runVars, errChan, hand, kernVars, fateVars>>

(* The loop is over: readEvents waits for an error.                        *)
AwaitError(m) ==
  /\ \A i \in 1 .. Len(eventMaps[m]) : reader[eventMaps[m][i]] # "none"
  /\ Proceed(m, "spawn", "recv")
  /\ UNCHANGED <<mainVars, attached, eventMaps, errChan, reader, hand, kernVars, fateVars>>

(* readEvents returns the first error it receives.  It is never nil, so    *)
(* Run returns it and never gets to go this.run().                         *)
ReceiveError(m) ==
  /\ errChan[m] # << >>
  /\ Proceed(m, "recv", "returned")
  /\ errChan' = [errChan EXCEPT ![m] = Tail(@)]
  /\ UNCHANGED <<mainVars, attached, eventMaps, reader, hand, kernVars, fateVars>>

-----------------------------------------------------------------------------
(* The goroutine of one event map                                          *)

(* perf.NewReader or ringbuf.NewReader.                                    *)
CreateReader(q) ==
  /\ Alive
  /\ reader[q] = "new"
  /\ \E to \in {"check", "createErr"} : reader' = [reader EXCEPT ![q] = to]
  /\ UNCHANGED <<mainVars, runVars, errChan, hand, kernVars, fateVars>>

(* The samples of the records of kind k in the buffer of q.                *)
Buffered(q, k) ==
  UNION {IF buf[q][i].kind = k THEN buf[q][i].ids ELSE {} : i \in 1 .. Len(buf[q])}

(* The deferred rd.Close() of a reader that returns.  A perf buffer is     *)
(* destroyed with the records in it and the LOST record it owes; a ring    *)
(* buffer is the map itself, and keeps its records.  (A reader that could  *)
(* not be created has no buffer, hence nothing to lose.)                   *)
CloseReader(q) ==
  /\ reader' = [reader EXCEPT ![q] = "done"]
  /\ \/ /\ MapType[q] = "PerfEventArray"
        /\ buf' = [buf EXCEPT ![q] = << >>]
        /\ missed' = [missed EXCEPT ![q] = {}]
        /\ dropped' = [dropped EXCEPT ![q] =
                         @ \cup Buffered(q, "sample") \cup Buffered(q, "lost") \cup missed[q]]
     \/ /\ MapType[q] = "RingBuf"
        /\ UNCHANGED <<buf, missed, dropped>>
  /\ UNCHANGED <<hand, emitted, reported, undecoded, lost, late>>

(* Faulty variants: no look at the context at all, and a select without    *)
(* its default branch.                                                     *)
CheckCtxNever(q) ==
  /\ Alive
  /\ reader[q] = "check"
  /\ reader' = [reader EXCEPT ![q] = "read"]
  /\ UNCHANGED <<mainVars, runVars, errChan, hand, kernVars, fateVars>>

CheckCtxBlocking(q) ==
  /\ Alive
  /\ reader[q] = "check"
  /\ ctxDone
  /\ CloseReader(q)
  /\ UNCHANGED <<mainVars, runVars, errChan>>

(* The non-blocking look at ctx.Done() at the top of the loop.             *)
CheckCtx(q) ==
  /\ Alive
  /\ reader[q] = "check"
  /\ \/ /\ ctxDone
        /\ CloseReader(q)
     \/ /\ ~ctxDone
        /\ reader' = [reader EXCEPT ![q] = "read"]
        /\ UNCHANGED <<hand, kernVars, fateVars>>
  /\ UNCHANGED <<mainVars, runVars, errChan>>

(* Read blocks until there is a record; cancelling the context does not    *)
(* wake it.                                                                *)
TakeRecord(q) ==
  /\ Alive
  /\ reader[q] = "read"
  /\ buf[q] # << >>
  /\ buf' = [buf EXCEPT ![q] = Tail(@)]

TakeSample(q) ==
  /\ TakeRecord(q)
  /\ Head(buf[q]).kind = "sample"
  /\ hand' = [hand EXCEPT ![q] = CHOOSE n \in Head(buf[q]).ids : TRUE]
  /\ reader' = [reader EXCEPT ![q] = "decode"]
  /\ UNCHANGED <<mainVars, runVars, errChan, emitted, missed, fateVars>>

(* Faulty variant: no continue after the line about the lost samples, so   *)
(* that the record, which has no sample, is decoded.                       *)
TakeLostFallsThrough(q) ==
  /\ TakeRecord(q)
  /\ Head(buf[q]).kind = "lost"
  /\ lost' = [lost EXCEPT ![q] = @ \cup Head(buf[q]).ids]
  /\ reader' = [reader EXCEPT ![q] = "decode"]
  /\ UNCHANGED <<mainVars, runVars, errChan, hand, emitted, missed, reported, undecoded,
                 dropped, late>>

(* A record with LostSamples # 0 is logged and skipped.                    *)
TakeLost(q) ==
  /\ TakeRecord(q)
  /\ Head(buf[q]).kind = "lost"
  /\ lost' = [lost EXCEPT ![q] = @ \cup Head(buf[q]).ids]
  /\ reader' = [reader EXCEPT ![q] = "check"]
  /\ UNCHANGED <<mainVars, runVars, errChan, hand, emitted, missed, reported, undecoded,
                 dropped, late>>

(* Read returns an error other than ErrClosed (nobody closes rd while its  *)
(* goroutine runs, so ErrClosed cannot be returned).                       *)
ReadFails(q) ==
  /\ Alive
  /\ reader[q] = "read"
  /\ reader' = [reader EXCEPT ![q] = "readErr"]
  /\ UNCHANGED <<mainVars, runVars, errChan, hand, kernVars, fateVars>>

(* Faulty variant: the reader continues its loop after sending the error.  *)
SendErrorAndContinue(q) ==
  /\ Alive
  /\ reader[q] \in {"createErr", "readErr"}
  /\ Len(errChan[Owner[q]]) < ErrChanCap
  /\ errChan' = [errChan EXCEPT ![Owner[q]] = Append(@, q)]
  /\ reader' = [reader EXCEPT ![q] = "check"]
  /\ UNCHANGED <<mainVars, runVars, hand, kernVars, fateVars>>

(* errChan <- err, which blocks while the channel is full; then return,    *)
(* with the deferred rd.Close().                                           *)
SendError(q) ==
  /\ Alive
  /\ reader[q] \in {"createErr", "readErr"}
  /\ Len(errChan[Owner[q]]) < ErrChanCap
  /\ errChan' = [errChan EXCEPT ![Owner[q]] = Append(@, q)]
  /\ CloseReader(q)
  /\ UNCHANGED <<mainVars, runVars>>

(* Write: the sample appears in the log.                                   *)
Write(q, n) ==
  /\ reported' = [reported EXCEPT ![q] = @ \cup {n}]
  /\ late' = [late EXCEPT ![q] = IF ctxDone THEN @ + 1 ELSE @]
  /\ UNCHANGED <<undecoded, lost, dropped>>

(* Faulty variants: a decode error that is logged but not followed by      *)
(* continue, and one that is not even logged.                              *)
DecodeFallsThrough(q) ==
  /\ Alive
  /\ reader[q] = "decode"
  /\ reported' = [reported EXCEPT ![q] = @ \cup {hand[q]}]
  /\ \E S \in {{}, {hand[q]}} : undecoded' = [undecoded EXCEPT ![q] = @ \cup S]
  /\ hand' = [hand EXCEPT ![q] = 0]
  /\ reader' = [reader EXCEPT ![q] = "check"]
  /\ UNCHANGED <<mainVars, runVars, errChan, kernVars, lost, dropped, late>>

DecodeErrorIgnored(q) ==
  /\ Alive
  /\ reader[q] = "decode"
  /\ Write(q, hand[q]) \/ UNCHANGED fateVars
  /\ hand' = [hand EXCEPT ![q] = 0]
  /\ reader' = [reader EXCEPT ![q] = "check"]
  /\ UNCHANGED <<mainVars, runVars, errChan, kernVars>>

(* Decode: DecodeFun finds the map's decoder in eventFuncMaps or it does   *)
(* not, and the decoder accepts the bytes or it does not; then Write.      *)
DecodeAndWrite(q) ==
  /\ Alive
  /\ reader[q] = "decode"
  /\ \/ /\ \E i \in 1 .. Len(eventMaps[Owner[q]]) : eventMaps[Owner[q]][i] = q
        /\ Write(q, hand[q])
     \/ /\ undecoded' = [undecoded EXCEPT ![q] = @ \cup {hand[q]}]
        /\ UNCHANGED <<reported, lost, dropped, late>>
  /\ hand' = [hand EXCEPT ![q] = 0]
  /\ reader' = [reader EXCEPT ![q] = "check"]
  /\ UNCHANGED <<mainVars, runVars, errChan, kernVars>>

(* What a reader does when it is given the processor.                      *)
PerfEventReader(q) ==
  /\ MapType[q] = "PerfEventArray"
  /\ CreateReader(q) \/ CheckCtx(q) \/ TakeSample(q) \/ TakeLost(q)
       \/ DecodeAndWrite(q) \/ SendError(q)

RingbufEventReader(q) ==
  /\ MapType[q] = "RingBuf"
  /\ CreateReader(q) \/ CheckCtx(q) \/ TakeSample(q) \/ DecodeAndWrite(q) \/ SendError(q)

(* Faulty variant: the record stays in the buffer after it was handled.    *)
DataHandlerKeepsRecord(q) ==
  /\ Alive
  /\ reader[q] = "handler"
  /\ buf[q] # << >>
  /\ Head(buf[q]).kind = "sample"
  /\ Write(q, CHOOSE n \in Head(buf[q]).ids : TRUE)
  /\ UNCHANGED <<mainVars, runVars, errChan, reader, hand, kernVars>>

(* The manager's reader of a handler map: dataHandler decodes (which never *)
(* fails for this event) and writes; lostEventsHandle does nothing.        *)
DataHandler(q) ==
  /\ Alive
  /\ reader[q] = "handler"
  /\ buf[q] # << >>
  /\ buf' = [buf EXCEPT ![q] = Tail(@)]
  /\ \/ /\ Head(buf[q]).kind = "sample"
        /\ Write(q, CHOOSE n \in Head(buf[q]).ids : TRUE)
     \/ /\ Head(buf[q]).kind = "lost"
        /\ dropped' = [dropped EXCEPT ![q] = @ \cup Head(buf[q]).ids]
        /\ UNCHANGED <<reported, undecoded, lost, late>>
  /\ UNCHANGED <<mainVars, runVars, errChan, reader, hand, emitted, missed>>

-----------------------------------------------------------------------------
(* The kernel's side (external)                                            *)

(* A perf buffer exists between NewReader and Close; the ring buffer is    *)
(* the map itself.                                                         *)
BufferOpen(q) ==
  \/ MapType[q] = "RingBuf"
  \/ reader[q] \in {"check", "read", "decode", "readErr", "handler"}

(* What a perf buffer has to write for sample n: first the LOST record it  *)
(* owes.                                                                   *)
PerfRecords(q, n) ==
  IF missed[q] = {} THEN <<Sample(n)>> ELSE <<LostRecord(missed[q]), Sample(n)>>

EmitTo(q, recs) ==
  /\ buf' = [buf EXCEPT ![q] = @ \o recs]
  /\ missed' = [missed EXCEPT ![q] = {}]
  /\ UNCHANGED dropped

(* An attached program outputs a sample.  No program looks at the result   *)
(* of bpf_perf_event_output; kretprobe_copy_process returns if             *)
(* bpf_ringbuf_reserve finds no room, and submits otherwise.               *)
Emit(q) ==
  /\ Alive
  /\ Owner[q] \in attached
  /\ emitted[q] < Outputs[q]
  /\ emitted' = [emitted EXCEPT ![q] = @ + 1]
  /\ LET n == emitted[q] + 1
         recs == PerfRecords(q, n)
         fits == Len(buf[q]) + Len(recs) <= BufCap[q]
     IN  \/ /\ BufferOpen(q)
            /\ fits
            /\ EmitTo(q, recs)
         \/ /\ BufferOpen(q)
            /\ ~fits
            /\ MapType[q] = "PerfEventArray"
            /\ missed' = [missed EXCEPT ![q] = @ \cup {n}]
            /\ UNCHANGED <<buf, dropped>>
         \/ /\ ~BufferOpen(q) \/ (~fits /\ MapType[q] = "RingBuf")
            /\ dropped' = [dropped EXCEPT ![q] = @ \cup {n}]
            /\ UNCHANGED <<buf, missed>>
  /\ UNCHANGED <<mainVars, runVars, errChan, reader, hand, reported, undecoded, lost, late>>

-----------------------------------------------------------------------------
(* After the process has exited nothing happens any more.                  *)
Terminated == ~Alive /\ UNCHANGED vars

Main == EnterMain \/ Setup \/ Shutdown \/ Exit \/ (\E m \in Modules : Register(m) \/ StartModule(m))

Start(m) == LoadAsset(m) \/ InitManager(m) \/ StartManager(m) \/ InitDecodeFun(m)

ReadEvents(m) == SpawnReader(m) \/ AwaitError(m) \/ ReceiveError(m)

Next ==
  \/ Main
  \/ Signal
  \/ \E m \in Modules : Start(m) \/ ReadEvents(m)
  \/ \E q \in Maps : PerfEventReader(q) \/ RingbufEventReader(q) \/ ReadFails(q)
  \/ \E q \in Maps : DataHandler(q) \/ Emit(q)
  \/ Terminated

Spec == Init /\ [][Next]_vars

(* The Go scheduler runs every goroutine that can run.  Nothing obliges a  *)
(* user to send a signal, a program to emit, or a Read to fail.            *)
Fairness ==
  /\ WF_vars(Main)
  /\ \A m \in Modules : WF_vars(Start(m) \/ ReadEvents(m))
  /\ \A q \in Maps : WF_vars(PerfEventReader(q) \/ RingbufEventReader(q) \/ DataHandler(q))

FairSpec == Spec /\ Fairness

-----------------------------------------------------------------------------
(* Properties                                                              *)

(* The types of the state: in particular what a reader logs, or rejects as *)
(* undecodable, is a sample a program output, and never the record of lost *)
(* samples, which has none (perfEventReader).                              *)
TypeOK ==
  /\ mainPc \in MainPcs
  /\ modules \subseteq Registering
  /\ stopper \in 0 .. StopperCap
  /\ ctxDone \in BOOLEAN
  /\ run \in [Modules -> RunPcs]
  /\ attached \subseteq Modules
  /\ eventMaps \in [Modules -> Seq(Maps)]
  /\ errChan \in [Modules -> Seq(Maps)]
  /\ reader \in [Maps -> ReaderPcs]
  /\ hand \in [Maps -> 0 .. MaxSamples]
  /\ buf \in [Maps -> Seq(Records)]
  /\ emitted \in [Maps -> 0 .. MaxSamples]
  /\ missed \in [Maps -> SUBSET Samples]
  /\ reported \in [Maps -> SUBSET Samples]
  /\ undecoded \in [Maps -> SUBSET Samples]
  /\ lost \in [Maps -> SUBSET Samples]
  /\ dropped \in [Maps -> SUBSET Samples]
  /\ late \in [Maps -> Nat]

InHand(q) == {hand[q]} \ {0}

Accepted(q) == Buffered(q, "sample") \cup InHand(q)

LostBefore(q) == Buffered(q, "lost") \cup missed[q]

(* Every sample a program has output has exactly one fate: it waits in the *)
(* kernel buffer or in the reader's hand, is in the log, was rejected by   *)
(* its decoder, is or will be counted by a "dropped %d samples" line, or   *)
(* is gone silently, possibly with the buffer its reader closed.  So the   *)
(* log never shows an event twice, and a sample counted as lost never      *)
(* shows up later (perfEventReader, ringbufEventReader, dataHandler).      *)
OneFate ==
  \A q \in Maps :
    LET fates == <<Buffered(q, "sample"), InHand(q), reported[q], undecoded[q],
                   Buffered(q, "lost"), missed[q], lost[q], dropped[q]>>
    IN  /\ UNION {fates[i] : i \in DOMAIN fates} = 1 .. emitted[q]
        /\ \A i, j \in DOMAIN fates : i # j => fates[i] \cap fates[j] = {}

(* No reader ever blocks in errChan <- err: although readEvents receives a *)
(* single error and then abandons the channel, each reader sends at most   *)
(* one and there are no more readers than places.                          *)
NoErrorSendBlocks ==
  \A q \in Maps :
    reader[q] \in {"createErr", "readErr"} => Len(errChan[Owner[q]]) < ErrChanCap

(* A reader looks at ctx.Done() before every Read, so it reports at most   *)
(* one more sample once main has cancelled the context.  (The manager's    *)
(* own readers do not look at the context at all.)                         *)
AtMostOneLateReport == \A q \in Maps \ HandlerMaps : late[q] <= 1

(* What has become of sample n of map q, in the terms of LossyStream; a    *)
(* sample that is nowhere has "vanished", which is no fate there.          *)
Fate(q, n) ==
  CASE n \in reported[q] -> "reported"
    [] n \in undecoded[q] -> "undecoded"
    [] n \in LostBefore(q) \cup lost[q] \cup dropped[q] -> "lost"
    [] n \in Accepted(q) -> "flight"
    [] OTHER -> IF n <= emitted[q] THEN "vanished" ELSE "none"

(* The perf maps whose reader has returned.                                *)
Closed == {q \in Maps : MapType[q] = "PerfEventArray" /\ reader[q] = "done"}

Stream == INSTANCE LossyStream
            WITH fate <- [q \in Maps |-> [n \in Samples |-> Fate(q, n)]], closed <- Closed

(* The agent implements LossyStream: samples of a map are settled in the   *)
(* order they were accepted and once each, whatever modules start, fail or *)
(* are cancelled meanwhile.  A sample the kernel buffer took is lost only  *)
(* when the reader of its perf map returns and closes the buffer, with all *)
(* others that wait in it; after that no sample of the map is reported.    *)
ImplementsStream == Stream!Spec

(* SIGINT or SIGTERM ends the process, also when it arrives while main is  *)
(* still starting modules and however the modules fare.                    *)
SignalEndsProcess == stopper > 0 ~> ~Alive

(* A sample in a buffer does get settled, unless its reader has failed,    *)
(* was cancelled or was never started because Run returned early, or the   *)
(* process is gone.  In particular a failure of another map's reader does  *)
(* not keep it.                                                            *)
ReaderGone(q) ==
  \/ reader[q] \in {"createErr", "readErr", "done"}
  \/ reader[q] = "none" /\ run[Owner[q]] = "returned"

AcceptedIsSettled ==
  \A q \in Maps : \A n \in 1 .. Outputs[q] :
    n \in Accepted(q) ~> (n \in reported[q] \cup undecoded[q] \/ ReaderGone(q) \/ ~Alive)
=============================================================================

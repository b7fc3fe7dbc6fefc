------------------------------ MODULE MCAgent ------------------------------
(* Instances of Agent made of probes of the catalog; a configuration       *)
(* chooses which.                                                          *)
EXTENDS Agent, ProbeCatalog

CONSTANT Probes

MCModules == NamesOf(Probes)
MCRegistering == RegisteringOf(Probes)
MCMaps == MapsOf(Probes)
MCOwner == OwnerOf(Probes)
MCEventMaps == EventMapsOf(Probes)
MCHandlerMaps == HandlerMapsOf(Probes)
MCMapType == MapTypeOf(Probes)

(* A module with one perf map, and one that is not registered.             *)
OnePerfMap == {MTCPProbe, MUDPProbe}
ThreePerfMaps == {MTCPSecProbe}
(* A ring buffer and a map with a handler of the manager.                  *)
TwoModules == {MProcProbe, MBPFCallProbe}

(* A perf buffer owes its reader a LOST record once a third sample finds   *)
(* it full, and writes it before a fourth.                                 *)
OverflowCap == [q \in MCMaps |-> 2]
OverflowOutputs == [q \in MCMaps |-> 4]

(* One record and one sample to a map.                                     *)
SingleCap == [q \in MCMaps |-> 1]
SingleOutputs == [q \in MCMaps |-> 1]

(* As OverflowCap for the perf buffer; a ring buffer of one record refuses *)
(* a second.                                                               *)
MixedCap == [q \in MCMaps |-> IF MCMapType[q] = "RingBuf" THEN 1 ELSE 2]
MixedOutputs == [q \in MCMaps |-> IF MCMapType[q] = "RingBuf" THEN 2 ELSE 4]
=============================================================================

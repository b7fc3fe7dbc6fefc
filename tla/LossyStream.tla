---------------------------- MODULE LossyStream ----------------------------
(***************************************************************************)
(* What the event path from an eBPF program to the log promises, for every *)
(* map: a stream that may refuse a sample when it is produced, but that    *)
(* settles the samples it accepted one at a time and in order, each        *)
(* exactly once, by reporting it or by rejecting it as undecodable.        *)
(*                                                                         *)
(* A sample that was accepted is lost in one way only: its stream is       *)
(* closed, which loses all samples under way at once.  A closed stream     *)
(* accepts and settles nothing any more.                                   *)
(***************************************************************************)
EXTENDS Naturals

CONSTANTS Maps, MaxSamples

VARIABLES
  fate,    \* fate[q][n]: what has become of the n-th sample of q
  closed   \* the maps whose stream is closed

Samples == 1 .. MaxSamples

Init ==
  /\ fate = [q \in Maps |-> [n \in Samples |-> "none"]]
  /\ closed = {}

(* The next sample is produced, and accepted or lost.                      *)
Produce(q, n) ==
  /\ fate[q][n] = "none"
  /\ \A k \in Samples : k < n => fate[q][k] # "none"
  /\ \E f \in {"flight", "lost"} :
       /\ q \in closed => f = "lost"
       /\ fate' = [fate EXCEPT ![q][n] = f]
  /\ UNCHANGED closed

(* The oldest accepted sample is settled.                                  *)
Settle(q, n) ==
  /\ q \notin closed
  /\ fate[q][n] = "flight"
  /\ \A k \in Samples : k < n => fate[q][k] # "flight"
  /\ \E f \in {"reported", "undecoded"} : fate' = [fate EXCEPT ![q][n] = f]
  /\ UNCHANGED closed

(* The stream is closed, and the samples under way are lost with it.       *)
AfterClose(f) == IF f = "flight" THEN "lost" ELSE f

Close(q) ==
  /\ q \notin closed
  /\ closed' = closed \cup {q}
  /\ fate' = [fate EXCEPT ![q] = [n \in Samples |-> AfterClose(fate[q][n])]]

Next ==
  \/ \E q \in Maps, n \in Samples : Produce(q, n) \/ Settle(q, n)
  \/ \E q \in Maps : Close(q)

Spec == Init /\ [][Next]_<<fate, closed>>
=============================================================================

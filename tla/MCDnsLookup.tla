---------------------------- MODULE MCDnsLookup ----------------------------
(* Instances of DnsLookup.                                                 *)
EXTENDS DnsLookup, TLC

CONSTANTS t1, t2, t3, p1, p2

(* Two threads of one process and one of another, which comes back.        *)
TwoAndOne == t1 :> p1 @@ t2 :> p1 @@ t3 :> p2
OneOneMore == t1 :> 1 @@ t2 :> 1 @@ t3 :> 3

Perms == Permutations({t1, t2})

(* The behaviours in which both probes are attached before any call.       *)
AttachedSpec ==
  Init /\ [][Next /\ (attached' # attached \/ attached = {"entry", "return"})]_vars
=============================================================================

----------------------------- MODULE MCBpfCall ------------------------------
(* Instances of BpfCall.                                                   *)
EXTENDS BpfCall, TLC

CONSTANTS t1, t2, t3, e1, e2, e3

Perms == Permutations({t1, t2, t3}) \cup Permutations({e1, e2, e3})
=============================================================================

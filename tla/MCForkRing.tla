----------------------------- MODULE MCForkRing -----------------------------
(* An instance of ForkRing.                                                *)
EXTENDS ForkRing

CONSTANTS c1, c2, c3
=============================================================================

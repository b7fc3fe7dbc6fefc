--------------------------- MODULE MCTcpSetState ---------------------------
(* Instances of TcpSetState.  The sockets are interchangeable: no action   *)
(* and no property tells one from another.                                 *)
EXTENDS TcpSetState, TLC

CONSTANTS s1, s2

TwoSocks == {s1, s2}
SockSymmetry == Permutations(Socks)

(* The behaviours in which the program is attached before any connection. *)
AttachedSpec == Init /\ [][Next /\ (attached \/ attached')]_vars
=============================================================================

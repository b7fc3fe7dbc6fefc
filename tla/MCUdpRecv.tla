----------------------------- MODULE MCUdpRecv ------------------------------
(* Instances of UdpRecv.                                                   *)
EXTENDS UdpRecv, TLC

CONSTANTS t1, t2, t3, c1, c2

(* The longest answer that is output in full, one of MAX_PKT bytes, one    *)
(* more, an error, an answer that fills its first buffer, another          *)
(* iterator and an unreadable comm.                                        *)
Long == [iovec |-> TRUE, moved |-> FALSE, copied |-> MAX_PKT - 1, iov_len |-> 600, comm |-> TRUE]

SomeAnswers ==
  {Long, [Long EXCEPT !.copied = MAX_PKT], [Long EXCEPT !.copied = MAX_PKT + 1],
   [Long EXCEPT !.copied = -1], [Long EXCEPT !.moved = TRUE],
   [Long EXCEPT !.moved = TRUE, !.iov_len = 20],
   [Long EXCEPT !.iovec = FALSE], [Long EXCEPT !.comm = FALSE]}

(* One thread comes back after its return was missed.                      *)
TwoOneOne == t1 :> 2 @@ t2 :> 1 @@ t3 :> 1

Perms == Permutations({t2, t3}) \cup Permutations({c1, c2})
=============================================================================

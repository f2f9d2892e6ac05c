------------------------------- MODULE MCLink -------------------------------
(* Instances of Link for TLC.                                               *)
EXTENDS Link, TLC

(* Sockets and reconnection tasks have no identity of their own. *)
Anonymous == Permutations(Sockets) \cup Permutations(Loops)
=============================================================================

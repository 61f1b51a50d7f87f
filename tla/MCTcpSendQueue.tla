--------------------------- MODULE MCTcpSendQueue ---------------------------
(***************************************************************************)
(* Instances of TcpSendQueue for TLC.  The threads that call send_*() are  *)
(* interchangeable.                                                        *)
(***************************************************************************)
EXTENDS TcpSendQueue, TLC

ThreadSymmetry == Permutations(Threads)
=============================================================================

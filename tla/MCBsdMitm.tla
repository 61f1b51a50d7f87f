----------------------------- MODULE MCBsdMitm -----------------------------
(***************************************************************************)
(* The interception with two threads, two descriptors, one ephemeral port  *)
(* and one other.  Threads and descriptors are interchangeable, and no     *)
(* temporal property is checked.                                           *)
(***************************************************************************)
EXTENDS BsdMitm, TLC

Symmetry == Permutations(Threads) \cup Permutations(Fds)
=============================================================================

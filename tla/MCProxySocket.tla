--------------------------- MODULE MCProxySocket ---------------------------
(***************************************************************************)
(* ProxySocket with the program's two IPC threads.  A ring of two or three *)
(* slots wraps within a few datagrams, and one more arrives than it holds  *)
(* twice over.                                                             *)
(***************************************************************************)
EXTENDS ProxySocket
=============================================================================

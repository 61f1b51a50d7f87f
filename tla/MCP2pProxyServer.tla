-------------------------- MODULE MCP2pProxyServer --------------------------
(***************************************************************************)
(* The P2P server on small instances.  Session objects and tokens are      *)
(* interchangeable, but the run checks liveness, so symmetry is not used.  *)
(***************************************************************************)
EXTENDS P2pProxyServer
=============================================================================

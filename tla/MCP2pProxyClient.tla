-------------------------- MODULE MCP2pProxyClient --------------------------
(***************************************************************************)
(* The P2P client on small instances.                                      *)
(***************************************************************************)
EXTENDS P2pProxyClient
=============================================================================

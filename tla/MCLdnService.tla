---------------------------- MODULE MCLdnService ----------------------------
(***************************************************************************)
(* LdnService for TLC.                                                     *)
(***************************************************************************)
EXTENDS LdnService

\* Every command; CreateNetworkPrivate only repeats what CreateNetwork and
\* ConnectPrivate do between them.
AllCalls == Call \ {"CreateNetworkPrivate"}
\* A RejectReply is to every wait what a late NetworkError is.
AllPackets == PacketKind \ {"RejectReply"}

\* A game that opens a station, and opens it again when that fails.
ReopenCalls == {"Initialize", "OpenStation"}
\* A game that hosts, leaves and hosts again.
HostCalls == {"Initialize", "OpenAccessPoint", "CreateNetwork", "DestroyNetwork"}
=============================================================================

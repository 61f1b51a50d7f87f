----------------------------- MODULE PortLease -----------------------------
(***************************************************************************)
(* The port that a host opens in its router: NatPunch, ReleaseNatPunch and *)
(* the lease thread of p2p/p2p_proxy_server.cpp over the UpnpPortMapper of *)
(* p2p/upnp_port_mapper.cpp, with the calls that CreateNetwork and         *)
(* StopP2pProxyServer make of them (ldn/ldn_icommunication.cpp).           *)
(*                                                                         *)
(* The router is modelled from how it is used: it may be absent, answer    *)
(* late or not at all, or do what it was asked and lose the answer; a      *)
(* mapping that is not renewed ends; other hosts map ports too.  Time goes *)
(* in units of PORT_LEASE_LENGTH - PORT_LEASE_RENEW; a call to the router  *)
(* takes less than one.                                                    *)
(***************************************************************************)
EXTENDS Integers

CONSTANTS
  NPorts,              \* PUBLIC_PORT_RANGE
  LeaseLength,         \* PORT_LEASE_LENGTH
  LeaseRenew           \* PORT_LEASE_RENEW

ASSUME PortLeaseAssumption ==
  /\ NPorts \in Nat \ {0}
  /\ LeaseRenew \in Nat \ {0} /\ LeaseLength \in Nat /\ LeaseRenew < LeaseLength

Ports == 1..NPorts

VARIABLES
  owner,               \* the router's mappings: "none", "us", "other"
  left,                \* the time that is left of ours
  m_available,         \* the mapper has found a router,
  known,               \* and it is the one of the network we are in
  main,                \* where the IPC thread is
  trying,              \* NatPunch's loop
  m_public_port,       \* 0: none
  m_lease_thread_running,
  destroying,          \* it is in the destructor
  lease,               \* where the lease thread is
  waited,              \* its sleep so far
  renewing,            \* the port that it asks the router for
  missed,              \* renewals that did not reach the router, since NatPunch
  leaked               \* mappings made or left behind because an answer was lost

router == <<owner, left>>
mapper == <<m_available, known>>
flags == <<m_public_port, m_lease_thread_running, destroying>>
leaseVars == <<router, mapper, main, trying, flags, lease, waited, renewing, missed, leaked>>

LeaseTypeOK ==
  /\ owner \in [Ports -> {"none", "us", "other"}] /\ left \in [Ports -> 0..LeaseLength]
  /\ m_available \in BOOLEAN /\ known \in BOOLEAN
  /\ main \in {"none", "discover", "add", "lease", "hosting", "release", "join", "delete", "stop"}
  /\ trying \in Ports /\ m_public_port \in Ports \cup {0}
  /\ m_lease_thread_running \in BOOLEAN /\ destroying \in BOOLEAN
  /\ lease \in {"none", "sleep", "refresh", "exited"} /\ waited \in 0..LeaseRenew
  /\ renewing \in Ports \cup {0}
  /\ missed \in 0..2 /\ leaked \subseteq Ports

LeaseInit ==
  /\ owner \in [Ports -> {"none", "other"}] /\ left = [p \in Ports |-> 0]
  /\ m_available = FALSE /\ known = FALSE
  /\ main = "none" /\ trying = 1 /\ m_public_port = 0
  /\ m_lease_thread_running = FALSE /\ destroying = FALSE
  /\ lease = "none" /\ waited = 0 /\ renewing = 0 /\ missed = 0 /\ leaked = {}

-----------------------------------------------------------------------------
(* The IPC thread: CreateNetwork. *)

\* StartP2pProxyServer
StartP2pProxyServer ==
  /\ main = "none" /\ main' = "discover"
  /\ destroying' = FALSE
  /\ UNCHANGED <<router, mapper, trying, m_public_port, m_lease_thread_running, lease, waited,
                 missed, leaked, renewing>>

\* A router that was found once is not looked for again.
Discover ==
  /\ main = "discover"
  /\ \E found \in BOOLEAN :
       /\ m_available' = (m_available \/ found)
       /\ known' = (known \/ (~m_available /\ found))
  /\ main' = IF m_available' THEN "add" ELSE "hosting"
  /\ trying' = 1
  /\ UNCHANGED <<router, flags, lease, waited, missed, leaked, renewing>>

\* What the router does when it is asked to map p: it refuses what another host has.
Mapped(p) ==
  /\ known /\ owner[p] # "other"
  /\ owner' = [owner EXCEPT ![p] = "us"] /\ left' = [left EXCEPT ![p] = LeaseLength]

TryNext ==
  IF trying < NPorts THEN trying' = trying + 1 /\ main' = "add"
                     ELSE trying' = 1 /\ main' = "hosting"

AddPortMapping ==
  /\ main = "add"
  /\ \/ /\ Mapped(trying)
        /\ m_public_port' = trying /\ missed' = 0 /\ leaked' = leaked \ {trying}
        /\ main' = "lease" /\ UNCHANGED trying
     \/ /\ Mapped(trying) /\ leaked' = leaked \cup {trying}
        /\ TryNext /\ UNCHANGED <<m_public_port, missed>>
     \/ /\ UNCHANGED <<router, m_public_port, missed, leaked>> /\ TryNext
  /\ UNCHANGED <<mapper, m_lease_thread_running, destroying, lease, waited, renewing>>

\* The thread may fail to be created: then nobody renews.
StartLeaseRenewal ==
  /\ main = "lease" /\ main' = "hosting"
  /\ \/ m_lease_thread_running' = TRUE /\ lease' = "sleep" /\ waited' = 0 /\ UNCHANGED missed
     \/ m_lease_thread_running' = FALSE /\ missed' = 2 /\ UNCHANGED <<lease, waited>>
  /\ UNCHANGED <<router, mapper, trying, m_public_port, destroying, leaked, renewing>>

-----------------------------------------------------------------------------
(* The IPC thread: StopP2pProxyServer, which deletes the server; the destructor of the server *)
(* releases once more. *)

StopP2pProxyServer ==
  /\ main = "hosting" /\ main' = "release"
  /\ UNCHANGED <<router, mapper, trying, flags, lease, waited, missed, leaked, renewing>>

\* Mutation: the lease thread is told to end and not waited for.
ReleaseNatPunchNoJoin ==
  /\ main = "release" /\ main' = "delete"
  /\ m_lease_thread_running' = FALSE
  /\ UNCHANGED <<router, mapper, trying, m_public_port, destroying, lease, waited, missed, leaked, renewing>>

ReleaseNatPunch ==
  /\ main = "release"
  /\ main' = IF m_lease_thread_running THEN "join" ELSE "delete"
  /\ m_lease_thread_running' = FALSE
  /\ UNCHANGED <<router, mapper, trying, m_public_port, destroying, lease, waited, missed, leaked, renewing>>

JoinLeaseThread ==
  /\ main = "join" /\ lease = "exited"
  /\ main' = "delete" /\ lease' = "none"
  /\ UNCHANGED <<router, mapper, trying, flags, waited, missed, leaked, renewing>>

Released == main' = IF destroying THEN "none" ELSE "stop"

\* Mutation: the port is still taken for ours afterwards.
DeletePortMappingKeepsPort ==
  /\ main = "delete" /\ m_public_port # 0
  /\ known /\ owner' = [owner EXCEPT ![m_public_port] = "none"]
  /\ left' = [left EXCEPT ![m_public_port] = 0]
  /\ Released
  /\ UNCHANGED <<mapper, trying, flags, lease, waited, missed, leaked, renewing>>

\* The router deletes the mapping, whoever has it; or it is not reached.
DeletePortMapping ==
  /\ main = "delete" /\ m_public_port # 0
  /\ \/ /\ known /\ owner' = [owner EXCEPT ![m_public_port] = "none"]
        /\ left' = [left EXCEPT ![m_public_port] = 0]
        /\ UNCHANGED leaked
     \/ UNCHANGED router /\ leaked' = leaked \cup {m_public_port}
  /\ m_public_port' = 0
  /\ Released
  /\ UNCHANGED <<mapper, trying, m_lease_thread_running, destroying, lease, waited, missed, renewing>>

NothingToDelete ==
  /\ main = "delete" /\ m_public_port = 0 /\ Released
  /\ UNCHANGED <<router, mapper, trying, flags, lease, waited, missed, leaked, renewing>>

\* Stop and delete: the destructor comes to ReleaseNatPunch again.
StopAndDelete ==
  /\ main = "stop" /\ main' = "release" /\ destroying' = TRUE
  /\ UNCHANGED <<router, mapper, trying, m_public_port, m_lease_thread_running, lease, waited,
                 missed, leaked, renewing>>

-----------------------------------------------------------------------------
(* The lease thread. *)

\* Mutation: only m_disposed ends it, which the destructor sets when all is done.
WantedUntilDisposed == TRUE
Wanted == m_lease_thread_running

LeaseExits ==
  /\ lease = "sleep" /\ ~Wanted /\ lease' = "exited"
  /\ UNCHANGED <<router, mapper, main, trying, flags, waited, missed, leaked, renewing>>

\* Mutation: the interval is as long as the lease.
RenewIntervalTooLong == LeaseLength
RenewInterval == LeaseRenew

\* The interval is over, in slices, and the flags have been looked at.
Woken ==
  /\ lease = "sleep" /\ Wanted /\ waited = RenewInterval
  /\ lease' = "refresh" /\ renewing' = m_public_port
  /\ UNCHANGED <<router, mapper, main, trying, flags, waited, missed, leaked>>

\* A renewal that fails is reported, and the next one is an interval away.
RefreshPortMapping ==
  /\ lease = "refresh"
  /\ \/ Mapped(renewing) /\ UNCHANGED missed
     \/ UNCHANGED router /\ missed' = IF missed < 2 THEN missed + 1 ELSE 2
  /\ lease' = "sleep" /\ waited' = 0 /\ renewing' = 0
  /\ UNCHANGED <<mapper, main, trying, flags, leaked>>

-----------------------------------------------------------------------------
(* The router, the other hosts, the network. *)

Tick ==
  /\ main \notin {"lease", "release", "join", "delete"} /\ lease # "refresh"
  /\ lease = "sleep" => Wanted /\ waited < RenewInterval
  /\ \E p \in Ports : owner[p] = "us"
  /\ left' = [p \in Ports |-> IF left[p] > 0 THEN left[p] - 1 ELSE 0]
  /\ owner' = [p \in Ports |-> IF owner[p] = "us" /\ left[p] <= 1 THEN "none" ELSE owner[p]]
  /\ waited' = IF lease = "sleep" THEN waited + 1 ELSE waited
  /\ UNCHANGED <<mapper, main, trying, flags, lease, missed, leaked, renewing>>

\* The interval also passes when there is nothing to count down.
TickUnmapped ==
  /\ lease = "sleep" /\ Wanted /\ waited < RenewInterval
  /\ \A p \in Ports : owner[p] # "us"
  /\ waited' = waited + 1
  /\ UNCHANGED <<router, mapper, main, trying, flags, lease, missed, leaked, renewing>>

OtherMaps(p) ==
  /\ owner[p] = "none" /\ owner' = [owner EXCEPT ![p] = "other"]
  /\ UNCHANGED <<left, mapper, main, trying, flags, lease, waited, missed, leaked, renewing>>

OtherUnmaps(p) ==
  /\ owner[p] = "other" /\ owner' = [owner EXCEPT ![p] = "none"]
  /\ UNCHANGED <<left, mapper, main, trying, flags, lease, waited, missed, leaked, renewing>>

\* The console is taken to another network; the mapper keeps the router it has found.
NetworkChanges ==
  /\ known /\ known' = FALSE
  /\ owner' = [p \in Ports |-> "none"] /\ left' = [p \in Ports |-> 0]
  /\ UNCHANGED <<m_available, main, trying, flags, lease, waited, missed, leaked, renewing>>

-----------------------------------------------------------------------------
Release == ReleaseNatPunch \/ JoinLeaseThread \/ DeletePortMapping \/ NothingToDelete \/ StopAndDelete
LeaseThread == LeaseExits \/ Woken \/ RefreshPortMapping
LeaseNext ==
  \/ StartP2pProxyServer
  \/ Discover
  \/ AddPortMapping
  \/ StartLeaseRenewal
  \/ StopP2pProxyServer
  \/ ReleaseNatPunch
  \/ JoinLeaseThread
  \/ DeletePortMapping
  \/ NothingToDelete
  \/ StopAndDelete
  \/ LeaseExits
  \/ Woken
  \/ RefreshPortMapping
  \/ Tick
  \/ TickUnmapped
  \/ \E p \in Ports : OtherMaps(p)
  \/ \E p \in Ports : OtherUnmaps(p)
  \/ NetworkChanges

LeaseSpec == LeaseInit /\ [][LeaseNext]_leaseVars

\* The two threads run, and time passes.
LeaseFairSpec == LeaseSpec /\ WF_leaseVars(Release) /\ WF_leaseVars(LeaseThread) /\ WF_leaseVars(Tick)

-----------------------------------------------------------------------------
(* Properties. *)

\* While a host has a public port, and every renewal has reached the router of the network it
\* is in, the port is mapped to it: the lease never ends between two renewals
\* (PORT_LEASE_LENGTH, PORT_LEASE_RENEW, LeaseRenewalLoop).
LeaseHeld ==
  main = "hosting" /\ m_public_port # 0 /\ missed = 0 /\ known => owner[m_public_port] = "us"

\* When a server is gone, so are its mappings, but for those where an answer of the router was
\* lost: no renewal comes behind the deletion (the order of ReleaseNatPunch).
NothingLeftBehind == main = "none" => \A p \in Ports : owner[p] = "us" => p \in leaked

\* A port that another host has mapped is not unmapped by us, though the destructor releases a
\* second time, unless a renewal has failed before (m_public_port in ReleaseNatPunch).
OthersSpared ==
  main = "delete" /\ m_public_port # 0 /\ owner[m_public_port] = "other" => missed > 0 \/ ~known

\* Stopping a server ends, with the lease thread asleep, renewing or never created: the IPC
\* thread is in ReleaseNatPunch, waiting for it (the comment in LeaseRenewalLoop).
ReleaseReturns == main = "release" ~> main = "none"

\* What the comment on LeaseRenewalLoop says of the margin: if a renewal fails, there is time
\* to retry before the mapping ends.
RenewalIsRetried ==
  main = "hosting" /\ m_public_port # 0 /\ missed <= 1 /\ known => owner[m_public_port] = "us"
=============================================================================

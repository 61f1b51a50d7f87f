------------------------------ MODULE BsdMitm ------------------------------
(***************************************************************************)
(* The interception of a game's BSD sockets: the commands of               *)
(* bsd/bsd_mitm_service.cpp, the registry of proxy sockets                 *)
(* (bsd/proxy_socket_manager.cpp) and the pool of ephemeral ports          *)
(* (bsd/ephemeral_port_pool.cpp).  Two IPC threads serve the commands of   *)
(* all sessions, and among them the LDN commands that end in               *)
(* ProxySocketManager::Reset; a third thread routes what the LDN server    *)
(* sends.  Each critical section of g_socket_info_mutex, m_mutex and the   *)
(* pool's mutex is one step.                                               *)
(*                                                                         *)
(* A pointer to a proxy socket is the descriptor it was found under; when  *)
(* the socket is destroyed, the threads that hold the pointer are marked   *)
(* dangling.  Using it then is undefined and is left out: such a thread    *)
(* takes no step, as if it were delayed.                                   *)
(* m_mutex is not recursive: a thread that locks it again is stuck, and    *)
(* keeps it; in Close it keeps g_socket_info_mutex too.                    *)
(*                                                                         *)
(* Datagrams in a socket are module ProxySocket; which free port the pool  *)
(* hands out is left open; times are free (a pending packet may be found   *)
(* stale whenever its age is tested).                                      *)
(***************************************************************************)
EXTENDS Integers, Sequences, FiniteSets, Subsequences

CONSTANTS
  Threads,            \* the IPC threads
  Sessions,           \* BSD sessions of the game
  Fds,                \* descriptors the real service hands out
  EphemeralPorts,     \* the pool
  OtherPorts,         \* ports outside of it, which are not tracked
  LdnIps,             \* addresses this console may have in LDN networks
  MaxProxySockets,    \* MAX_PROXY_SOCKETS
  MaxPendingPackets,
  MaxTargets,         \* kMaxSockets of RouteIncomingData
  MaxDescriptors      \* bound on the descriptors made in a behaviour

Protocols == {"Udp", "Tcp"}
NoPort == 0
Ports == EphemeralPorts \cup OtherPorts
AnyIp == 0                        \* INADDR_ANY, or no address yet

ASSUME BsdMitmAssumption ==
  /\ Ports \subseteq Nat \ {NoPort} /\ EphemeralPorts \cap OtherPorts = {}
  /\ LdnIps \subseteq Nat \ {AnyIp}
  /\ MaxProxySockets \in Nat /\ MaxPendingPackets \in Nat \ {0} /\ MaxTargets \in Nat
  /\ MaxDescriptors \in Nat

VARIABLES
  open,               \* the real service's descriptors, by session
  g_socket_info,
  m_sockets,          \* the registry
  m_port_pool,        \* the allocated ephemeral ports, by protocol
  m_pending,          \* TCP packets nobody was bound for, oldest first
  m_local_ip,
  pc, cmd,            \* where each thread is, and what it serves
  dangling,           \* the thread holds a pointer to a destroyed socket
  doomed,             \* descriptors a destructor still has to close
  adopted,            \* CreateProxySocket has returned another one's socket
  oldDelivered,       \* a packet outlived the closing of its port
  made                \* descriptors made so far

tables == <<open, g_socket_info, m_sockets>>
history == <<adopted, oldDelivered, made>>
vars == <<tables, m_port_pool, m_pending, m_local_ip, pc, cmd, dangling, doomed,
          history>>

NoInfo == [protocol |-> "none", is_proxy |-> FALSE, session |-> "none"]
NoSocket == [protocol |-> "none", bound |-> FALSE, port |-> NoPort, ip |-> AnyIp,
             remote |-> FALSE]
NewSocket(protocol) == [NoSocket EXCEPT !.protocol = protocol]
NoCommand == [fd |-> "none", port |-> NoPort, protocol |-> "none", session |-> "none"]

Info == [protocol : Protocols, is_proxy : BOOLEAN, session : Sessions]
Socket_ == [protocol : Protocols, bound : BOOLEAN, port : Ports \cup {NoPort},
            ip : LdnIps \cup {AnyIp}, remote : BOOLEAN]
Pc == {"idle", "bindPort", "bindMark", "bindDeliver", "connectBind", "connect", "sendBind",
       "sendMark", "use", "recv",
       "blocked", "destroy", "stuck", "stuckInClose"}

TypeOK ==
  /\ open \in [Sessions -> SUBSET Fds]
  /\ g_socket_info \in [Fds -> Info \cup {NoInfo}]
  /\ m_sockets \in [Fds -> Socket_ \cup {NoSocket}]
  /\ m_port_pool \in [Protocols -> SUBSET EphemeralPorts]
  /\ m_pending \in Seq([port : Ports, ip : LdnIps, old : BOOLEAN])
  /\ Len(m_pending) <= MaxPendingPackets
  /\ m_local_ip \in LdnIps \cup {AnyIp}
  /\ pc \in [Threads -> Pc]
  /\ cmd \in [Threads -> [fd : Fds \cup {"none"}, port : Ports \cup {NoPort},
                          protocol : Protocols \cup {"none"},
                          session : Sessions \cup {"none"}]]
  /\ dangling \in [Threads -> BOOLEAN]
  /\ doomed \in [Threads -> SUBSET Fds]
  /\ adopted \in BOOLEAN /\ oldDelivered \in BOOLEAN
  /\ made \in 0..MaxDescriptors

Init ==
  /\ open = [s \in Sessions |-> {}]
  /\ g_socket_info = [fd \in Fds |-> NoInfo]
  /\ m_sockets = [fd \in Fds |-> NoSocket]
  /\ m_port_pool = [p \in Protocols |-> {}]
  /\ m_pending = <<>> /\ m_local_ip = AnyIp
  /\ pc = [t \in Threads |-> "idle"] /\ cmd = [t \in Threads |-> NoCommand]
  /\ dangling = [t \in Threads |-> FALSE]
  /\ doomed = [t \in Threads |-> {}]
  /\ adopted = FALSE /\ oldDelivered = FALSE /\ made = 0

-----------------------------------------------------------------------------
Registered == {fd \in Fds : m_sockets[fd] # NoSocket}
OpenFds == UNION {open[s] : s \in Sessions}
Tracked(fd) == g_socket_info[fd] # NoInfo
Proxied(fd) == g_socket_info[fd].is_proxy

ManagerFree == \A t \in Threads : pc[t] \notin {"stuck", "stuckInClose"}
InfoFree == \A t \in Threads : pc[t] # "stuckInClose"

Goto(t, place) == pc' = [pc EXCEPT ![t] = place]
\* The command returns: what the thread was about is forgotten.
Return(t) ==
  /\ Goto(t, "idle")
  /\ cmd' = [cmd EXCEPT ![t] = NoCommand]
  /\ dangling' = [dangling EXCEPT ![t] = FALSE]

(***************************************************************************)
(* EphemeralPortPool.  Obtainable: what a bind to this port may get, port  *)
(* 0 asking for any; the ports outside the pool are anybody's.             *)
(***************************************************************************)
FreePorts(protocol) == EphemeralPorts \ m_port_pool[protocol]

\* Mutation: AllocateSpecificPort does not look whether the bit is set.
ReservableUnchecked(port, protocol) == {port}

Reservable(port, protocol) ==
  IF port \in EphemeralPorts THEN {port} \ m_port_pool[protocol] ELSE {port}

Obtainable(port, protocol) ==
  IF port = NoPort THEN FreePorts(protocol) ELSE Reservable(port, protocol)

WithPort(protocol, port) ==
  [m_port_pool EXCEPT ![protocol] = @ \cup ({port} \cap EphemeralPorts)]

WithoutPort(protocol, port) == [m_port_pool EXCEPT ![protocol] = @ \ {port}]

\* CreateProxySocket: what is registered already is returned as it is.
CanCreate(fd) == fd \in Registered \/ Cardinality(Registered) < MaxProxySockets

CreateProxySocket(fd, protocol) ==
  IF fd \in Registered THEN m_sockets
  ELSE [m_sockets EXCEPT ![fd] = NewSocket(protocol)]

Marked(fd) ==
  IF Tracked(fd) THEN [g_socket_info EXCEPT ![fd].is_proxy = TRUE] ELSE g_socket_info

-----------------------------------------------------------------------------
(***************************************************************************)
(* The threads that hold a pointer to the socket of fd.                    *)
(***************************************************************************)
Holders(fd) ==
  {t \in Threads : /\ cmd[t].fd = fd
                   /\ pc[t] \in {"bindPort", "bindMark", "bindDeliver", "connectBind",
                                 "connect", "sendBind", "use", "recv", "blocked"}}

Dangle(fds) ==
  dangling' = [t \in Threads |-> dangling[t] \/ \E fd \in fds : t \in Holders(fd)]

(***************************************************************************)
(* CloseProxySocket, m_mutex held.  Pending packets of the endpoint go     *)
(* with its last socket.                                                   *)
(***************************************************************************)
LastOnEndpoint(fd) ==
  ~\E other \in Registered \ {fd} :
     /\ m_sockets[other].protocol = m_sockets[fd].protocol
     /\ m_sockets[other].port = m_sockets[fd].port

OfEndpoint(packet, fd) ==
  m_sockets[fd].protocol = "Tcp" /\ packet.port = m_sockets[fd].port

\* Mutation: the purge is left out.
PurgeNothing(fd) == m_pending

Purge(fd) ==
  Subsequence(m_pending, {i \in DOMAIN m_pending : ~OfEndpoint(m_pending[i], fd)})

\* History: what is left of the endpoint's packets is old from now on.
Outlived(packets, fd) ==
  [i \in DOMAIN packets |->
     IF OfEndpoint(packets[i], fd) THEN [packets[i] EXCEPT !.old = TRUE]
                                   ELSE packets[i]]

PendingAfter(fd) ==
  IF LastOnEndpoint(fd) THEN Outlived(Purge(fd), fd) ELSE m_pending

\* ProxySocket::Close tells the peer through SendProxyDisconnect, which
\* locks m_mutex.
TellsPeer(fd) == m_sockets[fd].protocol = "Tcp" /\ m_sockets[fd].remote

CloseProxySocket(fd) ==
  /\ m_port_pool' = WithoutPort(m_sockets[fd].protocol, m_sockets[fd].port)
  /\ m_pending' = PendingAfter(fd)
  /\ m_sockets' = [m_sockets EXCEPT ![fd] = NoSocket]

\* The port has been given back when the thread gets stuck.
StuckClosing(t, fd, place) ==
  /\ Goto(t, place)
  /\ m_port_pool' = WithoutPort(m_sockets[fd].protocol, m_sockets[fd].port)
  /\ UNCHANGED <<m_pending, m_sockets>>

-----------------------------------------------------------------------------
(***************************************************************************)
(* Socket and SocketExempt: the real service makes the descriptor, and it  *)
(* is entered into the table.  The descriptors of the other commands are   *)
(* not, and the table's entry of that number stays what it was.            *)
(***************************************************************************)
MakeTracked(t) ==
  /\ pc[t] = "idle" /\ InfoFree
  /\ \E s \in Sessions, fd \in Fds \ OpenFds, protocol \in Protocols :
       /\ open' = [open EXCEPT ![s] = @ \cup {fd}]
       /\ g_socket_info' = [g_socket_info EXCEPT ![fd] =
            [protocol |-> protocol, is_proxy |-> FALSE, session |-> s]]
       /\ adopted' = (adopted \/ fd \in Registered)
  /\ made < MaxDescriptors /\ made' = made + 1
  /\ UNCHANGED <<m_sockets, m_port_pool, m_pending, m_local_ip, pc, cmd, dangling,
                 doomed, oldDelivered>>

MakeUntracked(t) ==
  /\ pc[t] = "idle"
  /\ \E s \in Sessions, fd \in Fds \ OpenFds :
       open' = [open EXCEPT ![s] = @ \cup {fd}]
  /\ made < MaxDescriptors /\ made' = made + 1
  /\ UNCHANGED <<g_socket_info, m_sockets, m_port_pool, m_pending, m_local_ip, pc,
                 cmd, dangling, doomed, adopted, oldDelivered>>

Socket(t) == MakeTracked(t)
SocketExempt(t) == MakeTracked(t)
DuplicateSocket(t) == MakeUntracked(t)
Open(t) == MakeUntracked(t)
Accept(t) == MakeUntracked(t)
EventFd(t) == MakeUntracked(t)

(***************************************************************************)
(* Bind to an LDN address or to INADDR_ANY: create, get a port and bind,   *)
(* mark, deliver.  An untracked descriptor, or another address, is         *)
(* forwarded.                                                              *)
(***************************************************************************)
Bind(t) ==
  /\ pc[t] = "idle" /\ InfoFree /\ ManagerFree
  /\ \E fd \in OpenFds, port \in Ports \cup {NoPort} :
       /\ Tracked(fd) /\ CanCreate(fd)
       /\ m_sockets' = CreateProxySocket(fd, g_socket_info[fd].protocol)
       /\ cmd' = [cmd EXCEPT ![t] = [NoCommand EXCEPT
            !.fd = fd, !.port = port, !.protocol = g_socket_info[fd].protocol]]
  /\ Goto(t, "bindPort")
  /\ UNCHANGED <<open, g_socket_info, m_port_pool, m_pending, m_local_ip, dangling,
                 doomed, history>>

\* The pool's port is not given back when the socket refuses it.
BindPort(t) ==
  /\ pc[t] = "bindPort"
  /\ LET fd == cmd[t].fd
         got == Obtainable(cmd[t].port, cmd[t].protocol)
     IN \/ got = {} /\ Return(t) /\ UNCHANGED <<m_sockets, m_port_pool>>
        \/ \E port \in got, ip \in LdnIps \cup {m_local_ip} :
             /\ ~dangling[t]
             /\ m_port_pool' = WithPort(cmd[t].protocol, port)
             /\ IF m_sockets[fd].bound
                THEN Return(t) /\ UNCHANGED m_sockets
                ELSE /\ m_sockets' = [m_sockets EXCEPT ![fd].bound = TRUE,
                                       ![fd].port = port, ![fd].ip = ip]
                     /\ cmd' = [cmd EXCEPT ![t].port = port]
                     /\ Goto(t, "bindMark")
                     /\ UNCHANGED dangling
  /\ UNCHANGED <<open, g_socket_info, m_pending, m_local_ip, doomed, adopted,
                 oldDelivered, made>>

BindMark(t) ==
  /\ pc[t] = "bindMark" /\ InfoFree
  /\ g_socket_info' = Marked(cmd[t].fd)
  /\ Goto(t, "bindDeliver")
  /\ UNCHANGED <<open, m_sockets, m_port_pool, m_pending, m_local_ip, cmd, dangling,
                 doomed, history>>

(***************************************************************************)
(* DeliverPendingPackets: the packets are in the order of their arrival,   *)
(* so the stale ones are in front.                                         *)
(***************************************************************************)
MatchesBind(packet, t) ==
  /\ cmd[t].protocol = "Tcp" /\ packet.port = cmd[t].port
  /\ m_sockets[cmd[t].fd].ip \in {AnyIp, packet.ip}

BindDeliver(t) ==
  /\ pc[t] = "bindDeliver" /\ ManagerFree
  /\ dangling[t] => m_pending = <<>>
  /\ \E stale \in 0..Len(m_pending) :
       LET fresh == SubSeq(m_pending, stale + 1, Len(m_pending))
       IN /\ m_pending' =
               Subsequence(fresh, {i \in DOMAIN fresh : ~MatchesBind(fresh[i], t)})
          /\ oldDelivered' = (oldDelivered \/ \E i \in DOMAIN fresh :
                                MatchesBind(fresh[i], t) /\ fresh[i].old)
  /\ Return(t)
  /\ UNCHANGED <<tables, m_port_pool, m_local_ip, doomed, adopted, made>>

-----------------------------------------------------------------------------
(***************************************************************************)
(* Connect to an LDN address: the socket is found, or made and bound to a  *)
(* port of the pool and the local address.                                 *)
(***************************************************************************)
\* The copy of the descriptor's entry matters for a new socket only.
Serve(t, fd, new) ==
  cmd' = [cmd EXCEPT ![t].fd = fd,
                     ![t].protocol = IF new THEN g_socket_info[fd].protocol ELSE "none"]

Connect(t) ==
  /\ pc[t] = "idle" /\ InfoFree /\ ManagerFree
  /\ \E fd \in OpenFds :
       /\ Tracked(fd) /\ CanCreate(fd)
       /\ m_sockets' = CreateProxySocket(fd, g_socket_info[fd].protocol)
       /\ Serve(t, fd, fd \notin Registered)
       /\ Goto(t, IF fd \in Registered THEN "connect" ELSE "connectBind")
  /\ UNCHANGED <<open, g_socket_info, m_port_pool, m_pending, m_local_ip, dangling,
                 doomed, history>>

\* The new socket is bound, unless another command has bound it meanwhile.
AutoBind(t, place, refused) ==
  LET fd == cmd[t].fd
      protocol == cmd[t].protocol
  IN \E port \in FreePorts(protocol) :
       /\ ~dangling[t]
       /\ IF m_sockets[fd].bound
          THEN m_port_pool' = refused[port] /\ Return(t) /\ UNCHANGED m_sockets
          ELSE /\ m_port_pool' = WithPort(protocol, port)
               /\ m_sockets' = [m_sockets EXCEPT ![fd].bound = TRUE,
                                  ![fd].port = port, ![fd].ip = m_local_ip]
               /\ cmd' = [cmd EXCEPT ![t].protocol = "none"]
               /\ Goto(t, place) /\ UNCHANGED dangling
       /\ UNCHANGED <<open, g_socket_info, m_pending, m_local_ip, doomed, history>>

ConnectBind(t) ==
  /\ pc[t] = "connectBind"
  /\ \/ /\ FreePorts(cmd[t].protocol) = {} /\ Return(t)
        /\ UNCHANGED <<tables, m_port_pool, m_pending, m_local_ip, doomed, history>>
     \/ AutoBind(t, "connect", [port \in Ports |-> m_port_pool])

\* ProxySocket::Connect.  No callback for ProxyConnect is ever registered: a
\* TCP socket keeps the peer's address, and the command fails unmarked.
ConnectPeer(t) ==
  /\ pc[t] = "connect" /\ ManagerFree
  /\ ~dangling[t] /\ InfoFree
  /\ LET fd == cmd[t].fd
     IN /\ m_sockets' = [m_sockets EXCEPT ![fd].bound = TRUE, ![fd].remote = TRUE]
        /\ g_socket_info' = IF m_sockets[fd].protocol = "Tcp"
                            THEN g_socket_info ELSE Marked(fd)
  /\ Return(t)
  /\ UNCHANGED <<open, m_port_pool, m_pending, m_local_ip, doomed, history>>

(***************************************************************************)
(* SendTo an LDN address: as for Connect, but the descriptor is marked     *)
(* even if no socket or no port was to be had, and a port the socket       *)
(* refuses is not given back.  An untracked descriptor has no proxy.       *)
(***************************************************************************)
SendTo(t) ==
  /\ pc[t] = "idle" /\ InfoFree /\ ManagerFree
  /\ \E fd \in OpenFds :
       LET new == ~Proxied(fd) /\ fd \notin Registered /\ CanCreate(fd)
       IN /\ Tracked(fd)
          /\ m_sockets' = IF new THEN CreateProxySocket(fd, g_socket_info[fd].protocol)
                          ELSE m_sockets
          /\ Serve(t, fd, new)
          /\ Goto(t, IF new THEN "sendBind" ELSE "sendMark")
  /\ UNCHANGED <<open, g_socket_info, m_port_pool, m_pending, m_local_ip, dangling,
                 doomed, history>>

SendBind(t) ==
  /\ pc[t] = "sendBind"
  /\ \/ /\ FreePorts(cmd[t].protocol) = {} /\ Goto(t, "sendMark")
        /\ cmd' = [cmd EXCEPT ![t].protocol = "none"]
        /\ UNCHANGED <<tables, m_port_pool, m_pending, m_local_ip, dangling, doomed,
                       history>>
     \/ AutoBind(t, "sendMark", [port \in Ports |-> WithPort(cmd[t].protocol, port)])

\* The mark, and the socket looked up again: without one, the answer is that
\* the network cannot be reached.
SendMark(t) ==
  /\ pc[t] = "sendMark" /\ InfoFree /\ ManagerFree
  /\ g_socket_info' = Marked(cmd[t].fd)
  /\ IF cmd[t].fd \in Registered
     THEN /\ Goto(t, "use")
          /\ dangling' = [dangling EXCEPT ![t] = FALSE] /\ UNCHANGED cmd
     ELSE Return(t)
  /\ UNCHANGED <<open, m_sockets, m_port_pool, m_pending, m_local_ip, doomed, history>>

-----------------------------------------------------------------------------
(***************************************************************************)
(* The commands that find the proxy of a marked descriptor, release the    *)
(* mutexes and use the pointer; everything else is forwarded.  What they   *)
(* do to the socket itself is module ProxySocket's.                        *)
(***************************************************************************)
Lookup(t, place) ==
  /\ pc[t] = "idle" /\ InfoFree /\ ManagerFree
  /\ \E fd \in OpenFds :
       /\ Proxied(fd) /\ fd \in Registered
       /\ cmd' = [cmd EXCEPT ![t].fd = fd]
  /\ Goto(t, place)
  /\ UNCHANGED <<tables, m_port_pool, m_pending, m_local_ip, dangling, doomed, history>>

Send(t) == Lookup(t, "use")
Write(t) == Lookup(t, "use")
GetPeerName(t) == Lookup(t, "use")
GetSockName(t) == Lookup(t, "use")
GetSockOpt(t) == Lookup(t, "use")
SetSockOpt(t) == Lookup(t, "use")
Ioctl(t) == Lookup(t, "use")
Fcntl(t) == Lookup(t, "use")
Select(t) == Lookup(t, "use")
Poll(t) == Lookup(t, "use")
Recv(t) == Lookup(t, "recv")
RecvFrom(t) == Lookup(t, "recv")
Read(t) == Lookup(t, "recv")

Use(t) ==
  /\ pc[t] = "use" /\ ManagerFree
  /\ ~dangling[t] /\ Return(t)
  /\ UNCHANGED <<tables, m_port_pool, m_pending, m_local_ip, doomed, history>>

\* A datagram, an error, or a wait for data.
Receive(t) ==
  /\ pc[t] = "recv" /\ ~dangling[t]
  /\ \/ Return(t)
     \/ Goto(t, "blocked") /\ UNCHANGED <<cmd, dangling>>
  /\ UNCHANGED <<tables, m_port_pool, m_pending, m_local_ip, doomed, history>>

-----------------------------------------------------------------------------
(***************************************************************************)
(* Close.                                                                  *)
(***************************************************************************)
Close(t) ==
  /\ pc[t] = "idle" /\ InfoFree
  /\ \E s \in Sessions : \E fd \in open[s] :
       \/ /\ Proxied(fd) /\ fd \in Registered /\ ManagerFree /\ TellsPeer(fd)
          /\ StuckClosing(t, fd, "stuckInClose")
          /\ UNCHANGED <<open, g_socket_info, dangling>>
       \/ /\ Proxied(fd) => ManagerFree
          /\ IF Proxied(fd) /\ fd \in Registered
             THEN ~TellsPeer(fd) /\ CloseProxySocket(fd) /\ Dangle({fd})
             ELSE UNCHANGED <<m_sockets, m_port_pool, m_pending, dangling>>
          /\ g_socket_info' = [g_socket_info EXCEPT ![fd] = NoInfo]
          /\ open' = [open EXCEPT ![s] = @ \ {fd}]
          /\ UNCHANGED pc
  /\ UNCHANGED <<m_local_ip, cmd, doomed, history>>

(***************************************************************************)
(* ~BsdMitmService, when no command of the session is being served.        *)
(***************************************************************************)
Idle(s) == \A t \in Threads : cmd[t].fd \notin open[s] /\ cmd[t].session # s

Destroy(t) ==
  /\ pc[t] = "idle" /\ InfoFree
  /\ \E s \in Sessions :
       LET mine == {fd \in Fds : g_socket_info[fd].session = s}
       IN /\ open[s] # {} /\ Idle(s)
          /\ doomed' = [doomed EXCEPT ![t] = {fd \in mine : Proxied(fd)}]
          /\ g_socket_info' = [fd \in Fds |-> IF fd \in mine THEN NoInfo
                                                           ELSE g_socket_info[fd]]
          /\ cmd' = [cmd EXCEPT ![t].session = s]
  /\ Goto(t, "destroy")
  /\ UNCHANGED <<open, m_sockets, m_port_pool, m_pending, m_local_ip, dangling, history>>

DestroyNext(t) ==
  /\ pc[t] = "destroy" /\ ManagerFree
  /\ \E fd \in doomed[t] :
       /\ doomed' = [doomed EXCEPT ![t] = @ \ {fd}]
       /\ \/ fd \notin Registered
             /\ UNCHANGED <<m_sockets, m_port_pool, m_pending, dangling, pc>>
          \/ /\ fd \in Registered /\ ~TellsPeer(fd)
             /\ CloseProxySocket(fd) /\ Dangle({fd}) /\ UNCHANGED pc
          \/ /\ fd \in Registered /\ TellsPeer(fd)
             /\ StuckClosing(t, fd, "stuck") /\ UNCHANGED dangling
  /\ UNCHANGED <<open, g_socket_info, m_local_ip, cmd, history>>

\* The forward session is closed, and with it the real descriptors.
DestroyEnd(t) ==
  /\ pc[t] = "destroy" /\ doomed[t] = {}
  /\ open' = [open EXCEPT ![cmd[t].session] = {}]
  /\ Return(t)
  /\ UNCHANGED <<g_socket_info, m_sockets, m_port_pool, m_pending, m_local_ip, doomed,
                 history>>

-----------------------------------------------------------------------------
(***************************************************************************)
(* The LDN side: ProxySocketManager::Reset when a session of ldn:u ends,   *)
(* SetLocalIp when the server has given an address, RouteIncomingData.     *)
(***************************************************************************)
Reset(t) ==
  /\ pc[t] = "idle" /\ ManagerFree
  /\ IF \E fd \in Registered : TellsPeer(fd)
     THEN /\ Goto(t, "stuck")
          /\ UNCHANGED <<m_sockets, m_port_pool, m_pending, m_local_ip, dangling>>
     ELSE /\ m_sockets' = [fd \in Fds |-> NoSocket]
          /\ m_port_pool' = [p \in Protocols |-> {}]
          /\ m_pending' = <<>> /\ m_local_ip' = AnyIp
          /\ Dangle(Registered)
          /\ UNCHANGED pc
  /\ UNCHANGED <<open, g_socket_info, cmd, doomed, history>>

SetLocalIp ==
  /\ ManagerFree
  /\ \E ip \in LdnIps \ {m_local_ip} :
       /\ m_local_ip' = ip
       /\ m_pending' = IF m_local_ip = AnyIp THEN m_pending ELSE <<>>
  /\ UNCHANGED <<tables, m_port_pool, pc, cmd, dangling, doomed, history>>

\* FindAllSocketsByDestination: for one address, one socket, bound to it
\* rather than to any; for a broadcast, every socket of the port.
OnPort(protocol, port) ==
  {fd \in Registered : m_sockets[fd].protocol = protocol /\ m_sockets[fd].port = port}

UnicastTargets(protocol, port, ip) ==
  LET at(a) == {fd \in OnPort(protocol, port) : m_sockets[fd].ip = a}
  IN {{fd} : fd \in IF at(ip) # {} THEN at(ip) ELSE at(AnyIp)}

BroadcastTargets(protocol, port) ==
  {fds \in SUBSET OnPort(protocol, port) :
     Cardinality(fds) = IF Cardinality(OnPort(protocol, port)) <= MaxTargets
                        THEN Cardinality(OnPort(protocol, port)) ELSE MaxTargets}

\* IncomingData releases who waits on the socket (if nobody does, nothing
\* changes here).
Delivered(fds) ==
  LET woken == {t \in Threads : /\ pc[t] = "blocked" /\ ~dangling[t]
                                /\ cmd[t].fd \in fds}
  IN /\ woken # {}
     /\ pc' = [t \in Threads |-> IF t \in woken THEN "idle" ELSE pc[t]]
     /\ cmd' = [t \in Threads |-> IF t \in woken THEN NoCommand ELSE cmd[t]]

\* Mutation: the ring has no limit.
BufferedUnbounded(packet) == Append(m_pending, packet)

\* The oldest pending packet makes room.
Buffered(packet) ==
  Append(IF Len(m_pending) >= MaxPendingPackets THEN Tail(m_pending) ELSE m_pending,
         packet)

RouteUnicast ==
  /\ ManagerFree
  /\ \E protocol \in Protocols, port \in Ports, ip \in LdnIps :
       LET targets == UnicastTargets(protocol, port, ip)
       IN \/ /\ targets = {} /\ protocol = "Tcp"
             /\ m_pending' = Buffered([port |-> port, ip |-> ip, old |-> FALSE])
             /\ UNCHANGED <<pc, cmd>>
          \/ \E fds \in targets : Delivered(fds) /\ UNCHANGED m_pending
  /\ UNCHANGED <<tables, m_port_pool, m_local_ip, dangling, doomed, history>>

RouteBroadcast ==
  /\ ManagerFree
  /\ \E port \in Ports : \E fds \in BroadcastTargets("Udp", port) : Delivered(fds)
  /\ UNCHANGED <<tables, m_port_pool, m_pending, m_local_ip, dangling, doomed, history>>

-----------------------------------------------------------------------------
ThreadNext(t) ==
  \/ Socket(t) \/ SocketExempt(t) \/ DuplicateSocket(t) \/ Open(t) \/ Accept(t)
  \/ EventFd(t) \/ Bind(t) \/ BindPort(t) \/ BindMark(t)
  \/ BindDeliver(t) \/ Connect(t) \/ ConnectBind(t) \/ ConnectPeer(t)
  \/ SendTo(t) \/ SendBind(t) \/ SendMark(t)
  \/ Send(t) \/ Write(t) \/ GetPeerName(t) \/ GetSockName(t) \/ GetSockOpt(t)
  \/ SetSockOpt(t) \/ Ioctl(t) \/ Fcntl(t) \/ Select(t) \/ Poll(t)
  \/ Recv(t) \/ RecvFrom(t) \/ Read(t) \/ Use(t) \/ Receive(t)
  \/ Close(t) \/ Destroy(t) \/ DestroyNext(t) \/ DestroyEnd(t) \/ Reset(t)

Next ==
  \/ SetLocalIp \/ RouteUnicast \/ RouteBroadcast
  \/ \E t \in Threads : ThreadNext(t)

Spec == Init /\ [][Next]_vars

-----------------------------------------------------------------------------
(* Two proxy sockets of a protocol never have the same ephemeral port, and *)
(* the port of a registered socket is marked in the pool, so that it is    *)
(* not given out again: Bind, Connect and SendTo take ports, Close, the    *)
(* destructor and Reset give them back, on two threads.  Two things break  *)
(* it and are excepted: a descriptor that inherits a socket of its number, *)
(* whose protocol may be another, and a thread stuck in Close.             *)
PortsUnique ==
  ~adopted /\ ManagerFree =>
    \A fd \in Registered :
      m_sockets[fd].port \in EphemeralPorts =>
        /\ m_sockets[fd].port \in m_port_pool[m_sockets[fd].protocol]
        /\ LastOnEndpoint(fd)

(* "stale traffic from a previous phase doesn't get delivered after fast   *)
(* port reuse" (CloseProxySocket): a pending packet never reaches a socket *)
(* that was bound after the last one on its port was closed.               *)
OldNeverDelivered == ~oldDelivered

(* "Thread-safe" (CloseProxySocket, Reset): no thread locks m_mutex while  *)
(* it holds it.                                                            *)
NoSelfDeadlock == ManagerFree

(* "Returns nullptr if fd already has a proxy socket" (CreateProxySocket): *)
(* no descriptor starts its life with a socket that another one left.      *)
NoInheritedSocket == ~adopted
=============================================================================

--------------------------- MODULE BsdMitmProofs ---------------------------
(***************************************************************************)
(* That two proxy sockets never share an ephemeral port, and that no       *)
(* pending packet reaches a socket bound after its port was closed, for    *)
(* any number of threads, sessions, descriptors, ports and packets.        *)
(***************************************************************************)
EXTENDS BsdMitm, FiniteSetTheorems, SequenceTheorems, WellFoundedInduction, TLAPS

(***************************************************************************)
(* The inductive invariant.  A thread that holds a pointer which does not  *)
(* dangle holds that of a registered socket, and one that is about to bind *)
(* it remembers its protocol; the table and the registry agree on it, as   *)
(* long as no descriptor has inherited a socket.                           *)
(***************************************************************************)
Binding == {"bindPort", "connectBind", "sendBind"}
Pointing == Binding \cup {"bindMark", "bindDeliver", "connect", "use", "recv", "blocked"}
Points(t) ==
  /\ pc[t] \in Pointing \cup {"sendMark"} => cmd[t].fd \in Fds
  /\ pc[t] \in Pointing /\ ~dangling[t] => m_sockets[cmd[t].fd] # NoSocket
  /\ pc[t] \in Binding => cmd[t].protocol \in Protocols
  /\ pc[t] \in Binding /\ ~dangling[t] /\ ~adopted =>
       m_sockets[cmd[t].fd].protocol = cmd[t].protocol
PointsToSocket == \A t \in Threads : Points(t)
SameProtocol ==
  ~adopted =>
    \A fd \in Fds : m_sockets[fd] # NoSocket /\ g_socket_info[fd] # NoInfo =>
                      m_sockets[fd].protocol = g_socket_info[fd].protocol

(***************************************************************************)
(* CloseProxySocket purges all packets of an endpoint that goes, so none   *)
(* that is pending has outlived its port.                                  *)
(***************************************************************************)
NoneOutlived == \A i \in DOMAIN m_pending : ~m_pending[i].old
Inv == TypeOK /\ PointsToSocket /\ SameProtocol /\ PortsUnique /\ NoneOutlived
       /\ OldNeverDelivered

USE BsdMitmAssumption

-----------------------------------------------------------------------------
(***************************************************************************)
(* Subsequence: its entries are those at the given positions, each once.   *)
(***************************************************************************)
LEMMA Least ==
  ASSUME NEW T \in SUBSET Nat, T # {}
  PROVE  \E m \in T : \A k \in T : m <= k
<1>1. \E m \in T : \A k \in T : <<k, m>> \notin OpToRel(<, Nat)
  BY NatLessThanWellFounded, WFMin
<1>2. PICK m \in T : \A k \in T : <<k, m>> \notin OpToRel(<, Nat)
  BY <1>1
<1>3. ASSUME NEW k \in T PROVE m <= k
  <2>1. SUFFICES ASSUME k < m PROVE FALSE
    OBVIOUS
  <2>2. <<k, m>> \in Nat \X Nat /\ <<k, m>>[1] = k /\ <<k, m>>[2] = m
    OBVIOUS
  <2>3. <<k, m>> \in {ss \in Nat \X Nat : ss[1] < ss[2]}
    BY <2>1, <2>2
  <2>4. <<k, m>> \in OpToRel(<, Nat)
    BY <2>3 DEF OpToRel
  <2>5. QED
    BY <1>2, <2>4
<1>4. QED
  BY <1>3

\* The j-th position is one of the positions, and j of them are up to it.
LEMMA NthIs ==
  ASSUME NEW n \in Nat, NEW P \in SUBSET (1..n), NEW j \in 1..Cardinality(P)
  PROVE  Nth(P, j) \in P /\ Cardinality(UpTo(P, Nth(P, j))) = j
<1>1. IsFiniteSet(P) /\ Cardinality(P) \in Nat
  <2>1. IsFiniteSet(1..n)
    BY FS_Interval
  <2>2. QED
    BY <2>1, FS_Subset, FS_CardinalityType
<1>10. \A k \in P : k \in Nat /\ 1 <= k /\ k <= n
  OBVIOUS
<1>2. ASSUME NEW i \in Nat
      PROVE  IsFiniteSet(UpTo(P, i)) /\ Cardinality(UpTo(P, i)) \in Nat
  BY <1>1, FS_Subset, FS_CardinalityType DEF UpTo
<1> DEFINE T == {i \in Nat : j <= Cardinality(UpTo(P, i))}
<1>3. n \in T
  <2>1. UpTo(P, n) = P
    BY <1>10 DEF UpTo
  <2>2. QED
    BY <2>1
<1>4. PICK m \in T : \A k \in T : m <= k
  BY <1>3, Least
<1>5. m # 0
  <2>1. UpTo(P, 0) = {}
    <3>1. \A k \in P : ~(k <= 0)
      BY <1>10
    <3>2. QED
      BY <3>1, Zenon DEF UpTo
  <2>2. Cardinality(UpTo(P, 0)) = 0
    BY <2>1, FS_EmptySet
  <2>3. QED
    BY <2>2
<1>6. m - 1 \in Nat /\ Cardinality(UpTo(P, m - 1)) < j
  <2>1. m - 1 \in Nat /\ m - 1 \notin T
    BY <1>4, <1>5
  <2>2. QED
    BY <2>1, <1>2
<1>7. m \in P
  <2>1. SUFFICES ASSUME m \notin P PROVE FALSE
    OBVIOUS
  <2>2. UpTo(P, m) = UpTo(P, m - 1)
    <3>1. \A k \in P : k <= m <=> k <= m - 1
      BY <1>10, <1>6, <2>1
    <3>2. QED
      BY <3>1, Zenon DEF UpTo
  <2>3. QED
    BY <1>2, <1>6, <2>2
<1>8. Cardinality(UpTo(P, m)) = j
  <2>1. UpTo(P, m) = UpTo(P, m - 1) \cup {m} /\ m \notin UpTo(P, m - 1)
    <3>1. \A k \in P : k <= m <=> k <= m - 1 \/ k = m
      BY <1>10, <1>6, <1>7
    <3>2. ~(m <= m - 1)
      BY <1>6
    <3>3. QED
      BY <1>7, <3>1, <3>2, Zenon DEF UpTo
  <2>2. Cardinality(UpTo(P, m)) = Cardinality(UpTo(P, m - 1)) + 1
    BY <1>2, <1>6, <2>1, FS_AddElement
  <2>3. QED
    BY <1>2, <1>6, <2>2
<1>9. QED
  BY <1>7, <1>8 DEF Nth

\* A subsequence has the entries of the sequence at the chosen positions, each once.
LEMMA SubsequenceIs ==
  ASSUME NEW S, NEW s \in Seq(S), NEW P \in SUBSET (DOMAIN s)
  PROVE  /\ Subsequence(s, P) \in Seq(S) /\ Len(Subsequence(s, P)) <= Len(s)
         /\ \A j \in DOMAIN Subsequence(s, P) :
              Nth(P, j) \in P /\ Subsequence(s, P)[j] = s[Nth(P, j)]
         /\ \A j, k \in DOMAIN Subsequence(s, P) : Nth(P, j) = Nth(P, k) => j = k
<1>1. Len(s) \in Nat /\ DOMAIN s = 1..Len(s) /\ s \in [1..Len(s) -> S]
  BY LenProperties
<1>2. IsFiniteSet(P) /\ Cardinality(P) \in Nat /\ Cardinality(P) <= Len(s)
  <2>1. IsFiniteSet(1..Len(s)) /\ Cardinality(1..Len(s)) = Len(s)
    <3>1. 1 \in Int /\ Len(s) \in Int
      BY <1>1
    <3>2. Cardinality(1..Len(s)) = IF 1 > Len(s) THEN 0 ELSE Len(s) - 1 + 1
      BY <3>1, FS_Interval
    <3>3. QED
      BY <1>1, <3>1, <3>2, FS_Interval
  <2>2. QED
    BY <1>1, <2>1, FS_Subset, FS_CardinalityType
<1>3. ASSUME NEW j \in 1..Cardinality(P)
      PROVE  Nth(P, j) \in P /\ Cardinality(UpTo(P, Nth(P, j))) = j
  BY <1>1, NthIs
<1>4. Subsequence(s, P) \in [1..Cardinality(P) -> S]
  BY <1>1, <1>3 DEF Subsequence
<1>5. Subsequence(s, P) \in Seq(S) /\ Len(Subsequence(s, P)) = Cardinality(P)
  <2>1. Subsequence(s, P) \in Seq(S)
    BY <1>2, <1>4, SeqDef
  <2>2. QED
    BY <1>2, <1>4, <2>1, LenProperties
<1>6. QED
  BY <1>2, <1>3, <1>4, <1>5 DEF Subsequence

-----------------------------------------------------------------------------
(***************************************************************************)
(* The types of what the tables hold.                                      *)
(***************************************************************************)
Command == [fd : Fds \cup {"none"}, port : Ports \cup {NoPort},
            protocol : Protocols \cup {"none"}, session : Sessions \cup {"none"}]
Packet == [port : Ports, ip : LdnIps, old : BOOLEAN]

\* A socket is registered exactly if it has a protocol; a new one has no port.
LEMMA SocketFacts ==
  /\ \A s \in Socket_ \cup {NoSocket} : s # NoSocket <=> s.protocol \in Protocols
  /\ \A s \in Socket_ \cup {NoSocket} : s # NoSocket => s \in Socket_
  /\ NoSocket.port = NoPort /\ NoSocket.protocol \notin Protocols
  /\ \A p \in Protocols : /\ NewSocket(p) \in Socket_ /\ NewSocket(p) # NoSocket
                          /\ NewSocket(p).protocol = p /\ NewSocket(p).port = NoPort
<1>1. NoSocket.protocol \notin Protocols /\ NoSocket.port = NoPort
  BY DEF NoSocket, Protocols
<1>2. \A s \in Socket_ : s.protocol \in Protocols
  BY DEF Socket_
<1>3. ASSUME NEW p \in Protocols
      PROVE  /\ NewSocket(p) \in Socket_
             /\ NewSocket(p).protocol = p /\ NewSocket(p).port = NoPort
  BY DEF Socket_, NoSocket, NewSocket
<1>4. QED
  BY <1>1, <1>2, <1>3

\* What the table has of a tracked descriptor.
LEMMA InfoFacts ==
  /\ \A s \in Info \cup {NoInfo} : s # NoInfo => s \in Info /\ s.protocol \in Protocols
  /\ NoInfo.is_proxy = FALSE
BY DEF Info, NoInfo, Protocols

\* No port and no address are outside of the ports and the addresses.
LEMMA CommandFacts ==
  /\ NoCommand \in Command /\ NoPort \notin Ports /\ AnyIp \notin LdnIps
  /\ EphemeralPorts \subseteq Ports
BY DEF NoCommand, Command, Ports

(***************************************************************************)
(* TypeOK in these words.                                                  *)
(***************************************************************************)
LEMMA TypeOKIs ==
  TypeOK <=>
    /\ open \in [Sessions -> SUBSET Fds]
    /\ g_socket_info \in [Fds -> Info \cup {NoInfo}]
    /\ m_sockets \in [Fds -> Socket_ \cup {NoSocket}]
    /\ m_port_pool \in [Protocols -> SUBSET EphemeralPorts]
    /\ m_pending \in Seq(Packet) /\ Len(m_pending) <= MaxPendingPackets
    /\ m_local_ip \in LdnIps \cup {AnyIp}
    /\ pc \in [Threads -> Pc] /\ cmd \in [Threads -> Command]
    /\ dangling \in [Threads -> BOOLEAN] /\ doomed \in [Threads -> SUBSET Fds]
    /\ adopted \in BOOLEAN /\ oldDelivered \in BOOLEAN /\ made \in 0..MaxDescriptors
BY Zenon DEF TypeOK, Command, Packet

\* An empty ring is one.
LEMMA NonePending == <<>> \in Seq(Packet) /\ Len(<<>>) <= MaxPendingPackets
<1>1. <<>> \in Seq(Packet) /\ Len(<<>>) = 0
  BY EmptySeq
<1>2. 0 <= MaxPendingPackets
  OBVIOUS
<1>3. QED
  BY <1>1, <1>2

\* Nothing is open, registered or pending at first.
LEMMA InitInv == Init => Inv
<1> SUFFICES ASSUME Init PROVE Inv
  OBVIOUS
<1>1. TypeOK
  <2>1. m_pending \in Seq(Packet) /\ Len(m_pending) <= MaxPendingPackets
    BY EmptySeq DEF Init
  <2>2. pc \in [Threads -> Pc] /\ cmd \in [Threads -> Command]
    BY CommandFacts DEF Init, Pc
  <2>3. m_local_ip \in LdnIps \cup {AnyIp} /\ made \in 0..MaxDescriptors
    BY DEF Init
  <2>4. QED
    BY <2>1, <2>2, <2>3, TypeOKIs DEF Init
<1>2. PointsToSocket
  BY DEF Init, PointsToSocket, Points, Pointing, Binding
<1>3. SameProtocol /\ NoneOutlived /\ OldNeverDelivered
  BY DEF Init, SameProtocol, NoneOutlived, OldNeverDelivered
<1>4. PortsUnique
  BY DEF Init, PortsUnique, Registered
<1>5. QED
  BY <1>1, <1>2, <1>3, <1>4 DEF Inv

-----------------------------------------------------------------------------
(***************************************************************************)
(* Where a thread goes and that its command returns.                       *)
(***************************************************************************)
LEMMA GotoType ==
  ASSUME TypeOK, NEW t \in Threads, NEW place \in Pc, Goto(t, place)
  PROVE  pc' \in [Threads -> Pc]
BY DEF TypeOK, Goto

\* A command that returns leaves its thread typed.
LEMMA ReturnType ==
  ASSUME TypeOK, NEW t \in Threads, Return(t)
  PROVE  /\ pc' \in [Threads -> Pc] /\ cmd' \in [Threads -> Command]
         /\ dangling' \in [Threads -> BOOLEAN]
<1>1. "idle" \in Pc
  BY DEF Pc
<1>2. cmd \in [Threads -> Command] /\ pc \in [Threads -> Pc] /\ dangling \in [Threads -> BOOLEAN]
  BY TypeOKIs
<1>3. QED
  BY <1>1, <1>2, CommandFacts DEF Return, Goto

(***************************************************************************)
(* The registry and the pool after a socket is made, bound and closed.     *)
(***************************************************************************)
LEMMA CreateType ==
  ASSUME TypeOK, NEW fd \in Fds, NEW p \in Protocols
  PROVE  CreateProxySocket(fd, p) \in [Fds -> Socket_ \cup {NoSocket}]
BY TypeOKIs, SocketFacts DEF CreateProxySocket

\* Bind on a registered socket leaves a registered socket.
LEMMA BoundType ==
  ASSUME TypeOK, NEW fd \in Fds, m_sockets[fd] # NoSocket, NEW port \in Ports \cup {NoPort},
         NEW ip \in LdnIps \cup {AnyIp}
  PROVE  [m_sockets EXCEPT ![fd].bound = TRUE, ![fd].port = port, ![fd].ip = ip]
           \in [Fds -> Socket_ \cup {NoSocket}]
<1>1. m_sockets \in [Fds -> Socket_ \cup {NoSocket}] /\ m_sockets[fd] \in Socket_
  BY TypeOKIs, SocketFacts
<1>2. [m_sockets[fd] EXCEPT !.bound = TRUE, !.port = port, !.ip = ip] \in Socket_
  BY <1>1 DEF Socket_
<1>3. [m_sockets EXCEPT ![fd].bound = TRUE, ![fd].port = port, ![fd].ip = ip]
        = [m_sockets EXCEPT
             ![fd] = [m_sockets[fd] EXCEPT !.bound = TRUE, !.port = port, !.ip = ip]]
  BY <1>1
<1>4. QED
  BY <1>1, <1>2, <1>3

\* Only ephemeral ports are marked in the pool.
LEMMA PoolType ==
  ASSUME TypeOK, NEW p \in Protocols \cup {"none"}, NEW port
  PROVE  /\ WithPort(p, port) \in [Protocols -> SUBSET EphemeralPorts]
         /\ WithoutPort(p, port) \in [Protocols -> SUBSET EphemeralPorts]
BY TypeOKIs DEF WithPort, WithoutPort

\* Marking keeps the entry of the table.
LEMMA MarkedType ==
  ASSUME TypeOK, NEW fd \in Fds
  PROVE  Marked(fd) \in [Fds -> Info \cup {NoInfo}]
<1>1. g_socket_info \in [Fds -> Info \cup {NoInfo}]
  BY TypeOKIs
<1>2. CASE g_socket_info[fd] = NoInfo
  BY <1>1, <1>2 DEF Marked, Tracked
<1>3. CASE g_socket_info[fd] # NoInfo
  <2>1. [g_socket_info[fd] EXCEPT !.is_proxy = TRUE] \in Info
    BY <1>1, <1>3, InfoFacts DEF Info
  <2>2. QED
    BY <1>1, <1>3, <2>1 DEF Marked, Tracked
<1>4. QED
  BY <1>2, <1>3

(***************************************************************************)
(* The pending packets after a purge, and that none of them is old.        *)
(***************************************************************************)
LEMMA PurgeIs ==
  ASSUME TypeOK, NoneOutlived, NEW fd \in Fds
  PROVE  /\ PendingAfter(fd) \in Seq(Packet) /\ Len(PendingAfter(fd)) <= MaxPendingPackets
         /\ \A i \in DOMAIN PendingAfter(fd) : ~PendingAfter(fd)[i].old
<1> DEFINE kept == {i \in DOMAIN m_pending : ~OfEndpoint(m_pending[i], fd)}
<1>1. m_pending \in Seq(Packet) /\ Len(m_pending) <= MaxPendingPackets
  BY TypeOKIs
<1>2. /\ Purge(fd) \in Seq(Packet) /\ Len(Purge(fd)) <= Len(m_pending)
      /\ \A j \in DOMAIN Purge(fd) : Nth(kept, j) \in kept /\ Purge(fd)[j] = m_pending[Nth(kept, j)]
  <2>1. kept \in SUBSET (DOMAIN m_pending)
    OBVIOUS
  <2>2. Purge(fd) = Subsequence(m_pending, kept)
    BY DEF Purge
  <2> HIDE DEF kept
  <2>3. QED
    BY <1>1, <2>1, <2>2, SubsequenceIs
<1>3. \A j \in DOMAIN Purge(fd) : ~OfEndpoint(Purge(fd)[j], fd) /\ ~Purge(fd)[j].old
  BY <1>2 DEF NoneOutlived
<1>4. Outlived(Purge(fd), fd) = Purge(fd)
  <2>1. Outlived(Purge(fd), fd) = [i \in DOMAIN Purge(fd) |-> Purge(fd)[i]]
    BY <1>3, Zenon DEF Outlived
  <2>2. Purge(fd) = [i \in DOMAIN Purge(fd) |-> Purge(fd)[i]]
    BY <1>2
  <2>3. QED
    BY <2>1, <2>2
<1>5. Len(Purge(fd)) \in Nat /\ Len(m_pending) \in Nat
  BY <1>1, <1>2
<1>6. CASE LastOnEndpoint(fd)
  BY <1>1, <1>2, <1>3, <1>4, <1>5, <1>6 DEF PendingAfter
<1>7. CASE ~LastOnEndpoint(fd)
  BY <1>1, <1>7 DEF PendingAfter, NoneOutlived
<1>8. QED
  BY <1>6, <1>7

-----------------------------------------------------------------------------
(***************************************************************************)
(* TypeOK, one command after the other.                                    *)
(***************************************************************************)
LEMMA MakeType ==
  ASSUME TypeOK, NEW t \in Threads, MakeTracked(t) \/ MakeUntracked(t)
  PROVE  TypeOK'
<1> USE DEF history, tables
<1>1. made' \in 0..MaxDescriptors
  BY DEF TypeOK, MakeTracked, MakeUntracked
<1>2. open' \in [Sessions -> SUBSET Fds]
  BY TypeOKIs DEF MakeTracked, MakeUntracked
<1>3. g_socket_info' \in [Fds -> Info \cup {NoInfo}]
  <2>1. CASE UNCHANGED g_socket_info
    BY <2>1, TypeOKIs
  <2>2. CASE \E s \in Sessions, fd \in Fds, protocol \in Protocols :
               g_socket_info' = [g_socket_info EXCEPT ![fd] =
                 [protocol |-> protocol, is_proxy |-> FALSE, session |-> s]]
    <3>1. PICK s \in Sessions, fd \in Fds, protocol \in Protocols :
            g_socket_info' = [g_socket_info EXCEPT ![fd] =
              [protocol |-> protocol, is_proxy |-> FALSE, session |-> s]]
      BY <2>2
    <3>2. [protocol |-> protocol, is_proxy |-> FALSE, session |-> s] \in Info
      BY DEF Info
    <3>3. QED
      BY <3>1, <3>2, TypeOKIs
  <2>3. QED
    BY <2>1, <2>2 DEF MakeTracked, MakeUntracked
<1>4. adopted' \in BOOLEAN
  BY TypeOKIs, Zenon DEF MakeTracked, MakeUntracked
<1>5. UNCHANGED <<m_sockets, m_port_pool, m_pending, m_local_ip, pc, cmd, dangling, doomed,
                  oldDelivered>>
  BY DEF MakeTracked, MakeUntracked
<1>6. QED
  BY <1>1, <1>2, <1>3, <1>4, <1>5, Zenon DEF TypeOK

\* Bind, Connect and SendTo up to the creation of the socket.
LEMMA CreateStepType ==
  ASSUME TypeOK, NEW t \in Threads, Bind(t) \/ Connect(t) \/ SendTo(t)
  PROVE  TypeOK'
<1> USE DEF history, tables
<1>1. UNCHANGED <<open, g_socket_info, m_port_pool, m_pending, m_local_ip, dangling, doomed,
                  adopted, oldDelivered, made>>
  BY DEF Bind, Connect, SendTo
<1>2. OpenFds \subseteq Fds
  BY TypeOKIs DEF OpenFds
<1>3. \A fd \in Fds : Tracked(fd) => g_socket_info[fd].protocol \in Protocols
  BY TypeOKIs, InfoFacts DEF Tracked
<1>4. pc' \in [Threads -> Pc]
  BY TypeOKIs DEF Bind, Connect, SendTo, Goto, Pc
<1>5. m_sockets' \in [Fds -> Socket_ \cup {NoSocket}]
  <2>1. \A fd \in OpenFds : Tracked(fd) =>
          CreateProxySocket(fd, g_socket_info[fd].protocol) \in [Fds -> Socket_ \cup {NoSocket}]
    BY <1>2, <1>3, CreateType
  <2>2. m_sockets \in [Fds -> Socket_ \cup {NoSocket}]
    BY TypeOKIs
  <2>3. QED
    BY <2>1, <2>2 DEF Bind, Connect, SendTo
<1>6. cmd' \in [Threads -> Command]
  <2>1. cmd \in [Threads -> Command]
    BY TypeOKIs
  <2>2. CASE Bind(t)
    <3>1. PICK fd \in OpenFds, port \in Ports \cup {NoPort} :
            /\ Tracked(fd)
            /\ cmd' = [cmd EXCEPT ![t] = [NoCommand EXCEPT
                 !.fd = fd, !.port = port, !.protocol = g_socket_info[fd].protocol]]
      BY <2>2 DEF Bind
    <3>2. [NoCommand EXCEPT !.fd = fd, !.port = port, !.protocol = g_socket_info[fd].protocol]
            \in Command
      BY <1>2, <1>3, <3>1 DEF Command, NoCommand
    <3>3. QED
      BY <2>1, <3>1, <3>2
  <2>3. CASE Connect(t) \/ SendTo(t)
    <3>1. PICK fd \in OpenFds : Tracked(fd) /\ \E new \in BOOLEAN : Serve(t, fd, new)
      BY <2>3 DEF Connect, SendTo
    <3>2. PICK p \in Protocols \cup {"none"} :
            cmd' = [cmd EXCEPT ![t].fd = fd, ![t].protocol = p]
      BY <1>2, <1>3, <3>1 DEF Serve
    <3>3. [cmd[t] EXCEPT !.fd = fd, !.protocol = p] \in Command
      BY <1>2, <2>1, <3>1, <3>2 DEF Command
    <3>4. cmd' = [cmd EXCEPT ![t] = [cmd[t] EXCEPT !.fd = fd, !.protocol = p]]
      BY <2>1, <3>2
    <3>5. QED
      BY <2>1, <3>3, <3>4
  <2>4. QED
    BY <2>2, <2>3
<1>7. QED
  BY <1>1, <1>4, <1>5, <1>6, Zenon DEF TypeOK, Command

\* A command whose port, protocol or session is overwritten is still a command.
LEMMA CommandEdit ==
  ASSUME cmd \in [Threads -> Command], NEW t \in Threads
  PROVE  /\ \A port \in Ports \cup {NoPort} :
              cmd' = [cmd EXCEPT ![t].port = port] => cmd' \in [Threads -> Command]
         /\ cmd' = [cmd EXCEPT ![t].protocol = "none"] => cmd' \in [Threads -> Command]
         /\ \A s \in Sessions : cmd' = [cmd EXCEPT ![t].session = s]
                                => cmd' \in [Threads -> Command]
<1>1. cmd[t] \in Command
  OBVIOUS
<1>2. ASSUME NEW port \in Ports \cup {NoPort}, cmd' = [cmd EXCEPT ![t].port = port]
      PROVE  cmd' \in [Threads -> Command]
  <2>1. [cmd[t] EXCEPT !.port = port] \in Command
    BY <1>1 DEF Command
  <2>2. cmd' = [cmd EXCEPT ![t] = [cmd[t] EXCEPT !.port = port]]
    BY <1>2
  <2>3. QED
    BY <2>1, <2>2
<1>3. ASSUME cmd' = [cmd EXCEPT ![t].protocol = "none"]
      PROVE  cmd' \in [Threads -> Command]
  <2>1. [cmd[t] EXCEPT !.protocol = "none"] \in Command
    BY <1>1 DEF Command
  <2>2. cmd' = [cmd EXCEPT ![t] = [cmd[t] EXCEPT !.protocol = "none"]]
    BY <1>3
  <2>3. QED
    BY <2>1, <2>2
<1>4. ASSUME NEW s \in Sessions, cmd' = [cmd EXCEPT ![t].session = s]
      PROVE  cmd' \in [Threads -> Command]
  <2>1. [cmd[t] EXCEPT !.session = s] \in Command
    BY <1>1 DEF Command
  <2>2. cmd' = [cmd EXCEPT ![t] = [cmd[t] EXCEPT !.session = s]]
    BY <1>4, SMTT(30)
  <2>3. QED
    BY <2>1, <2>2
<1>5. QED
  BY <1>2, <1>3, <1>4

\* Bind gets its port.
LEMMA BindPortType ==
  ASSUME TypeOK, PointsToSocket, NEW t \in Threads, BindPort(t)
  PROVE  TypeOK'
<1>1. UNCHANGED <<open, g_socket_info, m_pending, m_local_ip, doomed, adopted, oldDelivered, made>>
  BY DEF BindPort
<1>2. CASE Return(t) /\ UNCHANGED <<m_sockets, m_port_pool>>
  BY <1>1, <1>2, ReturnType, Zenon DEF TypeOK, Command
<1>3. ASSUME NEW port \in Obtainable(cmd[t].port, cmd[t].protocol),
             NEW ip \in LdnIps \cup {m_local_ip},
             ~dangling[t], m_port_pool' = WithPort(cmd[t].protocol, port),
             IF m_sockets[cmd[t].fd].bound
             THEN Return(t) /\ UNCHANGED m_sockets
             ELSE /\ m_sockets' = [m_sockets EXCEPT ![cmd[t].fd].bound = TRUE,
                                    ![cmd[t].fd].port = port, ![cmd[t].fd].ip = ip]
                  /\ cmd' = [cmd EXCEPT ![t].port = port]
                  /\ Goto(t, "bindMark")
                  /\ UNCHANGED dangling
      PROVE  TypeOK'
  <2>1. /\ cmd[t].fd \in Fds /\ m_sockets[cmd[t].fd] # NoSocket /\ cmd[t].protocol \in Protocols
    BY <1>3 DEF BindPort, PointsToSocket, Points, Pointing, Binding
  <2>2. port \in Ports \cup {NoPort} /\ ip \in LdnIps \cup {AnyIp}
    BY <1>3, <2>1, TypeOKIs, CommandFacts DEF Obtainable, FreePorts, Reservable, Command
  <2>3. m_port_pool' \in [Protocols -> SUBSET EphemeralPorts]
    BY <1>3, <2>1, PoolType
  <2>4. CASE Return(t) /\ UNCHANGED m_sockets
    BY <1>1, <2>3, <2>4, ReturnType, Zenon DEF TypeOK, Command
  <2>5. CASE /\ m_sockets' = [m_sockets EXCEPT ![cmd[t].fd].bound = TRUE,
                               ![cmd[t].fd].port = port, ![cmd[t].fd].ip = ip]
             /\ cmd' = [cmd EXCEPT ![t].port = port]
             /\ Goto(t, "bindMark")
             /\ UNCHANGED dangling
    <3>1. m_sockets' \in [Fds -> Socket_ \cup {NoSocket}]
      BY <2>1, <2>2, <2>5, BoundType
    <3>2. pc' \in [Threads -> Pc]
      BY <2>5, GotoType DEF Pc
    <3>3. cmd' \in [Threads -> Command]
      BY <2>2, <2>5, CommandEdit, TypeOKIs
    <3>4. QED
      BY <1>1, <2>3, <2>5, <3>1, <3>2, <3>3, ZenonT(40) DEF TypeOK, Command
  <2>6. QED
    BY <1>3, <2>4, <2>5, ZenonT(40)
<1>4. QED
  BY <1>2, <1>3 DEF BindPort

\* Connect and SendTo bind the socket they have made.
LEMMA AutoBindType ==
  ASSUME TypeOK, PointsToSocket, NEW t \in Threads, pc[t] \in Binding, NEW place \in Pc,
         NEW refused, \A port \in Ports : refused[port] \in [Protocols -> SUBSET EphemeralPorts],
         AutoBind(t, place, refused)
  PROVE  TypeOK'
<1> DEFINE fd == cmd[t].fd
           protocol == cmd[t].protocol
<1>1. PICK port \in FreePorts(protocol) :
       /\ ~dangling[t]
       /\ IF m_sockets[fd].bound
          THEN m_port_pool' = refused[port] /\ Return(t) /\ UNCHANGED m_sockets
          ELSE /\ m_port_pool' = WithPort(protocol, port)
               /\ m_sockets' = [m_sockets EXCEPT ![fd].bound = TRUE,
                                  ![fd].port = port, ![fd].ip = m_local_ip]
               /\ cmd' = [cmd EXCEPT ![t].protocol = "none"]
               /\ Goto(t, place) /\ UNCHANGED dangling
       /\ UNCHANGED <<open, g_socket_info, m_pending, m_local_ip, doomed, history>>
  BY DEF AutoBind
<1>2. fd \in Fds /\ m_sockets[fd] # NoSocket /\ protocol \in Protocols
  BY <1>1 DEF PointsToSocket, Points, Pointing
<1>3. port \in Ports /\ m_local_ip \in LdnIps \cup {AnyIp}
  BY <1>1, TypeOKIs, CommandFacts DEF FreePorts
<1>4. UNCHANGED <<open, g_socket_info, m_pending, m_local_ip, doomed, adopted, oldDelivered, made>>
  BY <1>1 DEF history
<1>5. CASE m_port_pool' = refused[port] /\ Return(t) /\ UNCHANGED m_sockets
  BY <1>3, <1>4, <1>5, ReturnType, Zenon DEF TypeOK, Command
<1>6. CASE /\ m_port_pool' = WithPort(protocol, port)
           /\ m_sockets' = [m_sockets EXCEPT ![fd].bound = TRUE,
                              ![fd].port = port, ![fd].ip = m_local_ip]
           /\ cmd' = [cmd EXCEPT ![t].protocol = "none"]
           /\ Goto(t, place) /\ UNCHANGED dangling
  <2>1. m_port_pool' \in [Protocols -> SUBSET EphemeralPorts]
    BY <1>2, <1>6, PoolType, SMTT(30)
  <2>2. m_sockets' \in [Fds -> Socket_ \cup {NoSocket}]
    BY <1>2, <1>3, <1>6, BoundType
  <2>3. pc' \in [Threads -> Pc]
    BY <1>6, GotoType
  <2>4. cmd' \in [Threads -> Command]
    BY <1>6, CommandEdit, TypeOKIs
  <2>5. QED
    BY <1>4, <1>6, <2>1, <2>2, <2>3, <2>4, Zenon DEF TypeOK, Command
<1>7. QED
  BY <1>1, <1>5, <1>6

\* The same, with the cases that find no port.
LEMMA OtherBindType ==
  ASSUME TypeOK, PointsToSocket, NEW t \in Threads, ConnectBind(t) \/ SendBind(t)
  PROVE  TypeOK'
<1> USE DEF history, tables
<1>1. "connect" \in Pc /\ "sendMark" \in Pc /\ pc[t] \in Binding
  BY DEF Pc, ConnectBind, SendBind, Binding
<1>2. CASE Return(t) /\ UNCHANGED <<tables, m_port_pool, m_pending, m_local_ip, doomed, history>>
  BY <1>2, ReturnType, Zenon DEF TypeOK, Command
<1>3. CASE /\ Goto(t, "sendMark") /\ cmd' = [cmd EXCEPT ![t].protocol = "none"]
           /\ UNCHANGED <<tables, m_port_pool, m_pending, m_local_ip, dangling, doomed, history>>
  <2>1. cmd' \in [Threads -> Command]
    BY <1>3, CommandEdit, TypeOKIs
  <2>2. pc' \in [Threads -> Pc]
    BY <1>1, <1>3, GotoType
  <2>3. QED
    BY <1>3, <2>1, <2>2, Zenon DEF TypeOK, Command
<1>4. CASE AutoBind(t, "connect", [port \in Ports |-> m_port_pool])
  <2>1. \A port \in Ports :
          [p \in Ports |-> m_port_pool][port] \in [Protocols -> SUBSET EphemeralPorts]
    BY TypeOKIs
  <2>2. QED
    BY <1>1, <1>4, <2>1, AutoBindType
<1>5. CASE AutoBind(t, "sendMark", [port \in Ports |-> WithPort(cmd[t].protocol, port)])
  <2>1. \A port \in Ports : [p \in Ports |-> WithPort(cmd[t].protocol, p)][port]
                              \in [Protocols -> SUBSET EphemeralPorts]
    BY <1>1, PoolType DEF PointsToSocket, Points
  <2>2. QED
    BY <1>1, <1>5, <2>1, AutoBindType
<1>6. QED
  BY <1>2, <1>3, <1>4, <1>5 DEF ConnectBind, SendBind

\* The descriptor is marked.
LEMMA MarkType ==
  ASSUME TypeOK, PointsToSocket, NEW t \in Threads, BindMark(t) \/ SendMark(t) \/ ConnectPeer(t)
  PROVE  TypeOK'
<1> USE DEF history, tables
<1>1. cmd[t].fd \in Fds
  BY DEF PointsToSocket, Points, Pointing, Binding, BindMark, SendMark, ConnectPeer
<1>2. g_socket_info' \in [Fds -> Info \cup {NoInfo}]
  BY <1>1, MarkedType, TypeOKIs DEF BindMark, SendMark, ConnectPeer
<1>3. UNCHANGED <<open, m_port_pool, m_pending, m_local_ip, doomed, adopted, oldDelivered, made>>
  BY DEF BindMark, SendMark, ConnectPeer
<1>4. m_sockets' \in [Fds -> Socket_ \cup {NoSocket}]
  <2>1. CASE BindMark(t) \/ SendMark(t)
    BY <2>1, TypeOKIs DEF BindMark, SendMark
  <2>2. CASE ConnectPeer(t)
    <3>1. m_sockets \in [Fds -> Socket_ \cup {NoSocket}] /\ m_sockets[cmd[t].fd] # NoSocket
      BY <2>2, TypeOKIs DEF ConnectPeer, PointsToSocket, Points, Pointing
    <3>2. [m_sockets[cmd[t].fd] EXCEPT !.bound = TRUE, !.remote = TRUE] \in Socket_
      <4>1. m_sockets[cmd[t].fd] \in Socket_
        BY <1>1, <3>1, SocketFacts
      <4>2. QED
        BY <4>1 DEF Socket_
    <3>3. m_sockets' = [m_sockets EXCEPT ![cmd[t].fd] =
                          [m_sockets[cmd[t].fd] EXCEPT !.bound = TRUE, !.remote = TRUE]]
      BY <1>1, <2>2, <3>1 DEF ConnectPeer
    <3>4. QED
      BY <3>1, <3>2, <3>3
  <2>3. QED
    BY <2>1, <2>2
<1>5. /\ pc' \in [Threads -> Pc] /\ cmd' \in [Threads -> Command]
      /\ dangling' \in [Threads -> BOOLEAN]
  <2>1. CASE Return(t)
    BY <2>1, ReturnType
  <2>2. CASE ~Return(t)
    <3>1. \E place \in Pc : Goto(t, place)
      BY <2>2 DEF BindMark, SendMark, ConnectPeer, Pc
    <3>2. cmd' \in [Threads -> Command] /\ dangling' \in [Threads -> BOOLEAN]
      BY <2>2, TypeOKIs DEF BindMark, SendMark, ConnectPeer
    <3>3. QED
      BY <3>1, <3>2, GotoType
  <2>3. QED
    BY <2>1, <2>2
<1>6. QED
  BY <1>2, <1>3, <1>4, <1>5, Zenon DEF TypeOK, Command

(***************************************************************************)
(* What BindDeliver leaves pending was pending.                            *)
(***************************************************************************)
LEMMA DeliverIs ==
  ASSUME TypeOK, NoneOutlived, OldNeverDelivered, NEW t \in Threads, BindDeliver(t)
  PROVE  /\ m_pending' \in Seq(Packet) /\ Len(m_pending') <= MaxPendingPackets
         /\ NoneOutlived' /\ OldNeverDelivered'
<1>1. m_pending \in Seq(Packet) /\ Len(m_pending) <= MaxPendingPackets /\ Len(m_pending) \in Nat
  BY TypeOKIs
<1>2. PICK stale \in 0..Len(m_pending) :
        LET fresh == SubSeq(m_pending, stale + 1, Len(m_pending))
        IN /\ m_pending' = Subsequence(fresh, {i \in DOMAIN fresh : ~MatchesBind(fresh[i], t)})
           /\ oldDelivered' = (oldDelivered \/ \E i \in DOMAIN fresh :
                                 MatchesBind(fresh[i], t) /\ fresh[i].old)
  BY DEF BindDeliver
<1> DEFINE fresh == SubSeq(m_pending, stale + 1, Len(m_pending))
           kept == {i \in DOMAIN fresh : ~MatchesBind(fresh[i], t)}
<1>3. \A i \in stale + 1..Len(m_pending) : m_pending[i] \in Packet /\ ~m_pending[i].old
  BY <1>1 DEF NoneOutlived
<1>4. /\ fresh \in Seq(Packet)
      /\ Len(fresh) = IF stale + 1 <= Len(m_pending) THEN Len(m_pending) - (stale + 1) + 1 ELSE 0
      /\ \A i \in 1..Len(m_pending) - (stale + 1) + 1 : fresh[i] = m_pending[stale + 1 + i - 1]
  <2>1. stale + 1 \in Int /\ Len(m_pending) \in Int
    BY <1>1
  <2>2. QED
    BY <1>3, <2>1, SubSeqProperties
<1>5. Len(fresh) <= Len(m_pending) /\ Len(fresh) \in Nat /\ DOMAIN fresh = 1..Len(fresh)
  BY <1>1, <1>4
<1>6. \A i \in DOMAIN fresh : ~fresh[i].old
  <2>1. SUFFICES ASSUME NEW i \in DOMAIN fresh PROVE ~fresh[i].old
    OBVIOUS
  <2>2. i \in 1..Len(m_pending) - (stale + 1) + 1
        /\ stale + 1 + i - 1 \in stale + 1..Len(m_pending)
    BY <1>1, <1>4, <1>5
  <2>3. QED
    BY <1>3, <1>4, <2>2
<1>7. kept \in SUBSET (DOMAIN fresh)
  OBVIOUS
<1>8. m_pending' = Subsequence(fresh, kept)
  BY <1>2
<1>9. /\ m_pending' \in Seq(Packet) /\ Len(m_pending') <= Len(fresh)
      /\ \A j \in DOMAIN m_pending' : Nth(kept, j) \in kept /\ m_pending'[j] = fresh[Nth(kept, j)]
  <2> HIDE DEF fresh, kept
  <2>1. QED
    BY <1>4, <1>7, <1>8, SubsequenceIs
<1>10. Len(m_pending') \in Nat
  BY <1>9
<1>11. \A j \in DOMAIN m_pending' : ~m_pending'[j].old
  BY <1>6, <1>7, <1>9
<1>12. ~oldDelivered'
  BY <1>2, <1>6 DEF OldNeverDelivered
<1>13. QED
  BY <1>1, <1>5, <1>9, <1>10, <1>11, <1>12 DEF NoneOutlived, OldNeverDelivered

\* The commands that look a socket up and use it.
LEMMA UseType ==
  ASSUME Inv, NEW t \in Threads,
         BindDeliver(t) \/ Lookup(t, "use") \/ Lookup(t, "recv") \/ Use(t) \/ Receive(t)
  PROVE  TypeOK'
<1> USE DEF history, tables
<1>1. TypeOK
  BY DEF Inv
<1>2. CASE BindDeliver(t)
  <2>1. m_pending' \in Seq(Packet) /\ Len(m_pending') <= MaxPendingPackets /\ OldNeverDelivered'
    BY <1>2, DeliverIs DEF Inv
  <2>2. /\ pc' \in [Threads -> Pc] /\ cmd' \in [Threads -> Command]
        /\ dangling' \in [Threads -> BOOLEAN]
    BY <1>1, <1>2, ReturnType DEF BindDeliver
  <2>3. UNCHANGED <<open, g_socket_info, m_sockets, m_port_pool, m_local_ip, doomed, adopted, made>>
    BY <1>2 DEF BindDeliver
  <2>4. oldDelivered' \in BOOLEAN
    BY <1>2 DEF BindDeliver
  <2>5. QED
    BY <1>1, <2>1, <2>2, <2>3, <2>4, Zenon DEF TypeOK, Command, Packet
<1>3. CASE Lookup(t, "use") \/ Lookup(t, "recv")
  <2>1. pc' \in [Threads -> Pc]
    BY <1>1, <1>3, GotoType DEF Lookup, Pc
  <2>2. cmd' \in [Threads -> Command]
    <3>1. PICK fd \in Fds : cmd' = [cmd EXCEPT ![t].fd = fd]
      BY <1>3 DEF Lookup, Registered
    <3>2. cmd \in [Threads -> Command]
      BY <1>1, TypeOKIs
    <3>3. QED
      BY <3>1, <3>2 DEF Command
  <2>3. QED
    BY <1>1, <1>3, <2>1, <2>2, Zenon DEF Lookup, TypeOK, Command
<1>4. CASE (Use(t) \/ Receive(t)) /\ Return(t)
  BY <1>1, <1>4, ReturnType, Zenon DEF Use, Receive, TypeOK, Command
<1>5. CASE Receive(t) /\ ~Return(t)
  <2>1. pc' \in [Threads -> Pc]
    BY <1>1, <1>5, GotoType DEF Receive, Pc
  <2>2. QED
    BY <1>1, <1>5, <2>1, Zenon DEF Receive, TypeOK
<1>6. QED
  BY <1>2, <1>3, <1>4, <1>5 DEF Use

\* Close, and the closing of what a session leaves.
LEMMA CloseType ==
  ASSUME Inv, NEW t \in Threads, Close(t) \/ DestroyNext(t)
  PROVE  TypeOK'
<1> USE DEF history, tables
<1>1. TypeOK /\ NoneOutlived
  BY DEF Inv
<1>2. UNCHANGED <<m_local_ip, cmd, adopted, oldDelivered, made>>
  BY DEF Close, DestroyNext
<1>3. \A fd \in Fds : m_sockets[fd].protocol \in Protocols \cup {"none"}
  BY <1>1, TypeOKIs DEF Socket_, NoSocket
<1>4. PICK fd \in Fds :
        \/ /\ m_port_pool' = WithoutPort(m_sockets[fd].protocol, m_sockets[fd].port)
           /\ \/ UNCHANGED <<m_pending, m_sockets>>
              \/ /\ m_pending' = PendingAfter(fd)
                 /\ m_sockets' = [m_sockets EXCEPT ![fd] = NoSocket]
        \/ UNCHANGED <<m_sockets, m_port_pool, m_pending>>
  <2>1. CASE Close(t)
    <3>1. PICK s \in Sessions : \E fd \in open[s] :
             \/ StuckClosing(t, fd, "stuckInClose") \/ CloseProxySocket(fd)
             \/ UNCHANGED <<m_sockets, m_port_pool, m_pending>>
      BY <2>1 DEF Close
    <3>2. open[s] \subseteq Fds
      BY <1>1, TypeOKIs
    <3>3. QED
      BY <3>1, <3>2 DEF StuckClosing, CloseProxySocket
  <2>2. CASE DestroyNext(t)
    <3>1. doomed[t] \subseteq Fds
      BY <1>1, TypeOKIs
    <3>2. QED
      BY <2>2, <3>1 DEF DestroyNext, StuckClosing, CloseProxySocket
  <2>3. QED
    BY <2>1, <2>2
<1>5. m_port_pool' \in [Protocols -> SUBSET EphemeralPorts]
  <2>1. m_port_pool \in [Protocols -> SUBSET EphemeralPorts]
    BY <1>1, TypeOKIs
  <2>2. WithoutPort(m_sockets[fd].protocol, m_sockets[fd].port)
          \in [Protocols -> SUBSET EphemeralPorts]
    BY <1>1, <1>3, PoolType
  <2>3. QED
    BY <1>4, <2>1, <2>2
<1>6. m_sockets' \in [Fds -> Socket_ \cup {NoSocket}]
  BY <1>1, <1>4, TypeOKIs
<1>7. m_pending' \in Seq(Packet) /\ Len(m_pending') <= MaxPendingPackets
  BY <1>1, <1>4, PurgeIs, TypeOKIs
<1>8. pc' \in [Threads -> Pc] /\ dangling' \in [Threads -> BOOLEAN]
  <2>1. pc' = pc \/ Goto(t, "stuck") \/ Goto(t, "stuckInClose")
    BY DEF Close, DestroyNext, StuckClosing
  <2>2. dangling' = dangling \/ \E fds : Dangle(fds)
    BY DEF Close, DestroyNext
  <2>3. dangling' \in [Threads -> BOOLEAN]
    BY <1>1, <2>2, TypeOKIs DEF Dangle
  <2>4. "stuck" \in Pc /\ "stuckInClose" \in Pc
    BY DEF Pc
  <2>5. QED
    BY <1>1, <2>1, <2>3, <2>4, GotoType, TypeOKIs
<1>9. open' \in [Sessions -> SUBSET Fds] /\ doomed' \in [Threads -> SUBSET Fds]
  <2>1. open \in [Sessions -> SUBSET Fds] /\ doomed \in [Threads -> SUBSET Fds]
    BY <1>1, TypeOKIs
  <2>2. UNCHANGED open \/ \E s \in Sessions, x \in Fds : open' = [open EXCEPT ![s] = @ \ {x}]
    BY <2>1 DEF Close, DestroyNext
  <2>3. UNCHANGED doomed \/ \E x \in Fds : doomed' = [doomed EXCEPT ![t] = @ \ {x}]
    BY <2>1 DEF Close, DestroyNext
  <2>4. QED
    BY <2>1, <2>2, <2>3
<1>10. g_socket_info' \in [Fds -> Info \cup {NoInfo}]
  BY <1>1, TypeOKIs DEF Close, DestroyNext
<1>11. QED
  BY <1>1, <1>2, <1>5, <1>6, <1>7, <1>8, <1>9, <1>10, Zenon DEF TypeOK, Packet

\* The end of a session, and Reset.
LEMMA EndType ==
  ASSUME TypeOK, NEW t \in Threads, Destroy(t) \/ DestroyEnd(t) \/ Reset(t)
  PROVE  TypeOK'
<1> USE DEF history, tables
<1>1. CASE Destroy(t)
  <2>1. pc' \in [Threads -> Pc]
    BY <1>1, GotoType DEF Destroy, Pc
  <2>2. PICK s \in Sessions :
          LET mine == {fd \in Fds : g_socket_info[fd].session = s}
          IN /\ doomed' = [doomed EXCEPT ![t] = {fd \in mine : Proxied(fd)}]
             /\ g_socket_info' = [fd \in Fds |-> IF fd \in mine THEN NoInfo
                                                              ELSE g_socket_info[fd]]
             /\ cmd' = [cmd EXCEPT ![t].session = s]
    BY <1>1 DEF Destroy
  <2>3. cmd' \in [Threads -> Command]
    BY <2>2, CommandEdit, TypeOKIs
  <2>4. doomed' \in [Threads -> SUBSET Fds] /\ g_socket_info' \in [Fds -> Info \cup {NoInfo}]
    BY <2>2, TypeOKIs
  <2>5. QED
    BY <1>1, <2>1, <2>3, <2>4, Zenon DEF Destroy, TypeOK, Command
<1>2. CASE DestroyEnd(t)
  <2>1. open' \in [Sessions -> SUBSET Fds]
    BY <1>2, TypeOKIs DEF DestroyEnd
  <2>2. QED
    BY <1>2, <2>1, ReturnType, Zenon DEF DestroyEnd, TypeOK, Command
<1>3. CASE Reset(t)
  <2>1. m_pending' \in Seq(Packet) /\ Len(m_pending') <= MaxPendingPackets
    BY <1>3, TypeOKIs, NonePending DEF Reset
  <2>2. /\ m_sockets' \in [Fds -> Socket_ \cup {NoSocket}]
        /\ m_port_pool' \in [Protocols -> SUBSET EphemeralPorts]
        /\ m_local_ip' \in LdnIps \cup {AnyIp}
    BY <1>3, TypeOKIs DEF Reset
  <2>3. pc' \in [Threads -> Pc]
    BY <1>3, TypeOKIs DEF Reset, Goto, Pc
  <2>4. dangling' \in [Threads -> BOOLEAN]
    BY <1>3, TypeOKIs DEF Reset, Dangle
  <2>5. UNCHANGED <<open, g_socket_info, cmd, doomed, history>>
    BY <1>3 DEF Reset
  <2>6. QED
    BY <2>1, <2>2, <2>3, <2>4, <2>5, Zenon DEF TypeOK, Packet
<1>4. QED
  BY <1>1, <1>2, <1>3

\* The side of the LDN server.
LEMMA RouteType ==
  ASSUME TypeOK, SetLocalIp \/ RouteUnicast \/ RouteBroadcast
  PROVE  TypeOK'
<1> USE DEF history, tables
<1>1. UNCHANGED <<open, g_socket_info, m_sockets, m_port_pool, dangling, doomed, history>>
  BY DEF SetLocalIp, RouteUnicast, RouteBroadcast
<1>2. m_local_ip' \in LdnIps \cup {AnyIp}
  BY TypeOKIs DEF SetLocalIp, RouteUnicast, RouteBroadcast
<1>3. pc' \in [Threads -> Pc] /\ cmd' \in [Threads -> Command]
  <2>1. (pc' = pc /\ cmd' = cmd) \/ \E fds : Delivered(fds)
    BY DEF SetLocalIp, RouteUnicast, RouteBroadcast
  <2>2. "idle" \in Pc
    BY DEF Pc
  <2>3. QED
    BY <2>1, <2>2, TypeOKIs, CommandFacts DEF Delivered
<1>4. m_pending' \in Seq(Packet) /\ Len(m_pending') <= MaxPendingPackets
  <2>1. m_pending \in Seq(Packet) /\ Len(m_pending) <= MaxPendingPackets /\ Len(m_pending) \in Nat
    BY TypeOKIs
  <2>2. CASE m_pending' = m_pending \/ m_pending' = <<>>
    BY <2>1, <2>2, NonePending
  <2>3. CASE \E port \in Ports, ip \in LdnIps :
               m_pending' = Buffered([port |-> port, ip |-> ip, old |-> FALSE])
    <3>1. PICK packet \in Packet : m_pending' = Buffered(packet)
      BY <2>3 DEF Packet
    <3>2. CASE Len(m_pending) >= MaxPendingPackets
      <4>1. m_pending # <<>>
        BY <2>1, <3>2
      <4>2. Tail(m_pending) \in Seq(Packet) /\ Len(Tail(m_pending)) = Len(m_pending) - 1
        BY <2>1, <4>1, HeadTailProperties
      <4>3. m_pending' = Append(Tail(m_pending), packet)
        BY <3>1, <3>2 DEF Buffered
      <4>4. QED
        BY <2>1, <4>2, <4>3, AppendProperties
    <3>3. CASE ~(Len(m_pending) >= MaxPendingPackets)
      <4>1. m_pending' = Append(m_pending, packet)
        BY <3>1, <3>3 DEF Buffered
      <4>2. QED
        BY <2>1, <3>3, <4>1, AppendProperties
    <3>4. QED
      BY <3>2, <3>3
  <2>4. QED
    BY <2>2, <2>3 DEF SetLocalIp, RouteUnicast, RouteBroadcast
<1>5. QED
  BY <1>1, <1>2, <1>3, <1>4, Zenon DEF TypeOK, Command, Packet

-----------------------------------------------------------------------------
(***************************************************************************)
(* The other conjuncts.  What a step leaves alone: nobody but t moves, no  *)
(* socket is destroyed or changes its protocol, no socket gets a port.     *)
(***************************************************************************)
OnlyMoves(t) ==
  \A u \in Threads \ {t} : pc'[u] = pc[u] /\ cmd'[u] = cmd[u] /\ dangling'[u] = dangling[u]
SocketsStay ==
  \A fd \in Fds : m_sockets[fd] # NoSocket =>
    m_sockets'[fd] # NoSocket /\ m_sockets'[fd].protocol = m_sockets[fd].protocol
NoPortTaken ==
  \A fd \in Fds : \/ m_sockets'[fd] = NoSocket \/ m_sockets'[fd].port = NoPort
                  \/ /\ m_sockets[fd] # NoSocket
                     /\ m_sockets'[fd].protocol = m_sockets[fd].protocol
                     /\ m_sockets'[fd].port = m_sockets[fd].port
PoolGrows == \A p \in Protocols : m_port_pool[p] \subseteq m_port_pool'[p]
InfoKept ==
  \A fd \in Fds : \/ g_socket_info'[fd] = NoInfo
                  \/ /\ g_socket_info[fd] # NoInfo
                     /\ g_socket_info'[fd].protocol = g_socket_info[fd].protocol
Monotone == (ManagerFree' => ManagerFree) /\ (~adopted' => ~adopted)

(***************************************************************************)
(* PortsUnique, without the sets of descriptors.                           *)
(***************************************************************************)
Allocated(fd) == m_sockets[fd] # NoSocket /\ m_sockets[fd].port \in EphemeralPorts
DistinctPorts ==
  \A fd \in Fds : Allocated(fd) =>
    /\ m_sockets[fd].port \in m_port_pool[m_sockets[fd].protocol]
    /\ \A other \in Fds :
         /\ m_sockets[other] # NoSocket
         /\ m_sockets[other].protocol = m_sockets[fd].protocol
         /\ m_sockets[other].port = m_sockets[fd].port
         => other = fd
\* The same statement.
LEMMA PortsUniqueIs == PortsUnique <=> (~adopted /\ ManagerFree => DistinctPorts)
BY Zenon DEF PortsUnique, DistinctPorts, Allocated, Registered, LastOnEndpoint

(***************************************************************************)
(* A step in which sockets only go, or are made without a port, and no     *)
(* port leaves the pool, keeps PortsUnique.                                *)
(***************************************************************************)
LEMMA PortsKept ==
  ASSUME TypeOK, TypeOK', PortsUnique, Monotone, NoPortTaken, PoolGrows
  PROVE  PortsUnique'
<1>1. SUFFICES ASSUME ~adopted', ManagerFree' PROVE DistinctPorts'
  BY PortsUniqueIs, PTL
<1>2. DistinctPorts
  BY <1>1, PortsUniqueIs DEF Monotone
<1>3. ASSUME NEW fd \in Fds, Allocated(fd)'
      PROVE  /\ Allocated(fd) /\ m_sockets'[fd].protocol = m_sockets[fd].protocol
             /\ m_sockets'[fd].port = m_sockets[fd].port
             /\ m_sockets[fd].protocol \in Protocols
  <2>1. m_sockets'[fd].port # NoPort
    BY <1>3, CommandFacts DEF Allocated
  <2>2. m_sockets[fd] # NoSocket => m_sockets[fd].protocol \in Protocols
    BY TypeOKIs, SocketFacts
  <2>3. QED
    BY <1>3, <2>1, <2>2 DEF Allocated, NoPortTaken
<1>4. QED
  BY <1>2, <1>3 DEF DistinctPorts, Allocated, PoolGrows

(***************************************************************************)
(* A port that was free in the pool is nobody else's.                      *)
(***************************************************************************)
LEMMA PortTaken ==
  ASSUME TypeOK, TypeOK', PortsUnique, Monotone, NEW fd \in Fds, m_sockets[fd] # NoSocket,
         NEW p \in Protocols, ~adopted => m_sockets[fd].protocol = p,
         NEW port, port \in EphemeralPorts => port \notin m_port_pool[p],
         m_port_pool' = WithPort(p, port), NEW ip,
         m_sockets' = [m_sockets EXCEPT ![fd].bound = TRUE, ![fd].port = port, ![fd].ip = ip]
  PROVE  PortsUnique'
<1>1. SUFFICES ASSUME ~adopted', ManagerFree' PROVE DistinctPorts'
  BY PortsUniqueIs, PTL
<1>2. DistinctPorts /\ m_sockets[fd].protocol = p
  BY <1>1, PortsUniqueIs DEF Monotone
<1>3. /\ m_sockets \in [Fds -> Socket_ \cup {NoSocket}] /\ m_sockets[fd] \in Socket_
      /\ m_port_pool \in [Protocols -> SUBSET EphemeralPorts]
  BY TypeOKIs, SocketFacts
<1>4. m_sockets'[fd].protocol = p /\ m_sockets'[fd].port = port
  BY <1>2, <1>3 DEF Socket_
<1>5. \A x \in Fds \ {fd} : m_sockets'[x] = m_sockets[x]
  BY <1>3
<1>6. \A x \in Fds : m_sockets[x] # NoSocket => m_sockets[x].protocol \in Protocols
  BY <1>3, SocketFacts
<1>7. /\ \A q \in Protocols : m_port_pool[q] \subseteq m_port_pool'[q]
      /\ port \in EphemeralPorts => port \in m_port_pool'[p]
  BY <1>3 DEF WithPort
<1>8. ASSUME NEW x \in Fds \ {fd}, m_sockets[x] # NoSocket, m_sockets[x].protocol = p,
             m_sockets[x].port = port, port \in EphemeralPorts
      PROVE  FALSE
  BY <1>2, <1>8 DEF DistinctPorts, Allocated
<1>9. ASSUME NEW x \in Fds, Allocated(x)', NEW y \in Fds, m_sockets'[y] # NoSocket,
             m_sockets'[y].protocol = m_sockets'[x].protocol,
             m_sockets'[y].port = m_sockets'[x].port
      PROVE  y = x
  <2>1. CASE x = fd
    BY <1>4, <1>5, <1>8, <1>9, <2>1 DEF Allocated
  <2>2. CASE y = fd
    BY <1>4, <1>5, <1>8, <1>9, <2>2 DEF Allocated
  <2>3. CASE x # fd /\ y # fd
    BY <1>2, <1>5, <1>9, <2>3 DEF Allocated, DistinctPorts
  <2>4. QED
    BY <2>1, <2>2, <2>3
<1>10. ASSUME NEW x \in Fds, Allocated(x)'
       PROVE  m_sockets'[x].port \in m_port_pool'[m_sockets'[x].protocol]
  <2>1. CASE x = fd
    BY <1>4, <1>7, <1>10, <2>1 DEF Allocated
  <2>2. CASE x # fd
    BY <1>2, <1>5, <1>6, <1>7, <1>10, <2>2 DEF Allocated, DistinctPorts
  <2>3. QED
    BY <2>1, <2>2
<1>11. QED
  BY <1>9, <1>10 DEF DistinctPorts

(***************************************************************************)
(* CloseProxySocket gives back the port of the only socket that has it.    *)
(***************************************************************************)
LEMMA PortGivenBack ==
  ASSUME TypeOK, TypeOK', PortsUnique, Monotone, NEW fd \in Fds, m_sockets[fd] # NoSocket,
         m_port_pool' = WithoutPort(m_sockets[fd].protocol, m_sockets[fd].port),
         m_sockets' = [m_sockets EXCEPT ![fd] = NoSocket]
  PROVE  PortsUnique'
<1>1. SUFFICES ASSUME ~adopted', ManagerFree' PROVE DistinctPorts'
  BY PortsUniqueIs, PTL
<1>2. DistinctPorts
  BY <1>1, PortsUniqueIs DEF Monotone
<1>3. /\ m_sockets \in [Fds -> Socket_ \cup {NoSocket}]
      /\ m_port_pool \in [Protocols -> SUBSET EphemeralPorts]
  BY TypeOKIs
<1>4. m_sockets'[fd] = NoSocket /\ \A x \in Fds \ {fd} : m_sockets'[x] = m_sockets[x]
  BY <1>3
<1>5. \A x \in Fds : m_sockets[x] # NoSocket => m_sockets[x].protocol \in Protocols
  BY <1>3, SocketFacts
<1>6. ASSUME NEW x \in Fds \ {fd}, Allocated(x)
      PROVE  m_sockets[x].port \in m_port_pool'[m_sockets[x].protocol]
  <2>1. m_sockets[x].port \in m_port_pool[m_sockets[x].protocol]
    BY <1>2, <1>6 DEF DistinctPorts
  <2>2. ~(/\ m_sockets[x].protocol = m_sockets[fd].protocol
          /\ m_sockets[x].port = m_sockets[fd].port)
    BY <1>2, <1>6 DEF DistinctPorts
  <2>3. QED
    BY <1>3, <1>5, <1>6, <2>1, <2>2 DEF WithoutPort, Allocated
<1>7. QED
  BY <1>2, <1>4, <1>6 DEF DistinctPorts, Allocated

(***************************************************************************)
(* A step of one thread that destroys no socket.                           *)
(***************************************************************************)
LEMMA PointsKept ==
  ASSUME TypeOK, PointsToSocket, Monotone, NEW t \in Threads, OnlyMoves(t), SocketsStay,
         Points(t)'
  PROVE  PointsToSocket'
<1>1. ASSUME NEW u \in Threads \ {t} PROVE Points(u)'
  BY DEF PointsToSocket, Points, OnlyMoves, SocketsStay, Monotone, Pointing
<1>2. QED
  BY <1>1 DEF PointsToSocket

\* A step that makes no socket and no entry keeps table and registry in agreement.
LEMMA ProtocolKept ==
  ASSUME TypeOK, SameProtocol, Monotone, InfoKept,
         \A fd \in Fds : \/ m_sockets'[fd] = NoSocket
                         \/ /\ m_sockets[fd] # NoSocket
                            /\ m_sockets'[fd].protocol = m_sockets[fd].protocol
  PROVE  SameProtocol'
BY DEF SameProtocol, InfoKept, Monotone

(***************************************************************************)
(* A thread that is stuck takes no step.                                   *)
(***************************************************************************)
LEMMA StuckStays ==
  ASSUME TypeOK, NEW t \in Threads, OnlyMoves(t), pc[t] \notin {"stuck", "stuckInClose"},
         ~adopted' => ~adopted
  PROVE  Monotone
BY DEF OnlyMoves, Monotone, ManagerFree

\* A command that returns moves one thread, which holds no pointer any more.
LEMMA ReturnMoves ==
  ASSUME TypeOK, NEW t \in Threads, Return(t)
  PROVE  OnlyMoves(t) /\ Points(t)'
<1>1. pc'[t] = "idle" /\ OnlyMoves(t)
  BY DEF TypeOK, Return, Goto, OnlyMoves
<1>2. QED
  BY <1>1 DEF Points, Pointing, Binding

(***************************************************************************)
(* What the registry has to keep for the three conjuncts about it.         *)
(***************************************************************************)
Safe == PointsToSocket /\ SameProtocol /\ PortsUnique

\* A step that only moves one thread keeps all three.
LEMMA StepKeeps ==
  ASSUME Inv, TypeOK', NEW t \in Threads, OnlyMoves(t), Points(t)', UNCHANGED adopted,
         pc[t] \notin {"stuck", "stuckInClose"}, InfoKept, PoolGrows, SocketsStay,
         \A fd \in Fds : \/ m_sockets'[fd] = NoSocket
                         \/ /\ m_sockets[fd] # NoSocket
                            /\ m_sockets'[fd].port = m_sockets[fd].port
  PROVE  Safe'
<1>1. Monotone
  BY StuckStays DEF Inv
<1>2. NoPortTaken
  BY DEF NoPortTaken, SocketsStay
<1>3. PointsToSocket' /\ PortsUnique'
  BY <1>1, <1>2, PointsKept, PortsKept DEF Inv
<1>4. SameProtocol'
  BY <1>1, ProtocolKept DEF Inv, SocketsStay
<1>5. QED
  BY <1>3, <1>4 DEF Safe

-----------------------------------------------------------------------------
(***************************************************************************)
(* The same commands again.                                                *)
(***************************************************************************)
LEMMA MakeKeeps ==
  ASSUME Inv, TypeOK', NEW t \in Threads, MakeTracked(t) \/ MakeUntracked(t)
  PROVE  Safe'
<1>1. /\ UNCHANGED <<m_sockets, m_port_pool, pc, cmd, dangling>>
      /\ pc[t] = "idle" /\ (adopted => adopted')
  <2>1. adopted => adopted'
    BY Zenon DEF MakeTracked, MakeUntracked
  <2>2. QED
    BY <2>1 DEF MakeTracked, MakeUntracked
<1>2. OnlyMoves(t) /\ SocketsStay /\ NoPortTaken /\ PoolGrows
  BY <1>1 DEF OnlyMoves, SocketsStay, NoPortTaken, PoolGrows
<1>3. Monotone
  BY <1>1, <1>2, StuckStays DEF Inv
<1>4. Points(t)'
  BY <1>1 DEF Points, Pointing, Binding
<1>5. PointsToSocket' /\ PortsUnique'
  BY <1>2, <1>3, <1>4, PointsKept, PortsKept DEF Inv
<1>6. SameProtocol'
  <2>1. CASE UNCHANGED g_socket_info
    BY <1>1, <1>3, <2>1 DEF Inv, SameProtocol, Monotone
  <2>2. CASE MakeTracked(t)
    <3>1. PICK s \in Sessions, fd \in Fds, protocol \in Protocols :
            /\ g_socket_info' = [g_socket_info EXCEPT ![fd] =
                 [protocol |-> protocol, is_proxy |-> FALSE, session |-> s]]
            /\ adopted' = (adopted \/ fd \in Registered)
      BY <2>2 DEF MakeTracked
    <3>2. \A x \in Fds \ {fd} : g_socket_info'[x] = g_socket_info[x]
      BY <3>1, TypeOKIs DEF Inv
    <3>3. ~adopted' => ~adopted /\ m_sockets'[fd] = NoSocket
      BY <1>1, <3>1 DEF Registered
    <3>4. QED
      BY <1>1, <3>2, <3>3 DEF Inv, SameProtocol
  <2>3. QED
    BY <2>1, <2>2 DEF MakeUntracked
<1>7. QED
  BY <1>5, <1>6 DEF Safe

\* CreateProxySocket on a tracked descriptor: its socket has the protocol of the table.
LEMMA CreateIs ==
  ASSUME Inv, NEW fd \in Fds, Tracked(fd), UNCHANGED <<g_socket_info, adopted>>,
         m_sockets' = CreateProxySocket(fd, g_socket_info[fd].protocol)
  PROVE  /\ SocketsStay /\ NoPortTaken /\ SameProtocol'
         /\ m_sockets'[fd] # NoSocket /\ g_socket_info[fd].protocol \in Protocols
         /\ ~adopted' => m_sockets'[fd].protocol = g_socket_info[fd].protocol
<1>1. g_socket_info[fd] # NoInfo /\ g_socket_info[fd].protocol \in Protocols
  BY TypeOKIs, InfoFacts DEF Inv, Tracked
<1>2. m_sockets \in [Fds -> Socket_ \cup {NoSocket}]
  BY TypeOKIs DEF Inv
<1>3. CASE m_sockets[fd] # NoSocket
  <2>1. m_sockets' = m_sockets
    BY <1>3 DEF CreateProxySocket, Registered
  <2>2. QED
    BY <1>1, <1>3, <2>1 DEF SocketsStay, NoPortTaken, SameProtocol, Inv
<1>4. CASE m_sockets[fd] = NoSocket
  <2>1. /\ m_sockets'[fd] = NewSocket(g_socket_info[fd].protocol)
        /\ \A x \in Fds \ {fd} : m_sockets'[x] = m_sockets[x]
    BY <1>2, <1>4 DEF CreateProxySocket, Registered
  <2>2. /\ m_sockets'[fd] # NoSocket /\ m_sockets'[fd].port = NoPort
        /\ m_sockets'[fd].protocol = g_socket_info[fd].protocol
    BY <1>1, <2>1, SocketFacts
  <2>3. QED
    BY <1>1, <1>4, <2>1, <2>2 DEF SocketsStay, NoPortTaken, SameProtocol, Inv
<1>5. QED
  BY <1>3, <1>4

\* Bind, Connect and SendTo up to the creation of the socket.
LEMMA CreateKeeps ==
  ASSUME Inv, TypeOK', NEW t \in Threads, Bind(t) \/ Connect(t) \/ SendTo(t)
  PROVE  Safe'
<1> USE DEF history
<1>1. /\ UNCHANGED <<g_socket_info, m_port_pool, dangling, adopted>>
      /\ pc[t] = "idle"
  BY DEF Bind, Connect, SendTo
<1>2. /\ OpenFds \subseteq Fds /\ cmd \in [Threads -> Command] /\ pc \in [Threads -> Pc]
  BY TypeOKIs DEF Inv, OpenFds
<1>3. OnlyMoves(t)
  <2>1. \A u \in Threads \ {t} : pc'[u] = pc[u]
    BY <1>2 DEF Bind, Connect, SendTo, Goto
  <2>2. \A u \in Threads \ {t} : cmd'[u] = cmd[u]
    BY <1>2 DEF Bind, Connect, SendTo, Serve
  <2>3. QED
    BY <1>1, <2>1, <2>2 DEF OnlyMoves
<1>4. Monotone
  BY <1>1, <1>3, StuckStays DEF Inv
<1>5. PICK fd \in Fds :
        /\ Tracked(fd)
        /\ \/ /\ m_sockets' = CreateProxySocket(fd, g_socket_info[fd].protocol)
              /\ cmd'[t].fd = fd
              /\ \/ pc'[t] \in Binding /\ cmd'[t].protocol = g_socket_info[fd].protocol
                 \/ pc'[t] = "connect"
           \/ m_sockets' = m_sockets /\ cmd'[t].fd = fd /\ pc'[t] = "sendMark"
  <2>1. \A place : Goto(t, place) => pc'[t] = place
    BY <1>2 DEF Goto
  <2>2. \A fd, new : Serve(t, fd, new) =>
          cmd'[t].fd = fd /\ (new => cmd'[t].protocol = g_socket_info[fd].protocol)
    BY <1>2 DEF Serve, Command
  <2>3. CASE Bind(t)
    <3>1. PICK fd \in OpenFds, port \in Ports \cup {NoPort} :
            /\ Tracked(fd)
            /\ m_sockets' = CreateProxySocket(fd, g_socket_info[fd].protocol)
            /\ cmd' = [cmd EXCEPT ![t] = [NoCommand EXCEPT
                 !.fd = fd, !.port = port, !.protocol = g_socket_info[fd].protocol]]
      BY <2>3 DEF Bind
    <3>2. cmd'[t].fd = fd /\ cmd'[t].protocol = g_socket_info[fd].protocol
      BY <1>2, <3>1 DEF NoCommand
    <3>3. pc'[t] \in Binding
      BY <2>1, <2>3 DEF Bind, Binding
    <3>4. QED
      BY <1>2, <3>1, <3>2, <3>3
  <2>4. CASE Connect(t)
    <3>1. PICK fd \in OpenFds :
            /\ Tracked(fd)
            /\ m_sockets' = CreateProxySocket(fd, g_socket_info[fd].protocol)
            /\ Serve(t, fd, fd \notin Registered)
            /\ Goto(t, IF fd \in Registered THEN "connect" ELSE "connectBind")
      BY <2>4 DEF Connect
    <3>2. QED
      BY <1>2, <2>1, <2>2, <3>1 DEF Binding
  <2>5. CASE SendTo(t)
    <3>1. PICK fd \in OpenFds :
            LET new == ~Proxied(fd) /\ fd \notin Registered /\ CanCreate(fd)
            IN /\ Tracked(fd)
               /\ m_sockets' = IF new THEN CreateProxySocket(fd, g_socket_info[fd].protocol)
                               ELSE m_sockets
               /\ Serve(t, fd, new)
               /\ Goto(t, IF new THEN "sendBind" ELSE "sendMark")
      BY <2>5 DEF SendTo
    <3>2. QED
      BY <1>2, <2>1, <2>2, <3>1 DEF Binding
  <2>6. QED
    BY <2>3, <2>4, <2>5
<1>6. CASE m_sockets' = m_sockets /\ cmd'[t].fd = fd /\ pc'[t] = "sendMark"
  <2>1. Points(t)'
    BY <1>6 DEF Points, Pointing, Binding
  <2>2. QED
    BY <1>1, <1>3, <1>6, <2>1, StepKeeps DEF InfoKept, PoolGrows, SocketsStay
<1>7. CASE /\ m_sockets' = CreateProxySocket(fd, g_socket_info[fd].protocol)
           /\ cmd'[t].fd = fd
           /\ \/ pc'[t] \in Binding /\ cmd'[t].protocol = g_socket_info[fd].protocol
              \/ pc'[t] = "connect"
  <2>1. /\ SocketsStay /\ NoPortTaken /\ SameProtocol'
        /\ m_sockets'[fd] # NoSocket /\ g_socket_info[fd].protocol \in Protocols
        /\ ~adopted' => m_sockets'[fd].protocol = g_socket_info[fd].protocol
    BY <1>1, <1>5, <1>7, CreateIs
  <2>2. Points(t)'
    BY <1>7, <2>1 DEF Points, Pointing, Binding
  <2>3. PoolGrows
    BY <1>1 DEF PoolGrows
  <2>4. PointsToSocket' /\ PortsUnique'
    BY <1>3, <1>4, <2>1, <2>2, <2>3, PointsKept, PortsKept DEF Inv
  <2>5. QED
    BY <2>1, <2>4 DEF Safe
<1>8. QED
  BY <1>5, <1>6, <1>7

(***************************************************************************)
(* A socket is bound to a port that was free.                              *)
(***************************************************************************)
LEMMA BoundKeeps ==
  ASSUME Inv, TypeOK', NEW t \in Threads, pc[t] \in Binding, ~dangling[t],
         NEW port \in Ports, NEW ip,
         port \in EphemeralPorts => port \notin m_port_pool[cmd[t].protocol],
         m_port_pool' = WithPort(cmd[t].protocol, port),
         m_sockets' = [m_sockets EXCEPT ![cmd[t].fd].bound = TRUE,
                         ![cmd[t].fd].port = port, ![cmd[t].fd].ip = ip],
         NEW place \in {"bindMark", "connect", "sendMark"}, Goto(t, place),
         NEW c, cmd' = [cmd EXCEPT ![t] = c], c.fd = cmd[t].fd,
         UNCHANGED <<dangling, g_socket_info, adopted>>
  PROVE  Safe'
<1> DEFINE fd == cmd[t].fd
<1>1. /\ fd \in Fds /\ m_sockets[fd] # NoSocket /\ cmd[t].protocol \in Protocols
      /\ ~adopted => m_sockets[fd].protocol = cmd[t].protocol
  BY DEF Inv, PointsToSocket, Points, Pointing
<1>2. /\ m_sockets \in [Fds -> Socket_ \cup {NoSocket}] /\ m_sockets[fd] \in Socket_
      /\ cmd \in [Threads -> Command] /\ pc \in [Threads -> Pc]
  BY <1>1, TypeOKIs, SocketFacts DEF Inv
<1>3. /\ m_sockets'[fd].protocol = m_sockets[fd].protocol
      /\ m_sockets'[fd] # NoSocket
      /\ \A x \in Fds \ {fd} : m_sockets'[x] = m_sockets[x]
  <2>1. m_sockets'[fd].protocol = m_sockets[fd].protocol /\ m_sockets[fd].protocol \in Protocols
    BY <1>1, <1>2 DEF Socket_
  <2>2. m_sockets'[fd] # NoSocket
    BY <2>1, SocketFacts
  <2>3. QED
    BY <1>2, <2>1, <2>2
<1>4. SocketsStay
  BY <1>3 DEF SocketsStay
<1>5. OnlyMoves(t) /\ pc'[t] = place /\ cmd'[t].fd = fd
  BY <1>2 DEF OnlyMoves, Goto
<1>6. Monotone
  BY <1>5, StuckStays DEF Inv, Binding
<1>7. Points(t)'
  BY <1>1, <1>3, <1>5 DEF Points, Pointing, Binding
<1>8. PointsToSocket'
  BY <1>4, <1>5, <1>6, <1>7, PointsKept DEF Inv
<1>9. SameProtocol'
  BY <1>1, <1>3, <1>6 DEF Inv, SameProtocol, Monotone
<1>10. PortsUnique'
  BY <1>1, <1>6, PortTaken DEF Inv
<1>11. QED
  BY <1>8, <1>9, <1>10 DEF Safe

(***************************************************************************)
(* The command fails, and the pool may have lost a port to it.             *)
(***************************************************************************)
LEMMA RefusedKeeps ==
  ASSUME Inv, TypeOK', NEW t \in Threads, pc[t] \in Pc \ {"stuck", "stuckInClose"}, Return(t),
         PoolGrows, InfoKept, UNCHANGED <<m_sockets, adopted>>
  PROVE  Safe'
<1>1. OnlyMoves(t) /\ Points(t)'
  BY ReturnMoves DEF Inv
<1>2. QED
  BY <1>1, StepKeeps DEF SocketsStay

\* Marking a port frees none.
LEMMA GrowsWith ==
  ASSUME TypeOK, NEW p \in Protocols, NEW port, m_port_pool' = WithPort(p, port)
  PROVE  PoolGrows
BY TypeOKIs, SMTT(30) DEF PoolGrows, WithPort

\* Bind gets its port.
LEMMA BindPortKeeps ==
  ASSUME Inv, TypeOK', NEW t \in Threads, BindPort(t)
  PROVE  Safe'
<1>1. /\ UNCHANGED <<g_socket_info, adopted>> /\ pc[t] = "bindPort" /\ InfoKept
      /\ cmd[t].protocol \in Protocols
  BY DEF BindPort, InfoKept, Inv, PointsToSocket, Points, Binding
<1>2. pc[t] \in Pc \ {"stuck", "stuckInClose"} /\ pc[t] \in Binding
  BY <1>1 DEF Pc, Binding
<1>3. CASE Return(t) /\ UNCHANGED <<m_sockets, m_port_pool>>
  BY <1>1, <1>2, <1>3, RefusedKeeps DEF PoolGrows
<1>4. ASSUME NEW port \in Obtainable(cmd[t].port, cmd[t].protocol),
             NEW ip \in LdnIps \cup {m_local_ip},
             ~dangling[t], m_port_pool' = WithPort(cmd[t].protocol, port),
             IF m_sockets[cmd[t].fd].bound
             THEN Return(t) /\ UNCHANGED m_sockets
             ELSE /\ m_sockets' = [m_sockets EXCEPT ![cmd[t].fd].bound = TRUE,
                                    ![cmd[t].fd].port = port, ![cmd[t].fd].ip = ip]
                  /\ cmd' = [cmd EXCEPT ![t].port = port]
                  /\ Goto(t, "bindMark")
                  /\ UNCHANGED dangling
      PROVE  Safe'
  <2>1. CASE Return(t) /\ UNCHANGED m_sockets
    BY <1>1, <1>2, <1>4, <2>1, GrowsWith, RefusedKeeps, SMTT(30) DEF Inv
  <2>2. CASE /\ m_sockets' = [m_sockets EXCEPT ![cmd[t].fd].bound = TRUE,
                               ![cmd[t].fd].port = port, ![cmd[t].fd].ip = ip]
             /\ cmd' = [cmd EXCEPT ![t].port = port]
             /\ Goto(t, "bindMark")
             /\ UNCHANGED dangling
    <3>1. cmd \in [Threads -> Command]
      BY TypeOKIs DEF Inv
    <3>2. port \in Ports /\ (port \in EphemeralPorts => port \notin m_port_pool[cmd[t].protocol])
      <4>1. cmd[t].port \in Ports \cup {NoPort}
        BY <3>1 DEF Command
      <4>2. QED
        BY <1>4, <4>1, CommandFacts DEF Obtainable, FreePorts, Reservable
    <3>3. /\ cmd' = [cmd EXCEPT ![t] = [cmd[t] EXCEPT !.port = port]]
          /\ [cmd[t] EXCEPT !.port = port].fd = cmd[t].fd
      BY <2>2, <3>1 DEF Command
    <3>4. QED
      BY <1>1, <1>2, <1>4, <2>2, <3>2, <3>3, BoundKeeps
  <2>3. QED
    BY <1>4, <2>1, <2>2
<1>5. QED
  BY <1>3, <1>4 DEF BindPort

\* Connect and SendTo bind the socket they have made.
LEMMA AutoBindKeeps ==
  ASSUME Inv, TypeOK', NEW t \in Threads, pc[t] \in Binding,
         NEW place \in {"connect", "sendMark"}, NEW refused,
         AutoBind(t, place, refused),
         \A port \in Ports : \/ refused[port] = m_port_pool
                             \/ refused[port] = WithPort(cmd[t].protocol, port)
  PROVE  Safe'
<1> DEFINE fd == cmd[t].fd
           protocol == cmd[t].protocol
<1>1. PICK port \in FreePorts(protocol) :
       /\ ~dangling[t]
       /\ IF m_sockets[fd].bound
          THEN m_port_pool' = refused[port] /\ Return(t) /\ UNCHANGED m_sockets
          ELSE /\ m_port_pool' = WithPort(protocol, port)
               /\ m_sockets' = [m_sockets EXCEPT ![fd].bound = TRUE,
                                  ![fd].port = port, ![fd].ip = m_local_ip]
               /\ cmd' = [cmd EXCEPT ![t].protocol = "none"]
               /\ Goto(t, place) /\ UNCHANGED dangling
       /\ UNCHANGED <<open, g_socket_info, m_pending, m_local_ip, doomed, history>>
  BY DEF AutoBind
<1>2. /\ UNCHANGED <<g_socket_info, adopted>> /\ InfoKept /\ protocol \in Protocols
      /\ pc[t] \in Pc \ {"stuck", "stuckInClose"}
  BY <1>1 DEF history, InfoKept, Inv, PointsToSocket, Points, Binding, Pc
<1>3. port \in Ports /\ port \notin m_port_pool[protocol]
  BY CommandFacts DEF FreePorts
<1>4. CASE m_port_pool' = refused[port] /\ Return(t) /\ UNCHANGED m_sockets
  <2>1. CASE m_port_pool' = m_port_pool
    BY <1>2, <1>4, <2>1, RefusedKeeps DEF PoolGrows
  <2>2. CASE m_port_pool' = WithPort(protocol, port)
    BY <1>2, <1>4, <2>2, GrowsWith, RefusedKeeps DEF Inv
  <2>3. QED
    BY <1>3, <1>4, <2>1, <2>2
<1>5. CASE /\ m_port_pool' = WithPort(protocol, port)
           /\ m_sockets' = [m_sockets EXCEPT ![fd].bound = TRUE,
                              ![fd].port = port, ![fd].ip = m_local_ip]
           /\ cmd' = [cmd EXCEPT ![t].protocol = "none"]
           /\ Goto(t, place) /\ UNCHANGED dangling
  <2>1. cmd \in [Threads -> Command]
    BY TypeOKIs DEF Inv
  <2>2. /\ cmd' = [cmd EXCEPT ![t] = [cmd[t] EXCEPT !.protocol = "none"]]
        /\ [cmd[t] EXCEPT !.protocol = "none"].fd = cmd[t].fd
    BY <1>5, <2>1 DEF Command
  <2>3. QED
    BY <1>1, <1>2, <1>3, <1>5, <2>2, BoundKeeps
<1>6. QED
  BY <1>1, <1>4, <1>5

\* The same, with the cases that find no port.
LEMMA OtherBindKeeps ==
  ASSUME Inv, TypeOK', NEW t \in Threads, ConnectBind(t) \/ SendBind(t)
  PROVE  Safe'
<1> USE DEF history, tables
<1>1. /\ pc[t] \in Binding /\ pc[t] \in Pc \ {"stuck", "stuckInClose"}
  BY DEF Pc, ConnectBind, SendBind, Binding
<1>2. CASE Return(t) /\ UNCHANGED <<tables, m_port_pool, m_pending, m_local_ip, doomed, history>>
  BY <1>1, <1>2, RefusedKeeps DEF PoolGrows, InfoKept
<1>3. CASE /\ Goto(t, "sendMark") /\ cmd' = [cmd EXCEPT ![t].protocol = "none"]
           /\ UNCHANGED <<tables, m_port_pool, m_pending, m_local_ip, dangling, doomed, history>>
  <2>1. /\ cmd \in [Threads -> Command] /\ pc \in [Threads -> Pc] /\ cmd[t].fd \in Fds
    BY <1>1, TypeOKIs DEF Inv, PointsToSocket, Points, Pointing
  <2>2. OnlyMoves(t)
    BY <1>3, <2>1 DEF OnlyMoves, Goto
  <2>3. pc'[t] = "sendMark" /\ cmd'[t].fd = cmd[t].fd
    BY <1>3, <2>1 DEF Goto, Command
  <2>4. Points(t)'
    BY <2>1, <2>3 DEF Points, Pointing, Binding
  <2>5. QED
    BY <1>1, <1>3, <2>2, <2>4, StepKeeps DEF InfoKept, PoolGrows, SocketsStay
<1>4. CASE AutoBind(t, "connect", [port \in Ports |-> m_port_pool])
  <2>1. \A port \in Ports : [p \in Ports |-> m_port_pool][port] = m_port_pool
    OBVIOUS
  <2>2. "connect" \in {"connect", "sendMark"}
    OBVIOUS
  <2>3. QED
    BY <1>1, <1>4, <2>1, <2>2, AutoBindKeeps
<1>5. CASE AutoBind(t, "sendMark", [port \in Ports |-> WithPort(cmd[t].protocol, port)])
  BY <1>1, <1>5, AutoBindKeeps
<1>6. QED
  BY <1>2, <1>3, <1>4, <1>5 DEF ConnectBind, SendBind

(***************************************************************************)
(* Marking a descriptor changes neither its protocol nor its socket's.     *)
(***************************************************************************)
LEMMA MarkedKept ==
  ASSUME TypeOK, NEW fd \in Fds, g_socket_info' = Marked(fd)
  PROVE  InfoKept
<1>1. g_socket_info \in [Fds -> Info \cup {NoInfo}]
  BY TypeOKIs
<1>2. CASE g_socket_info[fd] = NoInfo
  BY <1>2 DEF Marked, Tracked, InfoKept
<1>3. CASE g_socket_info[fd] # NoInfo
  <2>1. g_socket_info[fd] \in Info
    BY <1>1, <1>3, InfoFacts
  <2>2. g_socket_info'[fd].protocol = g_socket_info[fd].protocol
    BY <1>1, <1>3, <2>1 DEF Marked, Tracked, Info
  <2>3. \A x \in Fds \ {fd} : g_socket_info'[x] = g_socket_info[x]
    BY <1>1, <1>3 DEF Marked, Tracked
  <2>4. QED
    BY <1>3, <2>2, <2>3 DEF InfoKept
<1>4. QED
  BY <1>2, <1>3

\* The descriptor is marked; Connect leaves the port of the socket alone.
LEMMA MarkKeeps ==
  ASSUME Inv, TypeOK', NEW t \in Threads, BindMark(t) \/ SendMark(t) \/ ConnectPeer(t)
  PROVE  Safe'
<1> USE DEF history
<1>1. /\ cmd[t].fd \in Fds /\ pc[t] \notin {"stuck", "stuckInClose"}
      /\ pc[t] \in {"bindMark", "sendMark", "connect"}
  BY DEF Inv, PointsToSocket, Points, Pointing, Binding, BindMark, SendMark, ConnectPeer
<1>2. InfoKept
  <2>1. CASE g_socket_info' = Marked(cmd[t].fd)
    BY <1>1, <2>1, MarkedKept DEF Inv
  <2>2. CASE g_socket_info' = g_socket_info
    BY <2>2 DEF InfoKept
  <2>3. QED
    BY <2>1, <2>2 DEF BindMark, SendMark, ConnectPeer
<1>3. PoolGrows /\ UNCHANGED adopted
  BY DEF BindMark, SendMark, ConnectPeer, PoolGrows
<1>4. pc \in [Threads -> Pc] /\ dangling \in [Threads -> BOOLEAN]
  BY TypeOKIs DEF Inv
<1>5. CASE BindMark(t)
  <2>1. OnlyMoves(t) /\ pc'[t] = "bindDeliver"
    BY <1>4, <1>5 DEF BindMark, OnlyMoves, Goto
  <2>2. UNCHANGED <<m_sockets, cmd, dangling>> /\ pc[t] = "bindMark"
    BY <1>5 DEF BindMark
  <2>3. Points(t)'
    BY <2>1, <2>2 DEF Inv, PointsToSocket, Points, Pointing, Binding
  <2>4. QED
    BY <1>1, <1>2, <1>3, <2>1, <2>2, <2>3, StepKeeps DEF SocketsStay
<1>6. CASE SendMark(t)
  <2>1. CASE Return(t)
    <3>1. pc[t] \in Pc \ {"stuck", "stuckInClose"} /\ UNCHANGED m_sockets
      BY <1>1, <1>4, <1>6 DEF SendMark
    <3>2. QED
      BY <1>2, <1>3, <2>1, <3>1, RefusedKeeps
  <2>2. CASE /\ cmd[t].fd \in Registered /\ Goto(t, "use")
             /\ dangling' = [dangling EXCEPT ![t] = FALSE] /\ UNCHANGED cmd
    <3>1. OnlyMoves(t) /\ pc'[t] = "use"
      BY <1>4, <2>2 DEF OnlyMoves, Goto
    <3>2. UNCHANGED m_sockets /\ m_sockets[cmd[t].fd] # NoSocket
      BY <1>6, <2>2 DEF SendMark, Registered
    <3>3. Points(t)'
      BY <1>1, <2>2, <3>1, <3>2 DEF Points, Pointing, Binding
    <3>4. QED
      BY <1>1, <1>2, <1>3, <3>1, <3>2, <3>3, StepKeeps DEF SocketsStay
  <2>3. QED
    BY <1>6, <2>1, <2>2 DEF SendMark
<1>7. CASE ConnectPeer(t)
  <2> DEFINE fd == cmd[t].fd
  <2>1. m_sockets \in [Fds -> Socket_ \cup {NoSocket}] /\ m_sockets[fd] # NoSocket
    BY <1>7, TypeOKIs DEF Inv, ConnectPeer, PointsToSocket, Points, Pointing
  <2>2. m_sockets[fd] \in Socket_
    BY <1>1, <2>1, SocketFacts
  <2>3. m_sockets' = [m_sockets EXCEPT ![fd].bound = TRUE, ![fd].remote = TRUE]
    BY <1>7 DEF ConnectPeer
  <2>4. /\ m_sockets'[fd].protocol = m_sockets[fd].protocol
        /\ m_sockets'[fd].port = m_sockets[fd].port
        /\ m_sockets[fd].protocol \in Protocols
    BY <1>1, <2>1, <2>2, <2>3 DEF Socket_
  <2>5. m_sockets'[fd] # NoSocket /\ \A x \in Fds \ {fd} : m_sockets'[x] = m_sockets[x]
    BY <2>1, <2>3, <2>4, SocketFacts
  <2>6. SocketsStay
    BY <2>4, <2>5 DEF SocketsStay
  <2>7. \A x \in Fds : \/ m_sockets'[x] = NoSocket
                       \/ m_sockets[x] # NoSocket /\ m_sockets'[x].port = m_sockets[x].port
    BY <2>1, <2>4, <2>5
  <2>8. OnlyMoves(t) /\ Points(t)'
    BY <1>7, ReturnMoves DEF Inv, ConnectPeer
  <2>9. QED
    BY <1>1, <1>2, <1>3, <2>6, <2>7, <2>8, StepKeeps
<1>8. QED
  BY <1>5, <1>6, <1>7

\* The commands that look a socket up and use it.
LEMMA UseKeeps ==
  ASSUME Inv, TypeOK', NEW t \in Threads,
         BindDeliver(t) \/ Lookup(t, "use") \/ Lookup(t, "recv") \/ Use(t) \/ Receive(t)
  PROVE  Safe'
<1> USE DEF history, tables
<1>1. /\ UNCHANGED <<g_socket_info, m_sockets, m_port_pool, adopted>>
      /\ pc[t] \notin {"stuck", "stuckInClose"}
  BY DEF BindDeliver, Lookup, Use, Receive
<1>2. pc \in [Threads -> Pc] /\ cmd \in [Threads -> Command]
  BY TypeOKIs DEF Inv
<1>3. PoolGrows /\ InfoKept /\ SocketsStay
  BY <1>1 DEF PoolGrows, InfoKept, SocketsStay
<1>4. CASE Return(t)
  <2>1. pc[t] \in Pc \ {"stuck", "stuckInClose"}
    BY <1>1, <1>2
  <2>2. QED
    BY <1>1, <1>3, <1>4, <2>1, RefusedKeeps
<1>5. CASE Lookup(t, "use") \/ Lookup(t, "recv")
  <2>1. PICK fd \in Registered : cmd' = [cmd EXCEPT ![t].fd = fd]
    BY <1>5 DEF Lookup
  <2>2. OnlyMoves(t) /\ pc'[t] \in {"use", "recv"} /\ cmd'[t].fd = fd
    <3>1. OnlyMoves(t) /\ pc'[t] \in {"use", "recv"}
      BY <1>2, <1>5, <2>1 DEF Lookup, OnlyMoves, Goto
    <3>2. cmd'[t].fd = fd
      BY <1>2, <2>1 DEF Command
    <3>3. QED
      BY <3>1, <3>2
  <2>3. Points(t)'
    BY <1>1, <2>2 DEF Points, Pointing, Binding, Registered
  <2>4. QED
    BY <1>1, <1>3, <2>2, <2>3, StepKeeps
<1>6. CASE Receive(t) /\ Goto(t, "blocked") /\ UNCHANGED <<cmd, dangling>>
  <2>1. OnlyMoves(t) /\ pc'[t] = "blocked" /\ pc[t] = "recv"
    BY <1>2, <1>6 DEF Receive, OnlyMoves, Goto
  <2>2. Points(t)'
    BY <1>1, <1>6, <2>1 DEF Inv, PointsToSocket, Points, Pointing, Binding
  <2>3. QED
    BY <1>1, <1>3, <2>1, <2>2, StepKeeps
<1>7. QED
  BY <1>4, <1>5, <1>6 DEF BindDeliver, Use, Receive

(***************************************************************************)
(* Who held the pointer to a destroyed socket holds a dangling one.        *)
(***************************************************************************)
LEMMA DanglePoints ==
  ASSUME TypeOK, PointsToSocket, NEW fds \in SUBSET Fds, Dangle(fds),
         UNCHANGED <<pc, cmd, adopted>>, \A x \in Fds \ fds : m_sockets'[x] = m_sockets[x]
  PROVE  PointsToSocket'
<1>1. SUFFICES ASSUME NEW u \in Threads PROVE Points(u)'
  BY DEF PointsToSocket
<1>2. ~dangling'[u] => ~dangling[u] /\ \A fd \in fds : u \notin Holders(fd)
  BY Zenon DEF Dangle
<1>3. ~dangling'[u] /\ pc[u] \in Pointing => cmd[u].fd \notin fds
  BY <1>2 DEF Holders, Pointing, Binding
<1>4. Points(u)
  BY DEF PointsToSocket
<1>5. QED
  BY <1>2, <1>3, <1>4 DEF Points, Pointing

\* CloseProxySocket on a socket that tells no peer.
LEMMA ClosedKeeps ==
  ASSUME Inv, TypeOK', NEW fd \in Fds, fd \in Registered, CloseProxySocket(fd), Dangle({fd}),
         UNCHANGED <<pc, cmd, adopted>>, InfoKept
  PROVE  Safe'
<1>1. m_sockets \in [Fds -> Socket_ \cup {NoSocket}] /\ m_sockets[fd] # NoSocket
  BY TypeOKIs DEF Inv, Registered
<1>2. m_sockets'[fd] = NoSocket /\ \A x \in Fds \ {fd} : m_sockets'[x] = m_sockets[x]
  BY <1>1 DEF CloseProxySocket
<1>3. Monotone
  BY DEF Monotone, ManagerFree
<1>4. PointsToSocket'
  <2>1. {fd} \in SUBSET Fds
    OBVIOUS
  <2>2. QED
    BY <1>2, <2>1, DanglePoints DEF Inv
<1>5. SameProtocol'
  BY <1>2, <1>3, ProtocolKept DEF Inv
<1>6. PortsUnique'
  BY <1>1, <1>3, PortGivenBack DEF Inv, CloseProxySocket
<1>7. QED
  BY <1>4, <1>5, <1>6 DEF Safe

(***************************************************************************)
(* A thread that locks m_mutex again stays where it is, with the mutex.    *)
(***************************************************************************)
LEMMA StuckKeeps ==
  ASSUME Inv, TypeOK', NEW t \in Threads, NEW place \in {"stuck", "stuckInClose"},
         Goto(t, place), pc[t] \notin {"stuck", "stuckInClose"},
         UNCHANGED <<m_sockets, g_socket_info, cmd, dangling, adopted>>
  PROVE  Safe'
<1>1. OnlyMoves(t) /\ pc'[t] = place
  BY TypeOKIs DEF Inv, OnlyMoves, Goto
<1>2. Monotone
  BY <1>1, StuckStays DEF Inv
<1>3. Points(t)'
  BY <1>1 DEF Points, Pointing, Binding
<1>4. PointsToSocket' /\ SameProtocol'
  BY <1>1, <1>2, <1>3, PointsKept, ProtocolKept DEF Inv, SocketsStay, InfoKept
<1>5. PortsUnique'
  BY <1>1 DEF PortsUnique, ManagerFree
<1>6. QED
  BY <1>4, <1>5 DEF Safe

\* Close.
LEMMA CloseKeeps ==
  ASSUME Inv, TypeOK', NEW t \in Threads, Close(t)
  PROVE  Safe'
<1> USE DEF history
<1>1. UNCHANGED <<cmd, adopted>> /\ pc[t] = "idle"
  BY DEF Close
<1>2. PICK s \in Sessions : \E fd \in open[s] :
       \/ /\ StuckClosing(t, fd, "stuckInClose")
          /\ UNCHANGED <<open, g_socket_info, dangling>>
       \/ /\ IF Proxied(fd) /\ fd \in Registered
             THEN ~TellsPeer(fd) /\ CloseProxySocket(fd) /\ Dangle({fd})
             ELSE UNCHANGED <<m_sockets, m_port_pool, m_pending, dangling>>
          /\ g_socket_info' = [g_socket_info EXCEPT ![fd] = NoInfo]
          /\ UNCHANGED pc
  BY DEF Close
<1>3. PICK fd \in Fds :
       \/ /\ StuckClosing(t, fd, "stuckInClose")
          /\ UNCHANGED <<open, g_socket_info, dangling>>
       \/ /\ IF Proxied(fd) /\ fd \in Registered
             THEN ~TellsPeer(fd) /\ CloseProxySocket(fd) /\ Dangle({fd})
             ELSE UNCHANGED <<m_sockets, m_port_pool, m_pending, dangling>>
          /\ g_socket_info' = [g_socket_info EXCEPT ![fd] = NoInfo]
          /\ UNCHANGED pc
  <2>1. open[s] \subseteq Fds
    BY TypeOKIs DEF Inv
  <2>2. QED
    BY <1>2, <2>1
<1>4. CASE StuckClosing(t, fd, "stuckInClose") /\ UNCHANGED <<open, g_socket_info, dangling>>
  BY <1>1, <1>4, StuckKeeps DEF StuckClosing
<1>5. CASE g_socket_info' = [g_socket_info EXCEPT ![fd] = NoInfo] /\ UNCHANGED pc
  <2>1. InfoKept
    BY <1>5, TypeOKIs DEF Inv, InfoKept
  <2>2. CASE fd \in Registered /\ CloseProxySocket(fd) /\ Dangle({fd})
    BY <1>1, <1>5, <2>1, <2>2, ClosedKeeps
  <2>3. CASE UNCHANGED <<m_sockets, m_port_pool, m_pending, dangling>>
    <3>1. OnlyMoves(t) /\ PoolGrows /\ SocketsStay
      BY <1>1, <1>5, <2>3 DEF OnlyMoves, PoolGrows, SocketsStay
    <3>2. Points(t)'
      BY <1>1, <1>5 DEF Points, Pointing, Binding
    <3>3. QED
      BY <1>1, <2>1, <2>3, <3>1, <3>2, StepKeeps
  <2>4. CASE /\ StuckClosing(t, fd, "stuckInClose")
             /\ UNCHANGED <<open, g_socket_info, dangling>>
    BY <1>4, <2>4
  <2>5. QED
    BY <1>3, <2>2, <2>3, <2>4
<1>6. QED
  BY <1>3, <1>4, <1>5

\* The closing of what a session leaves.
LEMMA DestroyNextKeeps ==
  ASSUME Inv, TypeOK', NEW t \in Threads, DestroyNext(t)
  PROVE  Safe'
<1> USE DEF history
<1>1. UNCHANGED <<g_socket_info, cmd, adopted>> /\ pc[t] = "destroy" /\ InfoKept
  BY DEF DestroyNext, InfoKept
<1>2. doomed[t] \subseteq Fds
  BY TypeOKIs DEF Inv
<1>3. PICK fd \in Fds :
        \/ UNCHANGED <<m_sockets, m_port_pool, m_pending, dangling, pc>>
        \/ fd \in Registered /\ CloseProxySocket(fd) /\ Dangle({fd}) /\ UNCHANGED pc
        \/ StuckClosing(t, fd, "stuck") /\ UNCHANGED dangling
  BY <1>2 DEF DestroyNext
<1>4. CASE UNCHANGED <<m_sockets, m_port_pool, m_pending, dangling, pc>>
  <2>1. OnlyMoves(t) /\ PoolGrows /\ SocketsStay
    BY <1>1, <1>4 DEF OnlyMoves, PoolGrows, SocketsStay
  <2>2. Points(t)'
    BY <1>1, <1>4 DEF Points, Pointing, Binding
  <2>3. QED
    BY <1>1, <1>4, <2>1, <2>2, StepKeeps
<1>5. CASE fd \in Registered /\ CloseProxySocket(fd) /\ Dangle({fd}) /\ UNCHANGED pc
  BY <1>1, <1>5, ClosedKeeps
<1>6. CASE StuckClosing(t, fd, "stuck") /\ UNCHANGED dangling
  BY <1>1, <1>6, StuckKeeps DEF StuckClosing
<1>7. QED
  BY <1>3, <1>4, <1>5, <1>6

\* The end of a session, and Reset, after which nothing is registered.
LEMMA EndKeeps ==
  ASSUME Inv, TypeOK', NEW t \in Threads, Destroy(t) \/ DestroyEnd(t) \/ Reset(t)
  PROVE  Safe'
<1> USE DEF history
<1>1. pc \in [Threads -> Pc] /\ cmd \in [Threads -> Command]
  BY TypeOKIs DEF Inv
<1>2. CASE Destroy(t)
  <2>1. UNCHANGED <<m_sockets, m_port_pool, dangling, adopted>> /\ pc[t] = "idle"
    BY <1>2 DEF Destroy
  <2>2. PICK s \in Sessions :
          /\ g_socket_info' = [fd \in Fds |->
               IF fd \in {x \in Fds : g_socket_info[x].session = s} THEN NoInfo
                                                                   ELSE g_socket_info[fd]]
          /\ cmd' = [cmd EXCEPT ![t].session = s]
    BY <1>2 DEF Destroy
  <2>3. InfoKept
    BY <2>2 DEF InfoKept
  <2>4. OnlyMoves(t) /\ pc'[t] = "destroy"
    BY <1>1, <1>2, <2>1, <2>2 DEF Destroy, OnlyMoves, Goto
  <2>5. Points(t)'
    BY <2>4 DEF Points, Pointing, Binding
  <2>6. QED
    BY <2>1, <2>3, <2>4, <2>5, StepKeeps DEF SocketsStay, PoolGrows
<1>3. CASE DestroyEnd(t)
  <2>1. pc[t] \in Pc \ {"stuck", "stuckInClose"}
    BY <1>1, <1>3 DEF DestroyEnd
  <2>2. QED
    BY <1>3, <2>1, RefusedKeeps DEF DestroyEnd, PoolGrows, InfoKept
<1>4. CASE Reset(t) /\ Goto(t, "stuck") /\ UNCHANGED <<m_sockets, dangling>>
  BY <1>4, StuckKeeps DEF Reset
<1>5. CASE /\ Reset(t) /\ m_sockets' = [fd \in Fds |-> NoSocket]
           /\ Dangle(Registered) /\ UNCHANGED pc
  <2>1. UNCHANGED <<cmd, adopted, g_socket_info>>
    BY <1>5 DEF Reset
  <2>2. \A fd \in Fds : m_sockets'[fd] = NoSocket
    BY <1>5
  <2>3. PointsToSocket'
    <3>1. Registered \in SUBSET Fds /\ \A x \in Fds \ Registered : m_sockets'[x] = m_sockets[x]
      BY <2>2 DEF Registered
    <3>2. QED
      BY <1>5, <2>1, <3>1, DanglePoints DEF Inv
  <2>4. SameProtocol'
    BY <2>2 DEF SameProtocol
  <2>5. PortsUnique'
    BY <2>2 DEF PortsUnique, Registered
  <2>6. QED
    BY <2>3, <2>4, <2>5 DEF Safe
<1>6. QED
  BY <1>2, <1>3, <1>4, <1>5 DEF Reset

(***************************************************************************)
(* Who is released returns; nothing else happens to the registry.          *)
(***************************************************************************)
LEMMA RouteKeeps ==
  ASSUME Inv, TypeOK', SetLocalIp \/ RouteUnicast \/ RouteBroadcast
  PROVE  Safe'
<1> USE DEF history, tables
<1>1. UNCHANGED <<g_socket_info, m_sockets, m_port_pool, dangling, adopted>>
  BY DEF SetLocalIp, RouteUnicast, RouteBroadcast
<1>2. (pc' = pc /\ cmd' = cmd) \/ \E fds : Delivered(fds)
  BY DEF SetLocalIp, RouteUnicast, RouteBroadcast
<1>3. ASSUME NEW u \in Threads
      PROVE  \/ pc'[u] = "idle" /\ pc[u] = "blocked"
             \/ pc'[u] = pc[u] /\ cmd'[u] = cmd[u]
  <2>1. CASE pc' = pc /\ cmd' = cmd
    BY <2>1
  <2>2. CASE \E fds : Delivered(fds)
    <3>1. PICK fds : Delivered(fds)
      BY <2>2
    <3> DEFINE woken == {t \in Threads : /\ pc[t] = "blocked" /\ ~dangling[t]
                                          /\ cmd[t].fd \in fds}
    <3>2. /\ pc'[u] = IF u \in woken THEN "idle" ELSE pc[u]
          /\ cmd'[u] = IF u \in woken THEN NoCommand ELSE cmd[u]
      BY <3>1 DEF Delivered
    <3>3. u \in woken => pc[u] = "blocked"
      OBVIOUS
    <3> HIDE DEF woken
    <3>4. QED
      BY <3>2, <3>3
  <2>3. QED
    BY <1>2, <2>1, <2>2
<1>4. Monotone
  BY <1>1, <1>3 DEF Monotone, ManagerFree
<1>5. PointsToSocket'
  <2>1. ASSUME NEW u \in Threads PROVE Points(u)'
    <3>1. CASE pc'[u] = "idle"
      BY <3>1 DEF Points, Pointing, Binding
    <3>2. CASE pc'[u] = pc[u] /\ cmd'[u] = cmd[u]
      BY <1>1, <3>2 DEF Inv, PointsToSocket, Points
    <3>3. QED
      BY <1>3, <3>1, <3>2
  <2>2. QED
    BY <2>1 DEF PointsToSocket
<1>6. SameProtocol' /\ PortsUnique'
  BY <1>1, <1>4, PortsKept, ProtocolKept DEF Inv, InfoKept, NoPortTaken, PoolGrows
<1>7. QED
  BY <1>5, <1>6 DEF Safe

-----------------------------------------------------------------------------
(***************************************************************************)
(* The pending packets: they are purged with their endpoint, and the rest  *)
(* are as old as they were.                                                *)
(***************************************************************************)
LEMMA BufferedIs ==
  ASSUME TypeOK, NoneOutlived, NEW packet \in Packet, ~packet.old
  PROVE  \A i \in DOMAIN Buffered(packet) : ~Buffered(packet)[i].old
<1>1. m_pending \in Seq(Packet) /\ Len(m_pending) \in Nat
  BY TypeOKIs
<1>2. \A i \in 1..Len(m_pending) : ~m_pending[i].old
  BY <1>1 DEF NoneOutlived
<1>3. ASSUME NEW s \in Seq(Packet), \A i \in 1..Len(s) : ~s[i].old
      PROVE  \A i \in DOMAIN Append(s, packet) : ~Append(s, packet)[i].old
  <2>1. /\ Append(s, packet) \in Seq(Packet) /\ Len(Append(s, packet)) = Len(s) + 1
        /\ \A i \in 1..Len(s) : Append(s, packet)[i] = s[i]
        /\ Append(s, packet)[Len(s) + 1] = packet
    BY AppendProperties
  <2>2. DOMAIN Append(s, packet) = 1..Len(s) + 1 /\ Len(s) \in Nat
    BY <2>1
  <2>3. QED
    BY <1>3, <2>1, <2>2
<1>4. CASE Len(m_pending) >= MaxPendingPackets
  <2>1. m_pending # <<>>
    BY <1>1, <1>4
  <2>2. /\ Tail(m_pending) \in Seq(Packet) /\ Len(Tail(m_pending)) = Len(m_pending) - 1
        /\ \A i \in 1..Len(Tail(m_pending)) : Tail(m_pending)[i] = m_pending[i + 1]
    BY <1>1, <2>1, HeadTailProperties
  <2>3. \A i \in 1..Len(Tail(m_pending)) : ~Tail(m_pending)[i].old
    BY <1>1, <1>2, <2>2
  <2>4. QED
    BY <1>3, <1>4, <2>2, <2>3 DEF Buffered
<1>5. CASE ~(Len(m_pending) >= MaxPendingPackets)
  BY <1>1, <1>2, <1>3, <1>5 DEF Buffered
<1>6. QED
  BY <1>4, <1>5

\* No step leaves a packet pending that has outlived its port, or delivers one.
LEMMA PendingStep ==
  ASSUME Inv, [Next]_vars
  PROVE  NoneOutlived' /\ OldNeverDelivered'
<1> USE DEF history, tables
<1>1. TypeOK /\ NoneOutlived /\ OldNeverDelivered
  BY DEF Inv
<1>2. CASE m_pending' = m_pending /\ oldDelivered' = oldDelivered
  BY <1>1, <1>2 DEF NoneOutlived, OldNeverDelivered
<1>3. CASE m_pending' = <<>> /\ oldDelivered' = oldDelivered
  BY <1>1, <1>3 DEF NoneOutlived, OldNeverDelivered
<1>4. ASSUME NEW fd \in Fds, m_pending' = PendingAfter(fd), oldDelivered' = oldDelivered
      PROVE  NoneOutlived' /\ OldNeverDelivered'
  BY <1>1, <1>4, PurgeIs DEF NoneOutlived, OldNeverDelivered
<1>5. ASSUME NEW t \in Threads, BindDeliver(t)
      PROVE  NoneOutlived' /\ OldNeverDelivered'
  BY <1>1, <1>5, DeliverIs
<1>6. CASE RouteUnicast
  <2>1. CASE m_pending' = m_pending
    BY <1>2, <1>6, <2>1 DEF RouteUnicast
  <2>2. CASE m_pending' # m_pending
    <3>1. PICK port \in Ports, ip \in LdnIps :
            m_pending' = Buffered([port |-> port, ip |-> ip, old |-> FALSE])
      BY <1>6, <2>2 DEF RouteUnicast
    <3>2. /\ [port |-> port, ip |-> ip, old |-> FALSE] \in Packet
          /\ ~[port |-> port, ip |-> ip, old |-> FALSE].old
      BY DEF Packet
    <3>3. QED
      BY <1>1, <1>6, <3>1, <3>2, BufferedIs DEF RouteUnicast, NoneOutlived, OldNeverDelivered
  <2>3. QED
    BY <2>1, <2>2
<1>7. CASE SetLocalIp \/ RouteBroadcast
  BY <1>2, <1>3, <1>7 DEF SetLocalIp, RouteBroadcast
<1>8. ASSUME NEW t \in Threads, ThreadNext(t)
      PROVE  NoneOutlived' /\ OldNeverDelivered'
  <2>1. CASE MakeTracked(t) \/ MakeUntracked(t) \/ Bind(t) \/ Connect(t) \/ SendTo(t)
    BY <1>2, <2>1 DEF MakeTracked, MakeUntracked, Bind, Connect, SendTo
  <2>2. CASE BindPort(t) \/ ConnectBind(t) \/ SendBind(t)
    BY <1>2, <2>2 DEF BindPort, ConnectBind, SendBind, AutoBind
  <2>3. CASE BindMark(t) \/ ConnectPeer(t) \/ SendMark(t)
    BY <1>2, <2>3 DEF BindMark, ConnectPeer, SendMark
  <2>4. CASE Lookup(t, "use") \/ Lookup(t, "recv") \/ Use(t) \/ Receive(t)
    BY <1>2, <2>4 DEF Lookup, Use, Receive
  <2>5. CASE BindDeliver(t)
    BY <1>5, <2>5
  <2>6. CASE Close(t)
    <3>1. oldDelivered' = oldDelivered
      BY <2>6 DEF Close
    <3>2. PICK s \in Sessions : \E fd \in open[s] :
            m_pending' = m_pending \/ m_pending' = PendingAfter(fd)
      BY <2>6 DEF Close, StuckClosing, CloseProxySocket
    <3>3. open[s] \subseteq Fds
      BY <1>1, TypeOKIs
    <3>4. QED
      BY <1>2, <1>4, <3>1, <3>2, <3>3
  <2>7. CASE DestroyNext(t)
    <3>1. oldDelivered' = oldDelivered /\ doomed[t] \subseteq Fds
      BY <1>1, <2>7, TypeOKIs DEF DestroyNext
    <3>2. \E fd \in doomed[t] : m_pending' = m_pending \/ m_pending' = PendingAfter(fd)
      BY <2>7 DEF DestroyNext, StuckClosing, CloseProxySocket
    <3>3. QED
      BY <1>2, <1>4, <3>1, <3>2
  <2>8. CASE Destroy(t) \/ DestroyEnd(t) \/ Reset(t)
    BY <1>2, <1>3, <2>8 DEF Destroy, DestroyEnd, Reset
  <2>9. QED
    BY <1>8, <2>1, <2>2, <2>3, <2>4, <2>5, <2>6, <2>7, <2>8
    DEF ThreadNext, Socket, SocketExempt, DuplicateSocket, Open, Accept, EventFd, Send, Write,
        GetPeerName, GetSockName, GetSockOpt, SetSockOpt, Ioctl, Fcntl, Select, Poll, Recv,
        RecvFrom, Read
<1>9. CASE UNCHANGED vars
  BY <1>2, <1>9 DEF vars
<1>10. QED
  BY <1>6, <1>7, <1>8, <1>9 DEF Next

-----------------------------------------------------------------------------
(***************************************************************************)
(* A step of a thread keeps the invariant.                                 *)
(***************************************************************************)
LEMMA ThreadInv ==
  ASSUME Inv, NEW t \in Threads, ThreadNext(t)
  PROVE  TypeOK' /\ Safe'
<1>1. TypeOK /\ PointsToSocket
  BY DEF Inv
<1>2. CASE MakeTracked(t) \/ MakeUntracked(t)
  BY <1>1, <1>2, MakeType, MakeKeeps
<1>3. CASE Bind(t) \/ Connect(t) \/ SendTo(t)
  BY <1>1, <1>3, CreateStepType, CreateKeeps
<1>4. CASE BindPort(t)
  BY <1>1, <1>4, BindPortType, BindPortKeeps
<1>5. CASE ConnectBind(t) \/ SendBind(t)
  BY <1>1, <1>5, OtherBindType, OtherBindKeeps
<1>6. CASE BindMark(t) \/ SendMark(t) \/ ConnectPeer(t)
  BY <1>1, <1>6, MarkType, MarkKeeps
<1>7. CASE BindDeliver(t) \/ Lookup(t, "use") \/ Lookup(t, "recv") \/ Use(t) \/ Receive(t)
  BY <1>7, UseType, UseKeeps
<1>8. CASE Close(t)
  BY <1>8, CloseType, CloseKeeps
<1>9. CASE DestroyNext(t)
  BY <1>9, CloseType, DestroyNextKeeps
<1>10. CASE Destroy(t) \/ DestroyEnd(t) \/ Reset(t)
  BY <1>1, <1>10, EndType, EndKeeps
<1>11. QED
  BY <1>2, <1>3, <1>4, <1>5, <1>6, <1>7, <1>8, <1>9, <1>10
  DEF ThreadNext, Socket, SocketExempt, DuplicateSocket, Open, Accept, EventFd, Send, Write,
      GetPeerName, GetSockName, GetSockOpt, SetSockOpt, Ioctl, Fcntl, Select, Poll, Recv,
      RecvFrom, Read

\* Every step keeps the invariant.
LEMMA NextInv == Inv /\ [Next]_vars => Inv'
<1> SUFFICES ASSUME Inv, [Next]_vars PROVE Inv'
  OBVIOUS
<1>1. NoneOutlived' /\ OldNeverDelivered'
  BY PendingStep
<1>2. CASE \E t \in Threads : ThreadNext(t)
  BY <1>1, <1>2, ThreadInv DEF Inv, Safe
<1>3. CASE SetLocalIp \/ RouteUnicast \/ RouteBroadcast
  <2>1. TypeOK'
    BY <1>3, RouteType DEF Inv
  <2>2. QED
    BY <1>1, <1>3, <2>1, RouteKeeps DEF Inv, Safe
<1>4. CASE UNCHANGED vars
  <2>1. /\ UNCHANGED <<open, g_socket_info, m_sockets, m_port_pool, m_pending, m_local_ip>>
        /\ UNCHANGED <<pc, cmd, dangling, doomed, adopted, oldDelivered, made>>
    BY <1>4 DEF vars, tables, history
  <2>2. TypeOK' /\ Monotone /\ PoolGrows /\ NoPortTaken /\ InfoKept
    BY <2>1 DEF Inv, TypeOK, Monotone, ManagerFree, PoolGrows, NoPortTaken, InfoKept
  <2>3. PointsToSocket'
    BY <2>1 DEF Inv, PointsToSocket, Points
  <2>4. SameProtocol' /\ PortsUnique'
    BY <2>1, <2>2, PortsKept, ProtocolKept DEF Inv
  <2>5. QED
    BY <1>1, <2>2, <2>3, <2>4 DEF Inv
<1>5. QED
  BY <1>2, <1>3, <1>4 DEF Next

(***************************************************************************)
(* The invariant holds in every state.                                     *)
(***************************************************************************)
LEMMA Invariance == Spec => []Inv
BY InitInv, NextInv, PTL DEF Spec

(***************************************************************************)
(* The tables of the interception keep their types: there are never more   *)
(* pending packets than the ring holds, and no port is marked in the pool  *)
(* that is not one of its own.                                             *)
(***************************************************************************)
THEOREM TablesAreTyped == Spec => []TypeOK
<1>1. Inv => TypeOK
  BY DEF Inv
<1>2. QED
  BY <1>1, Invariance, PTL

(***************************************************************************)
(* No two proxy sockets of a protocol have the same ephemeral port, and    *)
(* the port of a registered socket is marked in the pool, whatever the     *)
(* threads that bind, connect, send, close and reset do between each       *)
(* other's critical sections.                                              *)
(***************************************************************************)
THEOREM PortsAreUnique == Spec => []PortsUnique
<1>1. Inv => PortsUnique
  BY DEF Inv
<1>2. QED
  BY <1>1, Invariance, PTL

(***************************************************************************)
(* A packet that was pending when the last socket of its port was closed   *)
(* is never delivered to a socket bound to the port later.                 *)
(***************************************************************************)
THEOREM OldPacketsStayUndelivered == Spec => []OldNeverDelivered
<1>1. Inv => OldNeverDelivered
  BY DEF Inv
<1>2. QED
  BY <1>1, Invariance, PTL
=============================================================================

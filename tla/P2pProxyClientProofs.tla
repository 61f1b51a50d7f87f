------------------------ MODULE P2pProxyClientProofs ------------------------
(***************************************************************************)
(* That a client that is ready is connected, that there is never more than *)
(* one client, and that a connect thread is only made when the last one    *)
(* has ended, for any number of clients and ExternalProxy packets.         *)
(***************************************************************************)
EXTENDS P2pProxyClient, TLAPS

(***************************************************************************)
(* What the steps need to know of the types.                               *)
(***************************************************************************)
Typed ==
  /\ pc = [t \in Threads |-> pc[t]] /\ ptr \in [Holders -> Nat]
  /\ client \in [id : Nat, fd : BOOLEAN, connected : BOOLEAN, ready : BOOLEAN,
                 created : BOOLEAN, running : BOOLEAN]
  /\ m_p2p_client \in Nat /\ alive \subseteq Nat /\ after \in {"new", "finish"}

(***************************************************************************)
(* The connect thread: while it runs it can be joined, and who might make  *)
(* another one either knows that it is to be joined first or has joined    *)
(* it.  m_p2p_connect_thread_initialized lags behind in both directions.   *)
(***************************************************************************)
RunningIsJoinable == pc["connect"] \notin {"idle", "undefined"} => connectThread
JoinableIsKnown ==
  connectThread =>
    m_p2p_connect_thread_initialized \/ pc["ldn"] \in {"started", "undefined"}
CreatesAlone == pc["ldn"] = "create" => pc["connect"] = "idle" /\ ~connectThread
ClearsAlone ==
  pc["leave"] = "uninit" =>
    m_p2p_connect_thread_initialized /\ ~connectThread /\ pc["ldn"] # "create"
EndsTogether == pc["connect"] = "undefined" => pc["ldn"] = "undefined" /\ pc["leave"] = "undefined"
ThreadInv ==
  RunningIsJoinable /\ JoinableIsKnown /\ CreatesAlone /\ ClearsAlone /\ EndsTogether

(***************************************************************************)
(* The client: none is left when another is made; while the connect thread *)
(* dials, nobody has got as far as joining a receive thread of this        *)
(* client; and a receive thread that may still set m_ready belongs to a    *)
(* connected client.                                                       *)
(***************************************************************************)
Joining == {"joinRecv", "relock", "freeJoin"}
Serving == pc["recv"] \in {"loop", "config"} /\ ptr["recv"] \in alive
OnlyLast ==
  /\ 0 \notin alive /\ alive \subseteq {client.id} /\ alive \subseteq {m_p2p_client}
  /\ m_p2p_client \in {0, client.id}
  /\ \A h \in Holders : ptr[h] <= client.id
  /\ pc["connect"] = "new" => m_p2p_client = 0
DialsFresh == pc["connect"] \in {"dial", "select"} => ~client.created
JoinsDialled ==
  \A t \in Callers : pc[t] \in Joining /\ ptr[t] \in alive => pc["connect"] \notin {"dial", "select"}
RelocksAlone == \A t \in Callers : pc[t] = "relock" /\ ptr[t] \in alive => ~Serving
ServesConnected == Serving => client.connected /\ client.created
ClientInv ==
  OnlyLast /\ DialsFresh /\ JoinsDialled /\ RelocksAlone /\ ServesConnected /\ ReadyIsConnected

Inv == Typed /\ ThreadInv /\ ClientInv

USE P2pProxyClientAssumption DEF service, handles

(***************************************************************************)
(* No client and no thread yet.                                            *)
(***************************************************************************)
LEMMA InitInv == Init => Inv
<1> SUFFICES ASSUME Init PROVE Inv
  OBVIOUS
<1>1. Typed
  BY DEF Init, Typed, NewClient, Threads, Holders, Callers
<1>2. ThreadInv
  BY DEF Init, ThreadInv, RunningIsJoinable, JoinableIsKnown, CreatesAlone, ClearsAlone,
         EndsTogether, Threads
<1>3. ClientInv
  BY DEF Init, ClientInv, OnlyLast, DialsFresh, JoinsDialled, RelocksAlone, ServesConnected,
         ReadyIsConnected, Serving, Joining, NewClient, Threads, Holders, Callers
<1>4. QED
  BY <1>1, <1>2, <1>3 DEF Inv

(***************************************************************************)
(* Where the behaviour ends nothing is disturbed any more.                 *)
(***************************************************************************)
LEMMA UndefinedStep == Inv /\ Undefined => Inv'
<1> SUFFICES ASSUME Inv, Undefined PROVE Inv'
  OBVIOUS
<1> USE DEF Inv, Undefined, Threads, Holders, Callers
<1>1. Typed'
  BY DEF Typed
<1>2. ThreadInv'
  BY DEF ThreadInv, RunningIsJoinable, JoinableIsKnown, CreatesAlone, ClearsAlone, EndsTogether
<1>3. ClientInv'
  BY DEF ClientInv, OnlyLast, DialsFresh, JoinsDialled, RelocksAlone, ServesConnected,
         ReadyIsConnected, Serving, Joining
<1>4. QED
  BY <1>1, <1>2, <1>3

(***************************************************************************)
(* What closing the client's socket leaves of it, in Disconnect and in the *)
(* destructor: everything but the socket while a receive thread is to be   *)
(* joined, nothing otherwise.                                              *)
(***************************************************************************)
ClientType == [id : Nat, fd : BOOLEAN, connected : BOOLEAN, ready : BOOLEAN,
               created : BOOLEAN, running : BOOLEAN]

\* Both kinds of closing, by the thread t.
LEMMA CloseFacts ==
  ASSUME client \in ClientType, pc = [u \in Threads |-> pc[u]], NEW t \in Threads,
         NEW joining, NEW done, CloseClient(t, joining, done)
  PROVE  /\ client' \in ClientType /\ client'.id = client.id
         /\ pc' = [u \in Threads |-> pc'[u]]
         /\ pc'[t] \in {joining, done} /\ \A u \in Threads \ {t} : pc'[u] = pc[u]
         /\ pc'[t] = done \/ client.created
         /\ \/ /\ client'.created = client.created /\ client'.connected = client.connected
               /\ client'.ready = client.ready
            \/ ~client.created /\ ~client'.created /\ ~client'.connected /\ ~client'.ready
<1> USE DEF ClientType, CloseClient, Goto, Closed, Disconnected
<1>1. CASE ~client.connected /\ ~client.fd
  BY <1>1
<1>2. CASE (client.connected \/ client.fd) /\ client.created
  BY <1>2
<1>3. CASE (client.connected \/ client.fd) /\ ~client.created
  BY <1>3
<1>4. QED
  BY <1>1, <1>2, <1>3

(***************************************************************************)
(* The types.                                                              *)
(***************************************************************************)
LEMMA TypedStep == Typed /\ Next => Typed'
<1> SUFFICES ASSUME Typed, Next PROVE Typed'
  OBVIOUS
<1> USE DEF Typed, Goto
<1>1. Undefined => Typed'
  BY DEF Undefined
<1>2. CASE \/ HandleExternalProxyPacket \/ JoinOld \/ CreateConnectThread \/ ConnectThreadStarted
           \/ Uninitialized \/ Inactive
  BY <1>1, <1>2 DEF HandleExternalProxyPacket, JoinOld, CreateConnectThread,
     ConnectThreadStarted, Uninitialized, Inactive
<1>3. ASSUME NEW t \in Callers, CallerNext(t)
      PROVE  Typed'
  <2>1. t \in Holders /\ t \in Threads
    BY DEF Holders, Callers, Threads
  <2>2. CASE DisconnectP2pProxy(t) \/ JoinRecv(t) \/ JoinConnect(t) \/ FreeJoin(t)
    BY <1>1, <2>1, <2>2 DEF DisconnectP2pProxy, JoinRecv, JoinConnect, FreeJoin, JoinRecvThread
  <2>3. CASE Disconnect(t)
    BY <1>1, <2>1, <2>3, CloseFacts DEF Disconnect, ClientType
  <2>4. CASE Relock(t)
    BY <1>1, <2>1, <2>4 DEF Relock, Disconnected
  <2>5. CASE Delete(t)
    BY <1>1, <2>1, <2>5, CloseFacts DEF Delete, ClientType
  <2>6. CASE Free(t)
    <3>1. pc' = [u \in Threads |-> pc'[u]] \/ Undefined
      BY <2>1, <2>6 DEF Free
    <3>2. client' \in ClientType \/ Undefined
      BY <2>6 DEF Free, Disconnected, ClientType
    <3>3. QED
      BY <1>1, <2>6, <3>1, <3>2 DEF Free, ClientType
  <2>7. QED
    BY <1>3, <2>2, <2>3, <2>4, <2>5, <2>6 DEF CallerNext
<1>4. CASE ConnectNext
  <2>1. CASE NewP2pProxyClient
    <3>1. client.id + 1 \in Nat
      BY Typed
    <3>2. NewClient \in ClientType
      BY DEF NewClient, ClientType
    <3>3. client' \in ClientType
      BY <2>1, <3>1, <3>2 DEF NewP2pProxyClient, ClientType
    <3>4. QED
      BY <2>1, <3>1, <3>3 DEF NewP2pProxyClient, ClientType
  <2>2. CASE CallNone
    BY <1>1, <2>2 DEF CallNone
  <2>3. CASE Connect
    BY <2>3 DEF Connect, Call
  <2>4. CASE ConnectSelected
    <3>1. "recv" \in Holders
      BY DEF Holders
    <3>2. QED
      BY <2>4, <3>1 DEF ConnectSelected, Call
  <2>5. CASE PerformAuth \/ EnsureProxyReady \/ ReadyWaited
    BY <2>5 DEF PerformAuth, EnsureProxyReady, ReadyWaited, Call
  <2>6. CASE P2pFailed \/ ApplyProxyConfig \/ NetworkGone \/ P2pConnectThreadEntry
             \/ ConnectThreadEnds
    BY <2>6 DEF P2pFailed, ApplyProxyConfig, NetworkGone, P2pConnectThreadEntry,
       ConnectThreadEnds, Call
  <2>7. QED
    BY <1>4, <2>1, <2>2, <2>3, <2>4, <2>5, <2>6 DEF ConnectNext
<1>5. CASE ReceiveConfig \/ HandleProxyConfig \/ ReceiveEnds \/ ReceiveExit
  BY <1>5 DEF ReceiveConfig, HandleProxyConfig, ReceiveEnds, ReceiveExit, Receiving, OnlyClient
<1>6. CASE ReceiveFreed \/ SendProxyDataToServer \/ SendProxyData
  BY <1>1, <1>6 DEF ReceiveFreed, SendProxyDataToServer, SendProxyData, OnlyClient
<1>7. QED
  BY <1>2, <1>3, <1>4, <1>5, <1>6 DEF Next

(***************************************************************************)
(* HandleExternalProxyPacket, on the LDN receive thread, and the flags the *)
(* leaving thread clears: the client is not touched.                       *)
(***************************************************************************)
LEMMA LdnStep ==
  ASSUME Inv,
         \/ HandleExternalProxyPacket \/ JoinOld \/ CreateConnectThread \/ ConnectThreadStarted
         \/ Uninitialized \/ Inactive
  PROVE  Inv'
<1> USE DEF Inv, Typed, ThreadInv, RunningIsJoinable, JoinableIsKnown, CreatesAlone, ClearsAlone,
            EndsTogether, ClientInv, OnlyLast, DialsFresh, JoinsDialled, RelocksAlone,
            ServesConnected, ReadyIsConnected, Serving, Joining, Threads, Holders, Callers, Goto,
            ConnectThreadEnded
<1>1. CASE HandleExternalProxyPacket
  <2>1. Typed'
    BY TypedStep DEF Next
  <2>2. ThreadInv'
    BY <1>1 DEF HandleExternalProxyPacket
  <2>3. OnlyLast' /\ DialsFresh' /\ JoinsDialled' 
    BY <1>1 DEF HandleExternalProxyPacket
  <2>4. RelocksAlone'
    BY <1>1 DEF HandleExternalProxyPacket
  <2>5. ServesConnected' /\ ReadyIsConnected'
    BY <1>1 DEF HandleExternalProxyPacket
  <2>6. QED
    BY <2>1, <2>2, <2>3, <2>4, <2>5
<1>2. CASE JoinOld
  BY <1>2, UndefinedStep DEF JoinOld
<1>3. CASE CreateConnectThread
  BY <1>3 DEF CreateConnectThread, FirstStep
<1>4. CASE ConnectThreadStarted
  BY <1>4, ZenonT(40) DEF ConnectThreadStarted
<1>5. CASE Uninitialized
  BY <1>5 DEF Uninitialized
<1>6. CASE Inactive
  BY <1>6, ZenonT(60) DEF Inactive
<1>7. QED
  BY <1>1, <1>2, <1>3, <1>4, <1>5, <1>6

(***************************************************************************)
(* DisconnectP2pProxy, on the connect thread or on the leaving one.        *)
(***************************************************************************)
LEMMA CallerStep ==
  ASSUME Inv, NEW t \in Callers, CallerNext(t)
  PROVE  Inv'
<1> USE DEF Inv, Typed, ThreadInv, RunningIsJoinable, JoinableIsKnown, CreatesAlone, ClearsAlone,
            EndsTogether, ClientInv, OnlyLast, DialsFresh, JoinsDialled, RelocksAlone,
            ServesConnected, ReadyIsConnected, Serving, Joining, Threads, Holders, Callers, Goto,
            ConnectThreadEnded, Deleted
<1>1. CASE DisconnectP2pProxy(t)
  <2>1. CASE t = "connect"
    <3>1. Typed'
      BY TypedStep DEF Next
    <3>2. ThreadInv'
      BY <1>1, <2>1 DEF DisconnectP2pProxy, Entering
    <3>3. OnlyLast' /\ DialsFresh' /\ JoinsDialled'
      BY <1>1, <2>1 DEF DisconnectP2pProxy, Entering
    <3>4. RelocksAlone' /\ ServesConnected' /\ ReadyIsConnected'
      BY <1>1, <2>1 DEF DisconnectP2pProxy, Entering
    <3>5. QED
      BY <3>1, <3>2, <3>3, <3>4
  <2>2. CASE t = "leave"
    <3>1. Typed'
      BY TypedStep DEF Next
    <3>2. ThreadInv'
      BY <1>1, <2>2 DEF DisconnectP2pProxy, Entering
    <3>3. OnlyLast' /\ DialsFresh' /\ JoinsDialled'
      BY <1>1, <2>2 DEF DisconnectP2pProxy, Entering
    <3>4. RelocksAlone' /\ ServesConnected' /\ ReadyIsConnected'
      BY <1>1, <2>2 DEF DisconnectP2pProxy, Entering
    <3>5. QED
      BY <3>1, <3>2, <3>3, <3>4
  <2>3. QED
    BY <2>1, <2>2
<1>2. CASE Disconnect(t)
  <2>1. CASE Undefined
    BY <2>1, UndefinedStep
  <2>2. CASE t = "connect" /\ ~Undefined
    <3>1. Typed'
      BY TypedStep DEF Next
    <3>2. ThreadInv'
      BY <1>2, <2>2, CloseFacts DEF Disconnect, ClientType
    <3>3. OnlyLast' /\ DialsFresh' /\ JoinsDialled'
      BY <1>2, <2>2, CloseFacts DEF Disconnect, ClientType
    <3>4. RelocksAlone' /\ ServesConnected' /\ ReadyIsConnected'
      BY <1>2, <2>2, CloseFacts DEF Disconnect, ClientType
    <3>5. QED
      BY <3>1, <3>2, <3>3, <3>4
  <2>3. CASE t = "leave" /\ ~Undefined
    <3>1. Typed'
      BY TypedStep DEF Next
    <3>2. ThreadInv'
      BY <1>2, <2>3, CloseFacts DEF Disconnect, ClientType
    <3>3. OnlyLast' /\ DialsFresh' /\ JoinsDialled'
      BY <1>2, <2>3, CloseFacts DEF Disconnect, ClientType
    <3>4. RelocksAlone' /\ ServesConnected' /\ ReadyIsConnected'
      BY <1>2, <2>3, CloseFacts DEF Disconnect, ClientType
    <3>5. QED
      BY <3>1, <3>2, <3>3, <3>4
  <2>4. QED
    BY <2>1, <2>2, <2>3
<1>3. CASE JoinRecv(t)
  BY <1>3, UndefinedStep DEF JoinRecv, JoinRecvThread
<1>4. CASE Relock(t)
  <2>1. CASE Undefined
    BY <2>1, UndefinedStep
  <2>2. CASE t = "connect" /\ ~Undefined
    <3>1. Typed'
      BY TypedStep DEF Next
    <3>2. ThreadInv'
      BY <1>4, <2>2 DEF Relock, Disconnected
    <3>3. OnlyLast' /\ DialsFresh' /\ JoinsDialled'
      BY <1>4, <2>2 DEF Relock, Disconnected
    <3>4. RelocksAlone' /\ ServesConnected' /\ ReadyIsConnected'
      BY <1>4, <2>2 DEF Relock, Disconnected
    <3>5. QED
      BY <3>1, <3>2, <3>3, <3>4
  <2>3. CASE t = "leave" /\ ~Undefined
    <3>1. Typed'
      BY TypedStep DEF Next
    <3>2. ThreadInv'
      BY <1>4, <2>3 DEF Relock, Disconnected
    <3>3. OnlyLast' /\ DialsFresh' /\ JoinsDialled'
      BY <1>4, <2>3 DEF Relock, Disconnected
    <3>4. RelocksAlone' /\ ServesConnected' /\ ReadyIsConnected'
      BY <1>4, <2>3 DEF Relock, Disconnected
    <3>5. QED
      BY <3>1, <3>2, <3>3, <3>4
  <2>4. QED
    BY <2>1, <2>2, <2>3
<1>5. CASE JoinConnect(t)
  BY <1>5, UndefinedStep DEF JoinConnect
<1>6. CASE Delete(t)
  <2>1. CASE Undefined
    BY <2>1, UndefinedStep
  <2>2. CASE t = "connect" /\ ~Undefined
    <3>1. Typed'
      BY TypedStep DEF Next
    <3>2. ThreadInv'
      BY <1>6, <2>2, CloseFacts DEF Delete, ClientType
    <3>3. OnlyLast' /\ DialsFresh' /\ JoinsDialled'
      BY <1>6, <2>2, CloseFacts DEF Delete, ClientType
    <3>4. RelocksAlone' /\ ServesConnected' /\ ReadyIsConnected'
      BY <1>6, <2>2, CloseFacts DEF Delete, ClientType
    <3>5. QED
      BY <3>1, <3>2, <3>3, <3>4
  <2>3. CASE t = "leave" /\ ~Undefined
    <3>1. Typed'
      BY TypedStep DEF Next
    <3>2. ThreadInv'
      BY <1>6, <2>3, CloseFacts DEF Delete, ClientType
    <3>3. OnlyLast' /\ DialsFresh' /\ JoinsDialled'
      BY <1>6, <2>3, CloseFacts DEF Delete, ClientType
    <3>4. RelocksAlone' /\ ServesConnected' /\ ReadyIsConnected'
      BY <1>6, <2>3, CloseFacts DEF Delete, ClientType
    <3>5. QED
      BY <3>1, <3>2, <3>3, <3>4
  <2>4. QED
    BY <2>1, <2>2, <2>3
<1>7. CASE FreeJoin(t)
  BY <1>7, UndefinedStep DEF FreeJoin, JoinRecvThread
<1>8. CASE Free(t)
  <2>1. CASE Undefined
    BY <2>1, UndefinedStep
  <2>2. CASE t = "connect" /\ ~Undefined
    <3>1. Typed'
      BY TypedStep DEF Next
    <3>2. ThreadInv'
      BY <1>8, <2>2 DEF Free, Disconnected
    <3>3. OnlyLast' /\ DialsFresh' /\ JoinsDialled'
      BY <1>8, <2>2 DEF Free, Disconnected
    <3>4. RelocksAlone' /\ ServesConnected' /\ ReadyIsConnected'
      BY <1>8, <2>2 DEF Free, Disconnected
    <3>5. QED
      BY <3>1, <3>2, <3>3, <3>4
  <2>3. CASE t = "leave" /\ ~Undefined
    <3>1. Typed'
      BY TypedStep DEF Next
    <3>2. ThreadInv'
      BY <1>8, <2>3 DEF Free, Disconnected
    <3>3. OnlyLast' /\ DialsFresh' /\ JoinsDialled'
      BY <1>8, <2>3 DEF Free, Disconnected
    <3>4. RelocksAlone' /\ ServesConnected' /\ ReadyIsConnected'
      BY <1>8, <2>3 DEF Free, Disconnected
    <3>5. QED
      BY <3>1, <3>2, <3>3, <3>4
  <2>4. QED
    BY <2>1, <2>2, <2>3
<1>9. QED
  BY <1>1, <1>2, <1>3, <1>4, <1>5, <1>6, <1>7, <1>8 DEF CallerNext

(***************************************************************************)
(* HandleExternalProxyConnect, on the connect thread.                      *)
(***************************************************************************)
LEMMA ConnectStep ==
  ASSUME Inv, ConnectNext
  PROVE  Inv'
<1> USE DEF Inv, Typed, ThreadInv, RunningIsJoinable, JoinableIsKnown, CreatesAlone, ClearsAlone,
            EndsTogether, ClientInv, OnlyLast, DialsFresh, JoinsDialled, RelocksAlone,
            ServesConnected, ReadyIsConnected, Serving, Joining, Threads, Holders, Callers, Goto,
            Call
<1>1. CASE NewP2pProxyClient
  <2>1. Typed'
    BY TypedStep DEF Next
  <2>2. ThreadInv'
    BY <1>1 DEF NewP2pProxyClient
  <2>3. OnlyLast' /\ DialsFresh' /\ JoinsDialled'
    BY <1>1 DEF NewP2pProxyClient, NewClient
  <2>4. RelocksAlone' /\ ServesConnected' /\ ReadyIsConnected'
    BY <1>1 DEF NewP2pProxyClient, NewClient
  <2>5. QED
    BY <2>1, <2>2, <2>3, <2>4
<1>2. CASE CallNone
  BY <1>2, UndefinedStep DEF CallNone
<1>3. CASE Connect
  BY <1>3 DEF Connect
<1>4. CASE ConnectSelected
  <2>1. Typed'
    BY TypedStep DEF Next
  <2>2. ThreadInv'
    BY <1>4 DEF ConnectSelected
  <2>3. pc["connect"] = "select" /\ m_p2p_client \in alive
    BY <1>4 DEF ConnectSelected
  <2>4. CASE pc["recv"]' = pc["recv"]
    <3>1. /\ pc'["connect"] = "failed" /\ \A u \in Threads \ {"connect"} : pc'[u] = pc[u]
          /\ ptr' = ptr /\ alive' = alive /\ m_p2p_client' = m_p2p_client
          /\ client'.id = client.id /\ client'.created = client.created
          /\ client'.connected = client.connected /\ client'.ready = client.ready
      BY <1>4, <2>4 DEF ConnectSelected
    <3>2. QED
      BY <2>1, <2>2, <2>3, <3>1
  <2>5. CASE pc["recv"]' # pc["recv"]
    <3>1. /\ pc'["connect"] = "auth" /\ pc'["recv"] = "loop" /\ pc["recv"] = "idle"
          /\ \A u \in Threads \ {"connect", "recv"} : pc'[u] = pc[u]
          /\ ptr' = [ptr EXCEPT !["recv"] = m_p2p_client]
          /\ alive' = alive /\ m_p2p_client' = m_p2p_client
          /\ client'.id = client.id /\ client'.created /\ client'.connected
      BY <1>4, <2>5 DEF ConnectSelected
    <3>2. OnlyLast' /\ DialsFresh' /\ JoinsDialled'
      BY <2>3, <3>1
    <3>3. \A u \in Callers : pc[u] \in Joining => ptr[u] \notin alive
      BY <2>3
    <3>4. RelocksAlone' /\ ServesConnected' /\ ReadyIsConnected'
      BY <3>1, <3>3
    <3>5. QED
      BY <2>1, <2>2, <3>2, <3>4
  <2>6. QED
    BY <2>4, <2>5
<1>5. CASE PerformAuth
  BY <1>5 DEF PerformAuth
<1>6. CASE EnsureProxyReady
  BY <1>6 DEF EnsureProxyReady
<1>7. CASE ReadyWaited
  BY <1>7 DEF ReadyWaited
<1>8. CASE P2pFailed
  BY <1>8 DEF P2pFailed
<1>9. CASE ApplyProxyConfig
  BY <1>9 DEF ApplyProxyConfig
<1>10. CASE NetworkGone
  BY <1>10 DEF NetworkGone
<1>11. CASE P2pConnectThreadEntry
  BY <1>11 DEF P2pConnectThreadEntry
<1>12. CASE ConnectThreadEnds
  BY <1>12 DEF ConnectThreadEnds
<1>13. QED
  BY <1>1, <1>2, <1>3, <1>4, <1>5, <1>6, <1>7, <1>8, <1>9, <1>10, <1>11, <1>12 DEF ConnectNext

(***************************************************************************)
(* ReceiveLoop, and the thread that sends the game's data.                 *)
(***************************************************************************)
LEMMA DataStep ==
  ASSUME Inv,
         \/ ReceiveConfig \/ HandleProxyConfig \/ ReceiveEnds \/ ReceiveExit \/ ReceiveFreed
         \/ SendProxyDataToServer \/ SendProxyData
  PROVE  Inv'
<1> USE DEF Inv, Typed, ThreadInv, RunningIsJoinable, JoinableIsKnown, CreatesAlone, ClearsAlone,
            EndsTogether, ClientInv, OnlyLast, DialsFresh, JoinsDialled, RelocksAlone,
            ServesConnected, ReadyIsConnected, Serving, Joining, Threads, Holders, Callers, Goto,
            Deleted, Receiving, OnlyClient
<1>1. CASE ReceiveConfig
  BY <1>1 DEF ReceiveConfig
<1>2. CASE HandleProxyConfig
  BY <1>2 DEF HandleProxyConfig
<1>3. CASE ReceiveEnds
  BY <1>3, ZenonT(40) DEF ReceiveEnds
<1>4. CASE ReceiveExit
  BY <1>4 DEF ReceiveExit
<1>5. CASE ReceiveFreed
  BY <1>5, UndefinedStep DEF ReceiveFreed
<1>6. CASE SendProxyDataToServer
  BY <1>6, ZenonT(60) DEF SendProxyDataToServer
<1>7. CASE SendProxyData
  BY <1>7, UndefinedStep DEF SendProxyData
<1>8. QED
  BY <1>1, <1>2, <1>3, <1>4, <1>5, <1>6, <1>7

(***************************************************************************)
(* Every step keeps the invariant.                                         *)
(***************************************************************************)
LEMMA NextInv == Inv /\ [Next]_vars => Inv'
<1> SUFFICES ASSUME Inv, [Next]_vars PROVE Inv'
  OBVIOUS
<1>1. CASE Next
  BY <1>1, LdnStep, CallerStep, ConnectStep, DataStep, Zenon DEF Next
<1>2. CASE UNCHANGED vars
  BY <1>2 DEF vars, Inv, Typed, ThreadInv, RunningIsJoinable, JoinableIsKnown, CreatesAlone,
              ClearsAlone, EndsTogether, ClientInv, OnlyLast, DialsFresh, JoinsDialled,
              RelocksAlone, ServesConnected, ReadyIsConnected, Serving
<1>3. QED
  BY <1>1, <1>2

(***************************************************************************)
(* The invariant holds of every state the five threads reach.              *)
(***************************************************************************)
LEMMA Invariance == Spec => []Inv
BY InitInv, NextInv, PTL DEF Spec

(***************************************************************************)
(* m_ready is never left set on a client whose connection has gone, for    *)
(* any interleaving of HandleProxyConfig, the end of the receive loop,     *)
(* Disconnect and the destructor.                                          *)
(***************************************************************************)
THEOREM ReadyMeansConnected == Spec => []ReadyIsConnected
<1>1. Inv => ReadyIsConnected
  BY DEF Inv, ClientInv
<1>2. QED
  BY <1>1, Invariance, PTL

(***************************************************************************)
(* The sysmodule never holds two P2pProxyClients, and deletes the one it   *)
(* has before it makes another: the one receive stack is enough.           *)
(***************************************************************************)
THEOREM OnlyOneClient == Spec => []OneClient
<1>1. Inv => OneClient
  BY DEF Inv, ClientInv, OnlyLast, OneClient
<1>2. QED
  BY <1>1, Invariance, PTL

(***************************************************************************)
(* HandleExternalProxyPacket makes a connect thread only when the last one *)
(* has ended, whoever joined it and whichever flag lagged behind.          *)
(***************************************************************************)
THEOREM ConnectThreadIsAlone == Spec => []OneConnectThread
<1>1. Inv => OneConnectThread
  BY DEF Inv, ThreadInv, CreatesAlone, OneConnectThread, ConnectThreadEnded
<1>2. QED
  BY <1>1, Invariance, PTL
=============================================================================

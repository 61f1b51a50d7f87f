--------------------------- MODULE P2pProxyClient ---------------------------
(***************************************************************************)
(* The joiner's side of a P2P network: p2p/p2p_proxy_client.cpp, and the   *)
(* part of ldn/ldn_icommunication.cpp that makes, uses and deletes the     *)
(* client.  Five threads: the LDN receive thread, which starts the connect *)
(* thread when the server names a host; the connect thread; the client's   *)
(* own receive thread; an IPC thread that leaves the network; an IPC       *)
(* thread that sends the game's data.                                      *)
(*                                                                         *)
(* A critical section of the client's m_mutex is one step.  m_p2p_client   *)
(* is read and deleted without any mutex: a thread that uses a deleted     *)
(* client or dereferences a null one, or joins a thread that has been      *)
(* destroyed, does something undefined, and the behaviour ends there.      *)
(* The host may accept or not, answer or not, and hang up at any time.     *)
(***************************************************************************)
EXTENDS Integers

CONSTANTS
  MaxClients,          \* bound: clients made
  MaxPackets           \* bound: ExternalProxy packets of the server

ASSUME P2pProxyClientAssumption == MaxClients \in Nat /\ MaxPackets \in Nat

VARIABLES
  m_p2p_client,        \* the pointer: which client, 0 for none
  alive,               \* the clients that have not been deleted
  client,              \* the fields of the client made last
  m_use_p2p_proxy,
  m_p2p_connect_thread_active,
  m_p2p_connect_thread_initialized,
  connectThread,       \* the ThreadType: whether it can be joined
  recvThread,
  pc,                  \* where each thread is
  ptr,                 \* the client it works on
  after,               \* where DisconnectP2pProxy goes back to
  polled,              \* Connect's socket is still the one it waits on
  packets              \* ExternalProxy packets so far

service == <<m_use_p2p_proxy, m_p2p_connect_thread_active,
             m_p2p_connect_thread_initialized>>
handles == <<connectThread, recvThread>>
vars == <<m_p2p_client, alive, client, service, handles, pc, ptr, after, polled,
          packets>>

Threads == {"ldn", "connect", "leave", "send", "recv"}
Callers == {"connect", "leave"}      \* of DisconnectP2pProxy
Holders == Callers \cup {"recv"}
Leaving == {"disconnect", "joinRecv", "relock", "join", "delete", "freeJoin", "free"}
Pc == [ldn |-> {"joinOld", "create", "started"},
       connect |-> Leaving \cup {"clear", "new", "dial", "select", "auth", "ready", "wait",
                                "failed", "apply", "finish", "ending"},
       leave |-> Leaving \cup {"uninit", "inactive"},
       send |-> {"sending"},
       recv |-> {"loop", "config", "exit"}]

NewClient == [id |-> 0, fd |-> FALSE, connected |-> FALSE, ready |-> FALSE, created |-> FALSE,
              running |-> FALSE]

TypeOK ==
  /\ m_p2p_client \in 0..MaxClients
  /\ alive \subseteq 1..MaxClients
  /\ client \in [id : 0..MaxClients, fd : BOOLEAN, connected : BOOLEAN, ready : BOOLEAN,
                 created : BOOLEAN, running : BOOLEAN]
  /\ m_use_p2p_proxy \in BOOLEAN
  /\ m_p2p_connect_thread_active \in BOOLEAN
  /\ m_p2p_connect_thread_initialized \in BOOLEAN
  /\ connectThread \in BOOLEAN /\ recvThread \in BOOLEAN
  /\ \A t \in Threads : pc[t] \in Pc[t] \cup {"idle", "undefined"}
  /\ ptr \in [Holders -> 0..MaxClients]
  /\ after \in {"new", "finish"}
  /\ polled \in BOOLEAN
  /\ packets \in 0..MaxPackets

Init ==
  /\ m_p2p_client = 0 /\ alive = {}
  /\ client = NewClient
  /\ m_use_p2p_proxy = TRUE
  /\ m_p2p_connect_thread_active = FALSE /\ m_p2p_connect_thread_initialized = FALSE
  /\ connectThread = FALSE /\ recvThread = FALSE
  /\ pc = [t \in Threads |-> "idle"] /\ ptr = [t \in Holders |-> 0]
  /\ after = "new" /\ polled = FALSE /\ packets = 0

Goto(t, place) == pc' = [pc EXCEPT ![t] = place]

Undefined ==
  /\ pc' = [t \in Threads |-> "undefined"]
  /\ UNCHANGED <<m_p2p_client, alive, client, service, handles, ptr, after, polled,
                 packets>>

-----------------------------------------------------------------------------
(***************************************************************************)
(* HandleExternalProxyPacket, on the LDN receive thread, for a host that   *)
(* is not this console: one connect thread at a time.                      *)
(***************************************************************************)
HandleExternalProxyPacket ==
  /\ pc["ldn"] = "idle" /\ packets < MaxPackets /\ packets' = packets + 1
  /\ m_use_p2p_proxy /\ ~m_p2p_connect_thread_active
  /\ m_p2p_connect_thread_active' = TRUE
  /\ Goto("ldn", IF m_p2p_connect_thread_initialized THEN "joinOld" ELSE "create")
  /\ UNCHANGED <<m_p2p_client, alive, client, m_use_p2p_proxy,
                 m_p2p_connect_thread_initialized, handles, ptr, after, polled>>

ConnectThreadEnded == pc["connect"] = "idle"

\* Mutation: the thread that ran before is not waited for.
JoinOldUnwaited ==
  /\ pc["ldn"] = "joinOld"
  /\ connectThread' = FALSE
  /\ Goto("ldn", "create")
  /\ UNCHANGED <<m_p2p_client, alive, client, service, recvThread, ptr, after, polled,
                 packets>>

JoinOld ==
  /\ pc["ldn"] = "joinOld"
  /\ \/ ~connectThread /\ Undefined
     \/ /\ connectThread /\ ConnectThreadEnded
        /\ connectThread' = FALSE
        /\ Goto("ldn", "create")
        /\ UNCHANGED <<m_p2p_client, alive, client, service, recvThread, ptr, after,
                       polled, packets>>

\* HandleExternalProxyConnect begins with a DisconnectP2pProxy.
FirstStep == "clear"

CreateConnectThread ==
  /\ pc["ldn"] = "create" /\ ConnectThreadEnded
  /\ \/ /\ connectThread' = TRUE
        /\ pc' = [pc EXCEPT !["ldn"] = "started", !["connect"] = FirstStep]
        /\ after' = "new"
        /\ UNCHANGED service
     \/ /\ m_p2p_connect_thread_active' = FALSE
        /\ m_p2p_connect_thread_initialized' = FALSE
        /\ Goto("ldn", "idle")
        /\ UNCHANGED <<connectThread, after, m_use_p2p_proxy>>
  /\ UNCHANGED <<m_p2p_client, alive, client, recvThread, ptr, polled, packets>>

ConnectThreadStarted ==
  /\ pc["ldn"] = "started"
  /\ m_p2p_connect_thread_initialized' = TRUE
  /\ Goto("ldn", "idle")
  /\ UNCHANGED <<m_p2p_client, alive, client, m_use_p2p_proxy,
                 m_p2p_connect_thread_active, handles, ptr, after, polled,
                 packets>>

-----------------------------------------------------------------------------
(***************************************************************************)
(* DisconnectP2pProxy: the client is disconnected, the connect thread      *)
(* joined (unless this is it), the client deleted.  The connect thread     *)
(* calls it three times; the IPC thread when the game leaves.              *)
(***************************************************************************)
Entering(t) == (t = "connect" /\ pc[t] = "clear") \/ (t = "leave" /\ pc[t] = "idle")

DisconnectP2pProxy(t) ==
  /\ Entering(t)
  /\ t = "leave" => m_p2p_client # 0 \/ m_p2p_connect_thread_initialized
  /\ ptr' = [ptr EXCEPT ![t] = m_p2p_client]
  /\ Goto(t, IF m_p2p_client # 0 THEN "disconnect" ELSE "join")
  /\ UNCHANGED <<m_p2p_client, alive, client, service, handles, after, polled,
                 packets>>

Deleted(t) == ptr[t] \notin alive

Closed == [client EXCEPT !.running = FALSE, !.fd = FALSE]

\* Mutation: m_ready is not reset.
DisconnectedStillReady(c) == [c EXCEPT !.created = FALSE, !.connected = FALSE]

Disconnected(c) == [c EXCEPT !.created = FALSE, !.connected = FALSE, !.ready = FALSE]

\* The first critical section: it lets the mutex go to join the receive
\* thread, and only then.
CloseClient(t, joining, done) ==
  \/ /\ ~client.connected /\ ~client.fd
     /\ Goto(t, done) /\ UNCHANGED <<client, polled>>
  \/ /\ client.connected \/ client.fd
     /\ polled' = FALSE
     /\ client' = IF client.created THEN Closed ELSE Disconnected(Closed)
     /\ Goto(t, IF client.created THEN joining ELSE done)

JoinRecvThread(t, joining, done) ==
  /\ pc[t] = joining
  /\ \/ (Deleted(t) \/ ~recvThread) /\ Undefined
     \/ /\ ~Deleted(t) /\ recvThread /\ pc["recv"] = "idle"
        /\ recvThread' = FALSE
        /\ Goto(t, done)
        /\ UNCHANGED <<m_p2p_client, alive, client, service, connectThread, ptr, after,
                       polled, packets>>

Disconnect(t) ==
  /\ pc[t] = "disconnect"
  /\ \/ Deleted(t) /\ Undefined
     \/ /\ ~Deleted(t) /\ CloseClient(t, "joinRecv", "join")
        /\ UNCHANGED <<m_p2p_client, alive, service, handles, ptr, after, packets>>

JoinRecv(t) == JoinRecvThread(t, "joinRecv", "relock")

Relock(t) ==
  /\ pc[t] = "relock"
  /\ \/ Deleted(t) /\ Undefined
     \/ /\ ~Deleted(t)
        /\ client' = Disconnected(client)
        /\ Goto(t, "join")
        /\ UNCHANGED <<m_p2p_client, alive, service, handles, ptr, after, polled,
                       packets>>

\* Mutation: the connect thread joins itself.
JoinConnectAlways(t) ==
  /\ pc[t] = "join"
  /\ \/ /\ ~m_p2p_connect_thread_initialized
        /\ Goto(t, "delete")
        /\ UNCHANGED <<m_p2p_client, alive, client, service, handles, ptr, after, polled,
                       packets>>
     \/ /\ m_p2p_connect_thread_initialized /\ connectThread /\ ConnectThreadEnded
        /\ connectThread' = FALSE
        /\ Goto(t, "uninit")
        /\ UNCHANGED <<m_p2p_client, alive, client, service, recvThread, ptr, after,
                       polled, packets>>

\* The connect thread does not join itself.
JoinConnect(t) ==
  /\ pc[t] = "join"
  /\ \/ /\ t = "connect" \/ ~m_p2p_connect_thread_initialized
        /\ Goto(t, "delete")
        /\ UNCHANGED <<m_p2p_client, alive, client, service, handles, ptr, after, polled,
                       packets>>
     \/ /\ t = "leave" /\ m_p2p_connect_thread_initialized
        /\ \/ ~connectThread /\ Undefined
           \/ /\ connectThread /\ ConnectThreadEnded
              /\ connectThread' = FALSE
              /\ Goto(t, "uninit")
              /\ UNCHANGED <<m_p2p_client, alive, client, service, recvThread, ptr, after,
                             polled, packets>>

Uninitialized ==
  /\ pc["leave"] = "uninit"
  /\ m_p2p_connect_thread_initialized' = FALSE
  /\ Goto("leave", "inactive")
  /\ UNCHANGED <<m_p2p_client, alive, client, m_use_p2p_proxy,
                 m_p2p_connect_thread_active, handles, ptr, after, polled,
                 packets>>

Inactive ==
  /\ pc["leave"] = "inactive"
  /\ m_p2p_connect_thread_active' = FALSE
  /\ Goto("leave", "delete")
  /\ UNCHANGED <<m_p2p_client, alive, client, m_use_p2p_proxy,
                 m_p2p_connect_thread_initialized, handles, ptr, after, polled,
                 packets>>

\* The destructor disconnects once more: a client that has been connected
\* since then has a socket to close and a thread to join.
Delete(t) ==
  /\ pc[t] = "delete"
  /\ \/ /\ m_p2p_client = 0
        /\ Goto(t, IF t = "connect" THEN after ELSE "idle")
        /\ UNCHANGED <<m_p2p_client, alive, client, service, handles, ptr, after, polled,
                       packets>>
     \/ m_p2p_client # 0 /\ m_p2p_client \notin alive /\ Undefined
     \/ /\ m_p2p_client \in alive
        /\ ptr' = [ptr EXCEPT ![t] = m_p2p_client]
        /\ CloseClient(t, "freeJoin", "free")
        /\ UNCHANGED <<m_p2p_client, alive, service, handles, after, packets>>

FreeJoin(t) == JoinRecvThread(t, "freeJoin", "free")

Free(t) ==
  /\ pc[t] = "free"
  /\ \/ Deleted(t) /\ Undefined
     \/ /\ ~Deleted(t)
        /\ alive' = alive \ {ptr[t]} /\ m_p2p_client' = 0
        /\ client' = Disconnected(client)
        /\ Goto(t, IF t = "connect" THEN after ELSE "idle")
        /\ UNCHANGED <<service, handles, ptr, after, polled, packets>>

-----------------------------------------------------------------------------
(***************************************************************************)
(* HandleExternalProxyConnect, on the connect thread, between two calls of *)
(* DisconnectP2pProxy.  Each call of the client reads m_p2p_client anew.   *)
(***************************************************************************)
NewP2pProxyClient ==
  /\ pc["connect"] = "new" /\ client.id < MaxClients
  /\ client' = [NewClient EXCEPT !.id = client.id + 1]
  /\ m_p2p_client' = client.id + 1 /\ alive' = alive \cup {client.id + 1}
  /\ Goto("connect", "dial")
  /\ UNCHANGED <<service, handles, ptr, after, polled, packets>>

\* A call of the connect thread through m_p2p_client.
Call(place) ==
  /\ pc["connect"] = place
  /\ m_p2p_client \in alive
  /\ UNCHANGED <<m_p2p_client, alive, service, connectThread, after, packets>>

CallNone ==
  /\ pc["connect"] \in {"dial", "select", "auth", "ready", "wait", "apply"}
  /\ m_p2p_client \notin alive
  /\ Undefined

\* Connect: the socket, and a wait without the mutex until it is writable.
Connect ==
  /\ Call("dial")
  /\ \/ client' = [client EXCEPT !.fd = TRUE] /\ polled' = TRUE /\ Goto("connect", "select")
     \/ UNCHANGED <<client, polled>> /\ Goto("connect", "failed")
  /\ UNCHANGED <<recvThread, ptr>>

\* The socket has gone; the host did not answer, or no thread was to be had;
\* the host has.
ConnectSelected ==
  /\ Call("select")
  /\ \/ /\ ~polled /\ Goto("connect", "failed") /\ UNCHANGED <<client, recvThread, polled, ptr>>
     \/ /\ polled /\ polled' = FALSE
        /\ client' = [client EXCEPT !.fd = FALSE]
        /\ Goto("connect", "failed") /\ UNCHANGED <<recvThread, ptr>>
     \/ /\ polled /\ polled' = FALSE /\ pc["recv"] = "idle"
        /\ client' = [client EXCEPT !.connected = TRUE, !.running = TRUE, !.created = TRUE]
        /\ recvThread' = TRUE /\ ptr' = [ptr EXCEPT !["recv"] = m_p2p_client]
        /\ pc' = [pc EXCEPT !["connect"] = "auth", !["recv"] = "loop"]

PerformAuth ==
  /\ Call("auth")
  /\ \/ client.connected /\ Goto("connect", "ready")
     \/ Goto("connect", "failed")
  /\ UNCHANGED <<client, polled, recvThread, ptr>>

\* EnsureProxyReady waits once: for the answer, an end, or its time.
EnsureProxyReady ==
  /\ Call("ready")
  /\ Goto("connect", IF client.ready THEN "apply"
                     ELSE IF client.connected THEN "wait" ELSE "failed")
  /\ UNCHANGED <<client, polled, recvThread, ptr>>

ReadyWaited ==
  /\ Call("wait")
  /\ Goto("connect", IF client.ready THEN "apply" ELSE "failed")
  /\ UNCHANGED <<client, polled, recvThread, ptr>>

\* P2P is switched off, here and in the configuration, and the relay used.
P2pFailed ==
  /\ pc["connect"] = "failed"
  /\ m_use_p2p_proxy' = FALSE
  /\ after' = "finish" /\ Goto("connect", "clear")
  /\ UNCHANGED <<m_p2p_client, alive, client, m_p2p_connect_thread_active,
                 m_p2p_connect_thread_initialized, handles, ptr, polled, packets>>

\* The network may have been left; otherwise the client's address is used.
ApplyProxyConfig ==
  /\ Call("apply")
  /\ Goto("connect", "finish")
  /\ UNCHANGED <<client, polled, recvThread, ptr>>

NetworkGone ==
  /\ pc["connect"] = "apply"
  /\ after' = "finish" /\ Goto("connect", "clear")
  /\ UNCHANGED <<m_p2p_client, alive, client, service, handles, ptr, polled, packets>>

P2pConnectThreadEntry ==
  /\ pc["connect"] = "finish"
  /\ m_p2p_connect_thread_active' = FALSE
  /\ Goto("connect", "ending")
  /\ UNCHANGED <<m_p2p_client, alive, client, m_use_p2p_proxy,
                 m_p2p_connect_thread_initialized, handles, ptr, after, polled, packets>>

ConnectThreadEnds ==
  /\ pc["connect"] = "ending"
  /\ Goto("connect", "idle")
  /\ UNCHANGED <<m_p2p_client, alive, client, service, handles, ptr, after, polled,
                 packets>>

-----------------------------------------------------------------------------
(***************************************************************************)
(* ReceiveLoop, on the client's own thread.                                *)
(***************************************************************************)
OnlyClient == UNCHANGED <<m_p2p_client, alive, service, handles, ptr, after, polled, packets>>

ReceiveFreed == pc["recv"] \notin {"idle", "undefined"} /\ Deleted("recv") /\ Undefined
Receiving(place) == pc["recv"] = place /\ ~Deleted("recv") /\ OnlyClient

\* A ProxyConfig arrives, and the thread has not been told to stop.
ReceiveConfig ==
  /\ Receiving("loop") /\ client.fd /\ client.running
  /\ Goto("recv", "config")
  /\ UNCHANGED client

HandleProxyConfig ==
  /\ Receiving("config")
  /\ client' = [client EXCEPT !.ready = TRUE]
  /\ Goto("recv", "loop")

\* The host hangs up or sends something invalid, or the socket is closed.
ReceiveEnds ==
  /\ Receiving("loop")
  /\ Goto("recv", "exit")
  /\ UNCHANGED client

ReceiveExit ==
  /\ Receiving("exit")
  /\ client' = [client EXCEPT !.connected = FALSE, !.ready = FALSE]
  /\ Goto("recv", "idle")

(***************************************************************************)
(* SendProxyDataToServer tests the pointer and uses it, twice.             *)
(***************************************************************************)
SendProxyDataToServer ==
  /\ pc["send"] = "idle" /\ m_p2p_client # 0
  /\ Goto("send", "sending")
  /\ UNCHANGED client /\ OnlyClient

SendProxyData ==
  /\ pc["send"] = "sending"
  /\ \/ m_p2p_client \notin alive /\ Undefined
     \/ /\ m_p2p_client \in alive
        /\ Goto("send", "idle")
        /\ UNCHANGED client /\ OnlyClient

-----------------------------------------------------------------------------
CallerNext(t) ==
  \/ DisconnectP2pProxy(t) \/ Disconnect(t) \/ JoinRecv(t) \/ Relock(t)
  \/ JoinConnect(t) \/ Delete(t) \/ FreeJoin(t) \/ Free(t)

ConnectNext ==
  \/ NewP2pProxyClient \/ CallNone \/ Connect \/ ConnectSelected \/ PerformAuth
  \/ EnsureProxyReady \/ ReadyWaited \/ P2pFailed \/ ApplyProxyConfig \/ NetworkGone
  \/ P2pConnectThreadEntry \/ ConnectThreadEnds

Next ==
  \/ HandleExternalProxyPacket \/ JoinOld \/ CreateConnectThread \/ ConnectThreadStarted
  \/ Uninitialized \/ Inactive
  \/ \E t \in Callers : CallerNext(t)
  \/ ConnectNext
  \/ ReceiveConfig \/ HandleProxyConfig \/ ReceiveEnds \/ ReceiveExit
  \/ ReceiveFreed
  \/ SendProxyDataToServer \/ SendProxyData

\* The threads run, waits with a time-out end, and a closed socket ends the
\* receive loop.  The game leaves when it wants to, the host answers if it
\* wants to.
Fairness ==
  /\ WF_vars(JoinOld) /\ WF_vars(CreateConnectThread) /\ WF_vars(ConnectThreadStarted)
  /\ WF_vars(Uninitialized) /\ WF_vars(Inactive)
  /\ \A t \in Callers : WF_vars(pc[t] # "idle" /\ CallerNext(t))
  /\ WF_vars(ConnectNext)
  /\ WF_vars(HandleProxyConfig) /\ WF_vars(~client.fd /\ ReceiveEnds)
  /\ WF_vars(ReceiveExit) /\ WF_vars(SendProxyData)

Spec == Init /\ [][Next]_vars /\ Fairness

-----------------------------------------------------------------------------
(* A client that is ready is connected: the answer of the host, which sets *)
(* m_ready whatever became of the connection meanwhile, never leaves a     *)
(* client that data would be sent through and that goes nowhere.           *)
ReadyIsConnected == client.ready => client.connected

(* "the sysmodule only ever holds a single P2pProxyClient" (the comment at *)
(* the receive thread's only stack): two never exist together, and none is *)
(* left behind when another is made.                                       *)
OneClient == alive \subseteq {m_p2p_client}

(* There is one connect thread at a time (it has one stack and one         *)
(* configuration): a new one is made when the last has ended, although its *)
(* active flag is cleared before it ends and by the thread that leaves.    *)
OneConnectThread == pc["ldn"] = "create" => ConnectThreadEnded

(* Leaving a network comes to its end: DisconnectP2pProxy interrupts what  *)
(* the connect thread and the receive thread wait for, and joins them.     *)
LeaveReturns == pc["leave"] # "idle" ~> pc["leave"] \in {"idle", "undefined"}

(* "Safely wait for the async connect thread to finish" (DisconnectP2pProxy)*)
(* and "Safe to call multiple times" (Disconnect): nobody uses a client    *)
(* that has been deleted, or joins a thread twice.                         *)
ClientUsedAlive == \A t \in Threads : pc[t] # "undefined"
=============================================================================

---------------------------- MODULE ProxySocket ----------------------------
(***************************************************************************)
(* One proxy socket (bsd/proxy_socket.cpp): the life of the socket and its *)
(* receive ring.  The threads are the two IPC threads of main.cpp, which   *)
(* make every call of a game; the ring is filled by the thread that routes *)
(* what the LDN server sends, which ProxySocketManager keeps apart from    *)
(* Close with its own mutex.  m_queue_mutex guards the ring, so a critical *)
(* section is one step; everything outside it is a step of its own.        *)
(*                                                                         *)
(* A datagram is the number of its arrival.  Listen, Accept, Shutdown and  *)
(* the connect handshake's answer have no caller in the program (the game's*)
(* Listen, Accept and Shutdown are forwarded): only tests reach them.      *)
(***************************************************************************)
EXTENDS Integers, Sequences, FiniteSets

CONSTANTS
  Threads,            \* the threads that call the socket's operations
  QueueSize,          \* PROXY_SOCKET_MAX_QUEUE_SIZE
  MaxArrivals         \* bound on the datagrams of a behaviour

ASSUME ProxySocketAssumption == QueueSize \in Nat \ {0} /\ MaxArrivals \in Nat

VARIABLES
  m_protocol,         \* of the socket, for good
  m_state, m_has_remote, m_non_blocking, m_shutdown,
  m_rx_ring, m_rx_head, m_rx_tail, m_rx_count,
  m_receive_event,    \* os::Event, cleared by hand
  pc, flags,          \* where each thread is, and the flags of its RecvFrom
  result,             \* what each thread's last receiving call returned
  arrived             \* datagrams so far

ringVars == <<m_rx_ring, m_rx_head, m_rx_tail, m_rx_count>>
stateVars == <<m_protocol, m_state, m_has_remote, m_non_blocking, m_shutdown>>
vars == <<stateVars, ringVars, m_receive_event, pc, flags, result, arrived>>

State == {"Created", "Bound", "Connected", "Closed"}
Pc == {"idle", "recvLock", "recvWait", "recvBlocked", "recvRelock",
       "closeSignal", "closeClear", "closeTell"}
Refusals == {"EOF", "BadF", "Again", "NotConn"}
Slots == 0 .. QueueSize - 1
NoFlags == [peek |-> FALSE, dontwait |-> FALSE]

TypeOK ==
  /\ m_protocol \in {"Udp", "Tcp"} /\ m_state \in State
  /\ m_has_remote \in BOOLEAN /\ m_non_blocking \in BOOLEAN /\ m_shutdown \in BOOLEAN
  /\ m_rx_ring \in [Slots -> 0..MaxArrivals]
  /\ m_rx_head \in Slots /\ m_rx_tail \in Slots /\ m_rx_count \in 0..QueueSize
  /\ m_receive_event \in BOOLEAN
  /\ pc \in [Threads -> Pc]
  /\ flags \in [Threads -> [peek : BOOLEAN, dontwait : BOOLEAN]]
  /\ result \in [Threads ->
                  [code : Refusals \cup {"none", "data"}, datagram : 0..MaxArrivals]]
  /\ arrived \in 0..MaxArrivals

Init ==
  /\ m_protocol \in {"Udp", "Tcp"}
  /\ m_state = "Created" /\ m_has_remote = FALSE
  /\ m_non_blocking = FALSE /\ m_shutdown = FALSE
  /\ m_rx_ring = [i \in Slots |-> 0]
  /\ m_rx_head = 0 /\ m_rx_tail = 0 /\ m_rx_count = 0
  /\ m_receive_event = FALSE
  /\ pc = [t \in Threads |-> "idle"]
  /\ flags = [t \in Threads |-> NoFlags]
  /\ result = [t \in Threads |-> [code |-> "none", datagram |-> 0]]
  /\ arrived = 0

-----------------------------------------------------------------------------
(***************************************************************************)
(* Calls that are one step.  What they return is a function of the state   *)
(* and is left out; result is what a receiving call returned.              *)
(***************************************************************************)
Answer(t, r) == result' = [result EXCEPT ![t] = [code |-> r, datagram |-> 0]]
Deliver(t, d) == result' = [result EXCEPT ![t] = [code |-> "data", datagram |-> d]]
Goto(t, place) == pc' = [pc EXCEPT ![t] = place]
Return(t) == Goto(t, "idle") /\ flags' = [flags EXCEPT ![t] = NoFlags]

Bind(t) ==
  /\ pc[t] = "idle" /\ m_state = "Created"
  /\ m_state' = "Bound"
  /\ UNCHANGED <<m_protocol, m_has_remote, m_non_blocking, m_shutdown, ringVars,
                 m_receive_event, pc, flags, result, arrived>>

\* No callback for ProxyConnect is ever registered: SendProxyConnect fails,
\* and leaves the remote address that Connect stored behind.
Connect(t) ==
  /\ pc[t] = "idle" /\ m_state # "Closed"
  /\ m_has_remote' = TRUE
  /\ m_state' = IF m_protocol = "Tcp" THEN "Bound" ELSE "Connected"
  /\ UNCHANGED <<m_protocol, m_non_blocking, m_shutdown, ringVars, m_receive_event,
                 pc, flags, result, arrived>>

\* Fcntl's O_NONBLOCK.
SetNonBlocking(t) ==
  /\ pc[t] = "idle"
  /\ \E b \in BOOLEAN : m_non_blocking' = b
  /\ UNCHANGED <<m_protocol, m_state, m_has_remote, m_shutdown, ringVars, m_receive_event, pc,
                 flags, result, arrived>>

-----------------------------------------------------------------------------
(***************************************************************************)
(* The receive event: Signal releases whoever is blocked in Wait, even if  *)
(* the event is cleared before that thread runs; Clear only keeps later    *)
(* callers of Wait waiting.                                                *)
(***************************************************************************)
Released(p) == [t \in Threads |-> IF p[t] = "recvBlocked" THEN "recvRelock" ELSE p[t]]

(***************************************************************************)
(* RecvFrom: the tests of the state, without the mutex ...                 *)
(***************************************************************************)
RecvFrom(t) ==
  /\ pc[t] = "idle"
  /\ \E peek, dontwait \in BOOLEAN :
       \/ m_shutdown /\ Answer(t, "EOF") /\ UNCHANGED <<pc, flags>>
       \/ /\ ~m_shutdown /\ m_state = "Closed"
          /\ Answer(t, "BadF") /\ UNCHANGED <<pc, flags>>
       \/ /\ ~m_shutdown /\ m_state # "Closed"
          /\ flags' = [flags EXCEPT
                         ![t] = [peek |-> peek, dontwait |-> dontwait \/ m_non_blocking]]
          /\ Goto(t, "recvLock") /\ UNCHANGED result
  /\ UNCHANGED <<stateVars, ringVars, m_receive_event, arrived>>

\* Recv: RecvFrom of a connected socket; its own refusal.
Recv(t) ==
  \/ /\ pc[t] = "idle" /\ m_state # "Connected"
     /\ Answer(t, "NotConn")
     /\ UNCHANGED <<stateVars, ringVars, m_receive_event, pc, flags, arrived>>
  \/ m_state = "Connected" /\ RecvFrom(t)

\* Mutation: the event is not cleared with the last datagram.
ConsumeFrontKeepsEvent(t) ==
  /\ Deliver(t, m_rx_ring[m_rx_head])
  /\ IF flags[t].peek
     THEN UNCHANGED <<m_rx_head, m_rx_count>>
     ELSE /\ m_rx_head' = (m_rx_head + 1) % QueueSize
          /\ m_rx_count' = m_rx_count - 1
  /\ UNCHANGED m_receive_event

\* consume_front, m_queue_mutex held.
ConsumeFront(t) ==
  /\ Deliver(t, m_rx_ring[m_rx_head])
  /\ IF flags[t].peek
     THEN UNCHANGED <<m_rx_head, m_rx_count>>
     ELSE /\ m_rx_head' = (m_rx_head + 1) % QueueSize
          /\ m_rx_count' = m_rx_count - 1
  /\ m_receive_event' = (m_receive_event /\ m_rx_count' # 0)

\* ... the first look at the ring ...
RecvLock(t) ==
  /\ pc[t] = "recvLock"
  /\ \/ /\ m_rx_count = 0 /\ flags[t].dontwait
        /\ Answer(t, "Again") /\ Return(t)
        /\ UNCHANGED <<m_rx_head, m_rx_count, m_receive_event>>
     \/ /\ m_rx_count = 0 /\ ~flags[t].dontwait
        /\ Goto(t, "recvWait")
        /\ UNCHANGED <<flags, result, m_rx_head, m_rx_count, m_receive_event>>
     \/ /\ m_rx_count # 0
        /\ ConsumeFront(t) /\ Return(t)
  /\ UNCHANGED <<stateVars, m_rx_ring, m_rx_tail, arrived>>

\* ... m_receive_event.Wait() ...
RecvWait(t) ==
  /\ pc[t] = "recvWait"
  /\ Goto(t, IF m_receive_event THEN "recvRelock" ELSE "recvBlocked")
  /\ UNCHANGED <<stateVars, ringVars, m_receive_event, flags, result, arrived>>

\* ... and the second look.
RecvRelock(t) ==
  /\ pc[t] = "recvRelock"
  /\ Return(t)
  /\ \/ m_rx_count # 0 /\ ConsumeFront(t)
     \/ /\ m_rx_count = 0 /\ Answer(t, "Again")
        /\ UNCHANGED <<m_rx_head, m_rx_count, m_receive_event>>
  /\ UNCHANGED <<stateVars, m_rx_ring, m_rx_tail, arrived>>

-----------------------------------------------------------------------------
\* Mutation: in a full ring the newest overwrites, and the head stays.
IncomingDataOverwrites ==
  /\ arrived < MaxArrivals /\ m_state # "Closed"
  /\ arrived' = arrived + 1
  /\ m_rx_ring' = [m_rx_ring EXCEPT ![m_rx_tail] = arrived + 1]
  /\ m_rx_tail' = (m_rx_tail + 1) % QueueSize
  /\ m_rx_count' = IF m_rx_count >= QueueSize THEN m_rx_count ELSE m_rx_count + 1
  /\ m_receive_event' = TRUE /\ pc' = Released(pc)
  /\ UNCHANGED <<stateVars, m_rx_head, flags, result>>

\* A datagram is routed here: the oldest makes room in a full ring.
IncomingData ==
  /\ arrived < MaxArrivals /\ m_state # "Closed"
  /\ arrived' = arrived + 1
  /\ m_rx_ring' = [m_rx_ring EXCEPT ![m_rx_tail] = arrived + 1]
  /\ m_rx_tail' = (m_rx_tail + 1) % QueueSize
  /\ m_rx_head' = IF m_rx_count >= QueueSize THEN (m_rx_head + 1) % QueueSize
                                             ELSE m_rx_head
  /\ m_rx_count' = IF m_rx_count >= QueueSize THEN m_rx_count ELSE m_rx_count + 1
  /\ m_receive_event' = TRUE /\ pc' = Released(pc)
  /\ UNCHANGED <<stateVars, flags, result>>

(***************************************************************************)
(* Close: the flags, the signal, the ring, the peer of a TCP socket.  The  *)
(* socket is in the manager's table until its owner has closed it, so it   *)
(* is closed once.                                                         *)
(***************************************************************************)
Close(t) ==
  /\ pc[t] = "idle" /\ m_state # "Closed"
  /\ m_state' = "Closed" /\ m_shutdown' = TRUE
  /\ Goto(t, "closeSignal")
  /\ UNCHANGED <<m_protocol, m_has_remote, m_non_blocking, ringVars, m_receive_event, flags,
                 result, arrived>>

\* Mutation: the receivers are not signalled.
CloseSignalMissing(t) ==
  /\ pc[t] = "closeSignal"
  /\ Goto(t, "closeClear")
  /\ UNCHANGED <<stateVars, ringVars, m_receive_event, flags, result, arrived>>

CloseSignal(t) ==
  /\ pc[t] = "closeSignal"
  /\ m_receive_event' = TRUE
  /\ pc' = [Released(pc) EXCEPT ![t] = "closeClear"]
  /\ UNCHANGED <<stateVars, ringVars, flags, result, arrived>>

CloseClear(t) ==
  /\ pc[t] = "closeClear"
  /\ m_rx_head' = 0 /\ m_rx_tail' = 0 /\ m_rx_count' = 0
  /\ Goto(t, IF m_protocol = "Tcp" /\ m_has_remote THEN "closeTell" ELSE "idle")
  /\ UNCHANGED <<stateVars, m_rx_ring, m_receive_event, flags, result, arrived>>

\* SendProxyDisconnect: it takes the manager's mutex (module BsdMitm).
CloseTell(t) ==
  /\ pc[t] = "closeTell"
  /\ Goto(t, "idle")
  /\ UNCHANGED <<stateVars, ringVars, m_receive_event, flags, result, arrived>>

-----------------------------------------------------------------------------
ThreadCalls(t) ==
  \/ Bind(t) \/ Connect(t) \/ SetNonBlocking(t)
  \/ RecvFrom(t) \/ Recv(t) \/ Close(t)

ThreadSteps(t) ==
  \/ RecvLock(t) \/ RecvWait(t) \/ RecvRelock(t)
  \/ CloseSignal(t) \/ CloseClear(t) \/ CloseTell(t)

Next == IncomingData \/ \E t \in Threads : ThreadCalls(t) \/ ThreadSteps(t)

(***************************************************************************)
(* A thread that has begun a call goes on with it; nobody has to call, and *)
(* no datagram has to arrive.                                              *)
(***************************************************************************)
Spec == Init /\ [][Next]_vars /\ \A t \in Threads : WF_vars(ThreadSteps(t))

-----------------------------------------------------------------------------
(* The ring's three indices agree: head and count give the tail, over and  *)
(* over through the wrap (RecvFrom pops, IncomingData pushes and drops the *)
(* oldest, Close resets all three, each under m_queue_mutex).              *)
RingWellFormed == m_rx_tail = (m_rx_head + m_rx_count) % QueueSize

(* Until Close, the event is signalled exactly while the ring holds data.  *)
(* Were it left signalled, blocking receivers would spin with EAGAIN; were *)
(* it left clear with data in the ring, they would sleep over it.          *)
EventTellsData == m_state # "Closed" => (m_receive_event <=> m_rx_count > 0)

(* Close releases the thread that is blocked in RecvFrom, whatever that    *)
(* thread was about to do when Close began: between its test of the state  *)
(* and its wait it must not miss the signal.  It holds with the program's  *)
(* two IPC threads, one of which is in Close.                              *)
CloseReleasesReceivers ==
  (m_state = "Closed") ~> (\A t \in Threads : pc[t] = "idle")

(* The datagrams in the ring, oldest first. *)
Queued == [i \in 1..m_rx_count |-> m_rx_ring[(m_rx_head + i - 1) % QueueSize]]

Abstract == INSTANCE DatagramQueue WITH
  Capacity <- QueueSize, queue <- Queued, closed <- (m_state = "Closed")

(* The socket implements DatagramQueue: the ring with its wrapping indices *)
(* is a queue in arrival order that forgets its oldest when it is full.    *)
ImplementsQueue == Abstract!QSpec
=============================================================================

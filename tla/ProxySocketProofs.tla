------------------------- MODULE ProxySocketProofs -------------------------
(***************************************************************************)
(* That a proxy socket implements DatagramQueue, and that its event tells  *)
(* what its ring holds, for any number of threads, any size of the ring    *)
(* and any number of datagrams.                                            *)
(***************************************************************************)
EXTENDS ProxySocket, SequenceTheorems, TLAPS

(***************************************************************************)
(* The inductive invariant.  A thread is inside Close only after it has    *)
(* closed the socket, and nothing opens a closed socket again.             *)
(***************************************************************************)
Closing == {"closeSignal", "closeClear", "closeTell"}
ClosingIsClosed == \A t \in Threads : pc[t] \in Closing => m_state = "Closed"
Inv == TypeOK /\ RingWellFormed /\ EventTellsData /\ ClosingIsClosed

USE ProxySocketAssumption

(***************************************************************************)
(* What the remainder does to an index: it wraps at most once.             *)
(***************************************************************************)
LEMMA Wrap ==
  ASSUME NEW h \in Slots, NEW n \in 0..QueueSize
  PROVE  /\ (h + n) % QueueSize = IF h + n < QueueSize THEN h + n ELSE h + n - QueueSize
         /\ (h + n) % QueueSize \in Slots
<1>1. CASE h + n < QueueSize
  BY <1>1 DEF Slots
<1>2. CASE h + n >= QueueSize
  BY <1>2 DEF Slots
<1>3. QED
  BY <1>1, <1>2 DEF Slots

(***************************************************************************)
(* Taking the oldest datagram out moves the head and keeps the tail.       *)
(***************************************************************************)
LEMMA PopIndices ==
  ASSUME NEW h \in Slots, NEW n \in 1..QueueSize
  PROVE  /\ (h + 1) % QueueSize \in Slots
         /\ (((h + 1) % QueueSize) + (n - 1)) % QueueSize = (h + n) % QueueSize
<1>1. 1 \in 0..QueueSize /\ n \in 0..QueueSize /\ n - 1 \in 0..QueueSize
  OBVIOUS
<1>2. PICK next \in Slots : /\ next = (h + 1) % QueueSize
                            /\ next = IF h + 1 < QueueSize THEN h + 1 ELSE h + 1 - QueueSize
  BY <1>1, Wrap
<1>3. (next + (n - 1)) % QueueSize =
        IF next + (n - 1) < QueueSize THEN next + (n - 1) ELSE next + (n - 1) - QueueSize
  BY <1>1, Wrap
<1>4. (h + n) % QueueSize = IF h + n < QueueSize THEN h + n ELSE h + n - QueueSize
  BY <1>1, Wrap
<1>5. (next + (n - 1)) % QueueSize = (h + n) % QueueSize
  <2>1. CASE h + 1 < QueueSize
    BY <1>2, <2>1 DEF Slots
  <2>2. CASE h + 1 >= QueueSize
    <3>1. h + 1 = QueueSize /\ next = 0
      BY <1>2, <2>2 DEF Slots
    <3>2. QED
      BY <1>3, <1>4, <3>1 DEF Slots
  <2>3. QED
    BY <2>1, <2>2 DEF Slots
<1>6. QED
  BY <1>2, <1>5

(***************************************************************************)
(* Putting one in moves the tail; in a full ring the head moves with it.   *)
(***************************************************************************)
LEMMA PushIndices ==
  ASSUME NEW h \in Slots, NEW n \in 0..QueueSize
  PROVE  /\ (((h + n) % QueueSize) + 1) % QueueSize \in Slots
         /\ n < QueueSize => (((h + n) % QueueSize) + 1) % QueueSize = (h + (n + 1)) % QueueSize
         /\ n = QueueSize =>
              (((h + n) % QueueSize) + 1) % QueueSize = (((h + 1) % QueueSize) + n) % QueueSize
<1>1. 1 \in 0..QueueSize
  OBVIOUS
<1>2. PICK tail \in Slots : /\ tail = (h + n) % QueueSize
                            /\ tail = IF h + n < QueueSize THEN h + n ELSE h + n - QueueSize
  BY Wrap
<1>3. /\ (tail + 1) % QueueSize \in Slots
      /\ (tail + 1) % QueueSize = IF tail + 1 < QueueSize THEN tail + 1 ELSE tail + 1 - QueueSize
  BY <1>1, Wrap
<1>4. n < QueueSize => (tail + 1) % QueueSize = (h + (n + 1)) % QueueSize
  <2>1. SUFFICES ASSUME n < QueueSize
                 PROVE  (tail + 1) % QueueSize = (h + (n + 1)) % QueueSize
    OBVIOUS
  <2>2. n + 1 \in 0..QueueSize
    BY <2>1
  <2>3. (h + (n + 1)) % QueueSize =
          IF h + (n + 1) < QueueSize THEN h + (n + 1) ELSE h + (n + 1) - QueueSize
    BY <2>2, Wrap
  <2>4. QED
    BY <1>2, <1>3, <2>1, <2>3 DEF Slots
<1>5. n = QueueSize => (tail + 1) % QueueSize = (((h + 1) % QueueSize) + n) % QueueSize
  <2>1. SUFFICES ASSUME n = QueueSize
                 PROVE  (tail + 1) % QueueSize = (((h + 1) % QueueSize) + n) % QueueSize
    OBVIOUS
  <2>2. tail = h
    BY <1>2, <2>1 DEF Slots
  <2>3. PICK next \in Slots : next = (h + 1) % QueueSize
    BY <1>1, Wrap
  <2>4. (next + n) % QueueSize = next
    <3>1. (next + n) % QueueSize = IF next + n < QueueSize THEN next + n ELSE next + n - QueueSize
      BY Wrap
    <3>2. QED
      BY <2>1, <3>1 DEF Slots
  <2>5. QED
    BY <2>2, <2>3, <2>4
<1>6. QED
  BY <1>2, <1>3, <1>4, <1>5

(***************************************************************************)
(* A socket that has just been made.                                       *)
(***************************************************************************)
LEMMA InitInv == Init => Inv
<1> SUFFICES ASSUME Init PROVE Inv
  OBVIOUS
<1>1. TypeOK
  <2>1. 0 \in Slots /\ 0 \in 0..QueueSize /\ 0 \in 0..MaxArrivals
    BY DEF Slots
  <2>2. m_rx_ring \in [Slots -> 0..MaxArrivals]
    BY <2>1 DEF Init
  <2>3. /\ pc \in [Threads -> Pc]
        /\ flags \in [Threads -> [peek : BOOLEAN, dontwait : BOOLEAN]]
    BY DEF Init, Pc, NoFlags
  <2>4. result \in [Threads ->
                     [code : Refusals \cup {"none", "data"}, datagram : 0..MaxArrivals]]
    BY <2>1 DEF Init
  <2>5. m_protocol \in {"Udp", "Tcp"} /\ m_state \in State
    BY DEF Init, State
  <2>6. QED
    BY <2>1, <2>2, <2>3, <2>4, <2>5, Zenon DEF Init, TypeOK
<1>2. RingWellFormed
  <2>1. 0 \in Slots /\ 0 \in 0..QueueSize
    BY DEF Slots
  <2>2. (0 + 0) % QueueSize = 0
    BY <2>1, Wrap
  <2>3. QED
    BY <2>2 DEF Init, RingWellFormed
<1>3. EventTellsData /\ ClosingIsClosed
  BY DEF Init, EventTellsData, ClosingIsClosed, Closing
<1>4. QED
  BY <1>1, <1>2, <1>3 DEF Inv

(***************************************************************************)
(* The result a receiving call leaves has its type.                        *)
(***************************************************************************)
LEMMA Results ==
  ASSUME TypeOK, NEW t \in Threads
  PROVE  /\ \A r \in Refusals : Answer(t, r) =>
              result' \in [Threads ->
                [code : Refusals \cup {"none", "data"}, datagram : 0..MaxArrivals]]
         /\ \A d \in 0..MaxArrivals : Deliver(t, d) =>
              result' \in [Threads ->
                [code : Refusals \cup {"none", "data"}, datagram : 0..MaxArrivals]]
<1>1. 0 \in 0..MaxArrivals
  OBVIOUS
<1> DEFINE R == [code : Refusals \cup {"none", "data"}, datagram : 0..MaxArrivals]
<1>2. result \in [Threads -> R]
  BY DEF TypeOK
<1>3. ASSUME NEW r \in Refusals, Answer(t, r) PROVE result' \in [Threads -> R]
  <2>1. [code |-> r, datagram |-> 0] \in R
    BY <1>1
  <2> HIDE DEF R
  <2>2. QED
    BY <1>2, <1>3, <2>1 DEF Answer
<1>4. ASSUME NEW d \in 0..MaxArrivals, Deliver(t, d) PROVE result' \in [Threads -> R]
  <2>1. [code |-> "data", datagram |-> d] \in R
    OBVIOUS
  <2> HIDE DEF R
  <2>2. QED
    BY <1>2, <1>4, <2>1 DEF Deliver
<1>5. QED
  BY <1>3, <1>4

(***************************************************************************)
(* consume_front: the oldest datagram, and the event with the last one.    *)
(***************************************************************************)
LEMMA ConsumeFrontInv ==
  ASSUME Inv, NEW t \in Threads, m_rx_count # 0, ConsumeFront(t), Return(t),
         UNCHANGED <<stateVars, m_rx_ring, m_rx_tail, arrived>>
  PROVE  Inv'
<1> USE DEF stateVars
<1>1. m_rx_count \in 1..QueueSize /\ m_rx_head \in Slots
  BY DEF Inv, TypeOK
<1>2. m_rx_ring[m_rx_head] \in 0..MaxArrivals
  BY DEF Inv, TypeOK
<1>3. /\ m_rx_head' \in Slots /\ m_rx_count' \in 0..QueueSize
      /\ (m_rx_head' + m_rx_count') % QueueSize = (m_rx_head + m_rx_count) % QueueSize
  BY <1>1, PopIndices DEF ConsumeFront
<1>4. m_receive_event' = (m_receive_event /\ m_rx_count' # 0)
  BY DEF ConsumeFront
<1>5. TypeOK'
  <2>1. result' \in [Threads ->
          [code : Refusals \cup {"none", "data"}, datagram : 0..MaxArrivals]]
    BY <1>2, Results DEF ConsumeFront, Inv
  <2>2. /\ pc' \in [Threads -> Pc]
        /\ flags' \in [Threads -> [peek : BOOLEAN, dontwait : BOOLEAN]]
    BY DEF Return, Goto, NoFlags, Inv, TypeOK, Pc
  <2>3. m_receive_event' \in BOOLEAN
    BY <1>4
  <2>4. QED
    BY <1>3, <2>1, <2>2, <2>3, Zenon DEF Inv, TypeOK
<1>6. RingWellFormed'
  BY <1>3 DEF RingWellFormed, Inv
<1>7. EventTellsData'
  <2>1. m_state' # "Closed" => m_receive_event
    BY <1>1 DEF EventTellsData, Inv
  <2>2. m_state' # "Closed" => (m_receive_event' <=> m_rx_count' # 0)
    BY <1>4, <2>1, Zenon
  <2>3. m_rx_count' # 0 <=> m_rx_count' > 0
    BY <1>3
  <2>4. QED
    BY <2>2, <2>3, Zenon DEF EventTellsData
<1>8. ClosingIsClosed'
  BY DEF ClosingIsClosed, Closing, Return, Goto, Inv, TypeOK
<1>9. QED
  BY <1>5, <1>6, <1>7, <1>8 DEF Inv

(***************************************************************************)
(* The calls that are one step, and the tests that open RecvFrom and Recv. *)
(***************************************************************************)
LEMMA CallsInv ==
  ASSUME Inv, NEW t \in Threads, ThreadCalls(t)
  PROVE  Inv'
<1> USE DEF Inv, ringVars, stateVars
<1>1. CASE Bind(t) \/ Connect(t)
  <2>1. /\ m_state # "Closed" /\ m_state' \in State \ {"Closed"} /\ m_has_remote' \in BOOLEAN
        /\ UNCHANGED <<m_protocol, m_non_blocking, m_shutdown, ringVars, m_receive_event, pc,
                       flags, result, arrived>>
    BY <1>1 DEF Bind, Connect, TypeOK, State
  <2>2. TypeOK'
    BY <2>1, Zenon DEF TypeOK
  <2>3. QED
    BY <2>1, <2>2 DEF RingWellFormed, EventTellsData, ClosingIsClosed
<1>2. CASE SetNonBlocking(t)
  BY <1>2 DEF SetNonBlocking, TypeOK, RingWellFormed, EventTellsData, ClosingIsClosed
<1>3. ASSUME RecvFrom(t) PROVE Inv'
  <2>1. UNCHANGED <<stateVars, ringVars, m_receive_event, arrived>>
    BY <1>3 DEF RecvFrom
  <2>2. /\ pc' \in [Threads -> Pc]
        /\ \A u \in Threads : pc'[u] \in Closing => pc[u] \in Closing
    BY <1>3 DEF RecvFrom, Goto, TypeOK, Pc, Closing
  <2>3. flags' \in [Threads -> [peek : BOOLEAN, dontwait : BOOLEAN]]
    BY <1>3 DEF RecvFrom, TypeOK
  <2>4. result' \in [Threads ->
          [code : Refusals \cup {"none", "data"}, datagram : 0..MaxArrivals]]
    BY <1>3, Results DEF RecvFrom, TypeOK, Refusals
  <2>5. TypeOK'
    BY <2>1, <2>2, <2>3, <2>4, Zenon DEF TypeOK
  <2>6. QED
    BY <2>1, <2>2, <2>5 DEF RingWellFormed, EventTellsData, ClosingIsClosed
<1>4. CASE Recv(t)
  <2>1. CASE RecvFrom(t)
    BY <1>3, <2>1
  <2>2. CASE Answer(t, "NotConn")
             /\ UNCHANGED <<stateVars, ringVars, m_receive_event, pc, flags, arrived>>
    <3>1. TypeOK'
      BY <2>2, Results DEF TypeOK, Refusals
    <3>2. QED
      BY <2>2, <3>1 DEF RingWellFormed, EventTellsData, ClosingIsClosed
  <2>3. QED
    BY <1>4, <2>1, <2>2 DEF Recv
<1>5. CASE Close(t)
  BY <1>5 DEF Close, Goto, TypeOK, State, Pc, RingWellFormed, EventTellsData, ClosingIsClosed
<1>6. QED
  BY <1>1, <1>2, <1>3, <1>4, <1>5 DEF ThreadCalls

(***************************************************************************)
(* The rest of RecvFrom and of Close.                                      *)
(***************************************************************************)
LEMMA StepsInv ==
  ASSUME Inv, NEW t \in Threads, ThreadSteps(t)
  PROVE  Inv'
<1> USE DEF Inv, ringVars, stateVars
<1>1. CASE RecvLock(t)
  <2>1. CASE m_rx_count # 0
    BY <1>1, <2>1, ConsumeFrontInv DEF RecvLock
  <2>2. CASE m_rx_count = 0
    <3>1. UNCHANGED <<stateVars, ringVars, m_receive_event, arrived>>
      BY <1>1, <2>2 DEF RecvLock
    <3>2. /\ pc' \in [Threads -> Pc]
          /\ \A u \in Threads : pc'[u] \in Closing => pc[u] \in Closing
      BY <1>1, <2>2 DEF RecvLock, Return, Goto, TypeOK, Pc, Closing
    <3>3. flags' \in [Threads -> [peek : BOOLEAN, dontwait : BOOLEAN]]
      <4>1. CASE flags' = flags
        BY <4>1 DEF TypeOK
      <4>2. CASE flags' = [flags EXCEPT ![t] = NoFlags]
        BY <4>2 DEF NoFlags, TypeOK
      <4>3. QED
        BY <1>1, <2>2, <4>1, <4>2 DEF RecvLock, Return
    <3>4. result' \in [Threads ->
            [code : Refusals \cup {"none", "data"}, datagram : 0..MaxArrivals]]
      BY <1>1, <2>2, Results DEF RecvLock, TypeOK, Refusals
    <3>5. TypeOK'
      BY <3>1, <3>2, <3>3, <3>4, Zenon DEF TypeOK
    <3>6. QED
      BY <3>1, <3>2, <3>5 DEF RingWellFormed, EventTellsData, ClosingIsClosed
  <2>3. QED
    BY <2>1, <2>2
<1>2. CASE RecvWait(t)
  BY <1>2 DEF RecvWait, Goto, TypeOK, Pc, RingWellFormed, EventTellsData, ClosingIsClosed, Closing
<1>3. CASE RecvRelock(t)
  <2>1. CASE m_rx_count # 0
    BY <1>3, <2>1, ConsumeFrontInv DEF RecvRelock
  <2>2. CASE m_rx_count = 0
    <3>1. UNCHANGED <<stateVars, ringVars, m_receive_event, arrived>>
      BY <1>3, <2>2 DEF RecvRelock
    <3>2. /\ pc' \in [Threads -> Pc]
          /\ \A u \in Threads : pc'[u] \in Closing => pc[u] \in Closing
          /\ flags' \in [Threads -> [peek : BOOLEAN, dontwait : BOOLEAN]]
      BY <1>3, <2>2 DEF RecvRelock, Return, Goto, NoFlags, TypeOK, Pc, Closing
    <3>3. result' \in [Threads ->
            [code : Refusals \cup {"none", "data"}, datagram : 0..MaxArrivals]]
      BY <1>3, <2>2, Results DEF RecvRelock, TypeOK, Refusals
    <3>4. TypeOK'
      BY <3>1, <3>2, <3>3, Zenon DEF TypeOK
    <3>5. QED
      BY <3>1, <3>2, <3>4 DEF RingWellFormed, EventTellsData, ClosingIsClosed
  <2>3. QED
    BY <2>1, <2>2
<1>4. CASE CloseSignal(t)
  BY <1>4 DEF CloseSignal, Released, TypeOK, Pc, RingWellFormed, EventTellsData, ClosingIsClosed,
              Closing
<1>5. CASE CloseClear(t)
  <2>1. 0 \in Slots /\ 0 \in 0..QueueSize /\ 0 % QueueSize = 0
    BY Wrap DEF Slots
  <2>2. QED
    BY <1>5, <2>1 DEF CloseClear, Goto, TypeOK, Pc, RingWellFormed, EventTellsData,
                      ClosingIsClosed, Closing
<1>6. CASE CloseTell(t)
  BY <1>6 DEF CloseTell, Goto, TypeOK, Pc, RingWellFormed, EventTellsData, ClosingIsClosed, Closing
<1>7. QED
  BY <1>1, <1>2, <1>3, <1>4, <1>5, <1>6 DEF ThreadSteps

(***************************************************************************)
(* IncomingData: the tail moves on, and over the oldest in a full ring.    *)
(***************************************************************************)
LEMMA IncomingInv ==
  ASSUME Inv, IncomingData
  PROVE  Inv'
<1> USE DEF Inv, IncomingData, stateVars
<1>1. m_rx_head \in Slots /\ m_rx_count \in 0..QueueSize /\ m_rx_tail \in Slots
  BY DEF TypeOK
<1>2. /\ m_rx_head' \in Slots /\ m_rx_count' \in 1..QueueSize /\ m_rx_tail' \in Slots
      /\ m_rx_tail' = (m_rx_head' + m_rx_count') % QueueSize
  <2>1. (m_rx_head + 1) % QueueSize \in Slots
    BY <1>1, Wrap
  <2>2. CASE m_rx_count < QueueSize
    BY <1>1, <2>1, <2>2, PushIndices DEF RingWellFormed
  <2>3. CASE m_rx_count = QueueSize
    BY <1>1, <2>1, <2>3, PushIndices DEF RingWellFormed
  <2>4. QED
    BY <1>1, <2>2, <2>3
<1>3. TypeOK'
  <2>1. arrived + 1 \in 0..MaxArrivals
    BY DEF TypeOK
  <2>2. m_rx_ring' \in [Slots -> 0..MaxArrivals]
    BY <2>1 DEF TypeOK
  <2>3. pc' \in [Threads -> Pc]
    BY DEF TypeOK, Released, Pc
  <2>4. m_rx_count' \in 0..QueueSize
    BY <1>2
  <2>5. QED
    BY <1>2, <2>1, <2>2, <2>3, <2>4, Zenon DEF TypeOK
<1>4. EventTellsData' /\ ClosingIsClosed'
  BY <1>2 DEF EventTellsData, ClosingIsClosed, Closing, Released, TypeOK
<1>5. QED
  BY <1>2, <1>3, <1>4 DEF RingWellFormed

(***************************************************************************)
(* Every step keeps the invariant.                                         *)
(***************************************************************************)
LEMMA NextInv == Inv /\ [Next]_vars => Inv'
<1> SUFFICES ASSUME Inv, [Next]_vars PROVE Inv'
  OBVIOUS
<1>1. CASE Next
  BY <1>1, IncomingInv, CallsInv, StepsInv DEF Next
<1>2. CASE UNCHANGED vars
  BY <1>2 DEF vars, ringVars, stateVars, Inv, TypeOK, RingWellFormed, EventTellsData,
              ClosingIsClosed
<1>3. QED
  BY <1>1, <1>2

(***************************************************************************)
(* The invariant holds of every state of a socket.                         *)
(***************************************************************************)
LEMMA Invariance == Spec => []Inv
BY InitInv, NextInv, PTL DEF Spec

(***************************************************************************)
(* Until Close the receive event is signalled exactly while the ring holds *)
(* a datagram, whoever receives and peeks and however the ring wraps.      *)
(***************************************************************************)
THEOREM EventTellsTheTruth == Spec => []EventTellsData
<1>1. Inv => EventTellsData
  BY DEF Inv
<1>2. QED
  BY <1>1, Invariance, PTL

-----------------------------------------------------------------------------
(***************************************************************************)
(* The refinement mapping: what Queued is, as a sequence.                  *)
(***************************************************************************)
QueuedOK ==
  /\ Queued \in Seq(Nat) /\ Len(Queued) = m_rx_count
  /\ \A i \in 1..m_rx_count : Queued[i] = m_rx_ring[(m_rx_head + (i - 1)) % QueueSize]

\* The ring, read from its head, is a sequence of m_rx_count datagrams.
LEMMA QueuedIsSeq == TypeOK => QueuedOK
<1> SUFFICES ASSUME TypeOK PROVE QueuedOK
  OBVIOUS
<1>1. m_rx_count \in Nat /\ m_rx_head \in Slots
  BY DEF TypeOK
<1>2. \A i \in 1..m_rx_count :
        /\ m_rx_head + i - 1 = m_rx_head + (i - 1)
        /\ m_rx_ring[(m_rx_head + (i - 1)) % QueueSize] \in Nat
  <2>1. SUFFICES ASSUME NEW i \in 1..m_rx_count
                 PROVE  /\ m_rx_head + i - 1 = m_rx_head + (i - 1)
                        /\ m_rx_ring[(m_rx_head + (i - 1)) % QueueSize] \in Nat
    OBVIOUS
  <2>2. i - 1 \in 0..QueueSize
    BY DEF TypeOK
  <2>3. (m_rx_head + (i - 1)) % QueueSize \in Slots
    BY <1>1, <2>2, Wrap
  <2>4. QED
    BY <1>1, <2>3 DEF TypeOK, Slots
<1>3. Queued = [i \in 1..m_rx_count |-> m_rx_ring[(m_rx_head + (i - 1)) % QueueSize]]
  BY <1>2 DEF Queued
<1>4. Queued \in [1..m_rx_count -> Nat]
  BY <1>2, <1>3
<1>5. Queued \in Seq(Nat)
  BY <1>1, <1>4, SeqDef
<1>6. Len(Queued) = m_rx_count
  BY <1>1, <1>4, <1>5, LenProperties
<1>7. QED
  BY <1>3, <1>5, <1>6 DEF QueuedOK

(***************************************************************************)
(* Moving the head on takes the head of the sequence off.                  *)
(***************************************************************************)
LEMMA QueuedPop ==
  ASSUME TypeOK, TypeOK', m_rx_count # 0, m_rx_ring' = m_rx_ring,
         m_rx_head' = (m_rx_head + 1) % QueueSize, m_rx_count' = m_rx_count - 1
  PROVE  Queued' = Tail(Queued)
<1>1. m_rx_count \in 1..QueueSize /\ m_rx_head \in Slots
  BY DEF TypeOK
<1>2. /\ Queued \in Seq(Nat) /\ Len(Queued) = m_rx_count
      /\ \A i \in 1..m_rx_count : Queued[i] = m_rx_ring[(m_rx_head + (i - 1)) % QueueSize]
  BY QueuedIsSeq DEF QueuedOK
<1>3. /\ Queued' \in Seq(Nat) /\ Len(Queued') = m_rx_count'
      /\ \A i \in 1..m_rx_count' : Queued'[i] = m_rx_ring[(m_rx_head' + (i - 1)) % QueueSize]
  <2>1. QueuedOK'
    BY QueuedIsSeq, PTL
  <2>2. QED
    BY <2>1 DEF QueuedOK
<1>4. Queued # <<>>
  BY <1>1, <1>2
<1>5. /\ Tail(Queued) \in Seq(Nat) /\ Len(Tail(Queued)) = m_rx_count - 1
      /\ \A i \in 1..m_rx_count - 1 : Tail(Queued)[i] = Queued[i + 1]
  BY <1>2, <1>4, HeadTailProperties
<1>6. ASSUME NEW i \in 1..m_rx_count - 1 PROVE Queued'[i] = Tail(Queued)[i]
  <2>1. i \in 1..QueueSize /\ i + 1 \in 1..m_rx_count /\ (i + 1) - 1 = i
    BY <1>1
  <2>2. (((m_rx_head + 1) % QueueSize) + (i - 1)) % QueueSize = (m_rx_head + i) % QueueSize
    BY <1>1, <2>1, PopIndices
  <2>3. Queued'[i] = m_rx_ring[(m_rx_head + i) % QueueSize]
    BY <1>3, <2>2
  <2>4. Tail(Queued)[i] = m_rx_ring[(m_rx_head + i) % QueueSize]
    BY <1>2, <1>5, <2>1
  <2>5. QED
    BY <2>3, <2>4
<1>7. QED
  BY <1>3, <1>5, <1>6, SeqEqual

(***************************************************************************)
(* A datagram that arrives is appended, after the oldest has made room.    *)
(***************************************************************************)
LEMMA QueuedPush ==
  ASSUME Inv, Inv', IncomingData
  PROVE  Queued' = Append(IF Len(Queued) = QueueSize THEN Tail(Queued) ELSE Queued, arrived + 1)
<1> DEFINE kept == IF Len(Queued) = QueueSize THEN Tail(Queued) ELSE Queued
<1>1. m_rx_count \in 0..QueueSize /\ m_rx_head \in Slots /\ m_rx_tail \in Slots
      /\ m_rx_tail = (m_rx_head + m_rx_count) % QueueSize /\ arrived + 1 \in Nat
      /\ m_rx_ring \in [Slots -> 0..MaxArrivals]
  BY DEF Inv, TypeOK, RingWellFormed
<1>2. /\ Queued \in Seq(Nat) /\ Len(Queued) = m_rx_count
      /\ \A i \in 1..m_rx_count : Queued[i] = m_rx_ring[(m_rx_head + (i - 1)) % QueueSize]
  BY QueuedIsSeq DEF Inv, QueuedOK
<1>3. /\ Queued' \in Seq(Nat) /\ Len(Queued') = m_rx_count'
      /\ \A i \in 1..m_rx_count' : Queued'[i] = m_rx_ring'[(m_rx_head' + (i - 1)) % QueueSize]
  <2>1. TypeOK'
    BY DEF Inv
  <2>2. QueuedOK'
    BY <2>1, QueuedIsSeq, PTL
  <2>3. QED
    BY <2>2 DEF QueuedOK
<1>4. m_rx_ring' = [m_rx_ring EXCEPT ![m_rx_tail] = arrived + 1]
  BY DEF IncomingData
<1>5. CASE m_rx_count < QueueSize
  <2>1. kept = Queued /\ m_rx_head' = m_rx_head /\ m_rx_count' = m_rx_count + 1
    BY <1>1, <1>2, <1>5 DEF IncomingData
  <2>2. /\ Append(kept, arrived + 1) \in Seq(Nat)
        /\ Len(Append(kept, arrived + 1)) = m_rx_count + 1
        /\ \A i \in 1..m_rx_count : Append(kept, arrived + 1)[i] = Queued[i]
        /\ Append(kept, arrived + 1)[m_rx_count + 1] = arrived + 1
    BY <1>1, <1>2, <2>1, AppendProperties
  <2>3. ASSUME NEW i \in 1..m_rx_count PROVE Queued'[i] = Append(kept, arrived + 1)[i]
    <3>1. i - 1 \in 0..QueueSize /\ i \in 1..m_rx_count'
      BY <1>1, <2>1
    <3>2. PICK at \in Slots : /\ at = (m_rx_head + (i - 1)) % QueueSize
                              /\ at = IF m_rx_head + (i - 1) < QueueSize
                                      THEN m_rx_head + (i - 1)
                                      ELSE m_rx_head + (i - 1) - QueueSize
      BY <1>1, <3>1, Wrap
    <3>3. m_rx_tail = IF m_rx_head + m_rx_count < QueueSize THEN m_rx_head + m_rx_count
                      ELSE m_rx_head + m_rx_count - QueueSize
      BY <1>1, Wrap
    <3>4. at # m_rx_tail
      BY <1>1, <1>5, <3>2, <3>3 DEF Slots
    <3>5. m_rx_ring'[at] = m_rx_ring[at]
      BY <1>1, <1>4, <3>4
    <3>6. QED
      BY <1>2, <1>3, <2>1, <2>2, <3>1, <3>2, <3>5
  <2>4. Queued'[m_rx_count + 1] = arrived + 1
    <3>1. m_rx_count + 1 \in 1..m_rx_count' /\ (m_rx_count + 1) - 1 = m_rx_count
      BY <1>1, <2>1
    <3>2. m_rx_ring'[m_rx_tail] = arrived + 1
      BY <1>1, <1>4
    <3>3. QED
      BY <1>1, <1>3, <2>1, <3>1, <3>2
  <2>5. \A i \in 1..m_rx_count + 1 : Queued'[i] = Append(kept, arrived + 1)[i]
    BY <1>1, <2>2, <2>3, <2>4
  <2>6. QED
    BY <1>3, <2>1, <2>2, <2>5, SeqEqual
<1>6. CASE m_rx_count = QueueSize
  <2>1. /\ kept = Tail(Queued) /\ m_rx_head' = (m_rx_head + 1) % QueueSize
        /\ m_rx_count' = QueueSize /\ m_rx_head' \in Slots
    BY <1>1, <1>2, <1>6 DEF IncomingData, Inv, TypeOK
  <2>2. Queued # <<>>
    BY <1>2, <1>6
  <2>3. /\ Tail(Queued) \in Seq(Nat) /\ Len(Tail(Queued)) = QueueSize - 1
        /\ \A i \in 1..QueueSize - 1 : Tail(Queued)[i] = Queued[i + 1]
    BY <1>2, <1>6, <2>2, HeadTailProperties
  <2>4. /\ Append(kept, arrived + 1) \in Seq(Nat)
        /\ Len(Append(kept, arrived + 1)) = QueueSize
        /\ \A i \in 1..QueueSize - 1 : Append(kept, arrived + 1)[i] = Queued[i + 1]
        /\ Append(kept, arrived + 1)[QueueSize] = arrived + 1
    BY <1>1, <2>1, <2>3, AppendProperties
  <2>5. m_rx_tail = m_rx_head
    <3>1. m_rx_tail = IF m_rx_head + QueueSize < QueueSize THEN m_rx_head + QueueSize
                      ELSE m_rx_head + QueueSize - QueueSize
      BY <1>1, <1>6, Wrap
    <3>2. QED
      BY <1>1, <3>1 DEF Slots
  <2>6. ASSUME NEW i \in 1..QueueSize - 1 PROVE Queued'[i] = Append(kept, arrived + 1)[i]
    <3>1. i \in 0..QueueSize /\ i \in 1..QueueSize /\ i + 1 \in 1..QueueSize /\ (i + 1) - 1 = i
      OBVIOUS
    <3>2. PICK at \in Slots : /\ at = (m_rx_head + i) % QueueSize
                              /\ at = IF m_rx_head + i < QueueSize
                                      THEN m_rx_head + i ELSE m_rx_head + i - QueueSize
      BY <1>1, <3>1, Wrap
    <3>3. at # m_rx_tail
      BY <1>1, <2>5, <3>2 DEF Slots
    <3>4. m_rx_ring'[at] = m_rx_ring[at]
      BY <1>1, <1>4, <3>3
    <3>5. (m_rx_head' + (i - 1)) % QueueSize = (m_rx_head + i) % QueueSize
      BY <1>1, <2>1, <3>1, PopIndices
    <3>6. Queued'[i] = m_rx_ring[at]
      BY <1>3, <2>1, <3>1, <3>2, <3>4, <3>5
    <3>7. Queued[i + 1] = m_rx_ring[at]
      BY <1>2, <1>6, <3>1, <3>2
    <3>8. QED
      BY <2>4, <3>6, <3>7
  <2>7. Queued'[QueueSize] = arrived + 1
    <3>1. QueueSize \in 1..QueueSize
      OBVIOUS
    <3>2. (m_rx_head' + (QueueSize - 1)) % QueueSize = (m_rx_head + QueueSize) % QueueSize
      BY <1>1, <2>1, <3>1, PopIndices
    <3>3. m_rx_ring'[m_rx_tail] = arrived + 1
      BY <1>1, <1>4
    <3>4. QED
      BY <1>1, <1>3, <1>6, <2>1, <3>1, <3>2, <3>3
  <2>8. \A i \in 1..QueueSize : Queued'[i] = Append(kept, arrived + 1)[i]
    BY <2>4, <2>6, <2>7
  <2>9. QED
    BY <1>3, <2>1, <2>4, <2>8, SeqEqual
<1>7. QED
  BY <1>1, <1>5, <1>6

(***************************************************************************)
(* An empty socket is an empty queue.                                      *)
(***************************************************************************)
LEMMA InitRefines == Init => Abstract!QInit
<1> SUFFICES ASSUME Init PROVE Abstract!QInit
  OBVIOUS
<1>1. QueuedOK
  BY InitInv, QueuedIsSeq DEF Inv
<1>2. Queued = <<>>
  BY <1>1, EmptySeq DEF Init, QueuedOK
<1>3. QED
  BY <1>2 DEF Init, Abstract!QInit

(***************************************************************************)
(* A critical section that takes a datagram is a Receive of the queue.     *)
(***************************************************************************)
LEMMA ConsumeRefines ==
  ASSUME Inv, Inv', NEW t \in Threads, m_rx_count # 0, ConsumeFront(t),
         UNCHANGED <<stateVars, m_rx_ring, m_rx_tail, arrived>>
  PROVE  Abstract!QNext
<1>1. TypeOK /\ TypeOK' /\ m_rx_count \in 1..QueueSize /\ m_rx_head \in Slots
  BY DEF Inv, TypeOK
<1>2. QueuedOK
  BY <1>1, QueuedIsSeq
<1>3. Queued # <<>> /\ Head(Queued) = m_rx_ring[m_rx_head]
  <2>1. (m_rx_head + (1 - 1)) % QueueSize = m_rx_head
    <3>1. m_rx_head + (1 - 1) = m_rx_head
      BY <1>1 DEF Slots
    <3>2. m_rx_head % QueueSize = m_rx_head
      BY <1>1 DEF Slots
    <3>3. QED
      BY <3>1, <3>2
  <2>2. Queued[1] = m_rx_ring[m_rx_head]
    BY <1>1, <1>2, <2>1 DEF QueuedOK
  <2>3. Queued # <<>>
    BY <1>1, <1>2 DEF QueuedOK
  <2>4. QED
    BY <1>2, <2>2, <2>3 DEF QueuedOK
<1>4. Queued' \in {Queued, Tail(Queued)}
  <2>1. CASE flags[t].peek
    BY <2>1 DEF ConsumeFront, Queued
  <2>2. CASE ~flags[t].peek
    BY <1>1, <2>2, QueuedPop DEF ConsumeFront
  <2>3. QED
    BY <2>1, <2>2
<1>5. Abstract!Receive(t)
  BY <1>3, <1>4 DEF Abstract!Receive, ConsumeFront, Deliver, stateVars
<1>6. QED
  BY <1>5 DEF Abstract!QNext

(***************************************************************************)
(* A call that is refused is a Refuse of the queue, and what changes       *)
(* neither the ring nor the result nor the life of the socket a stutter.   *)
(***************************************************************************)
LEMMA RefuseRefines ==
  ASSUME NEW t \in Threads, NEW r \in Refusals, Answer(t, r),
         UNCHANGED <<m_rx_ring, m_rx_head, m_rx_count, arrived, m_state>>
  PROVE  Abstract!QNext
<1>1. Queued' = Queued
  BY DEF Queued
<1>2. Abstract!Refuse(t)
  BY <1>1 DEF Abstract!Refuse, Answer
<1>3. QED
  BY <1>2 DEF Abstract!QNext

\* A step that changes nothing of the socket changes nothing of the queue.
LEMMA StutterRefines ==
  ASSUME UNCHANGED <<m_rx_ring, m_rx_head, m_rx_count, arrived, result>>,
         (m_state = "Closed")' = (m_state = "Closed")
  PROVE  UNCHANGED Abstract!abstractVars
BY DEF Queued, Abstract!abstractVars

(***************************************************************************)
(* Every step of the socket is a step of the queue or none.                *)
(***************************************************************************)
LEMMA NextRefines ==
  ASSUME Inv, Inv', [Next]_vars
  PROVE  [Abstract!QNext]_Abstract!abstractVars
<1> USE DEF stateVars, ringVars
<1>1. CASE IncomingData
  <2>1. Queued' = Append(IF Len(Queued) = QueueSize THEN Tail(Queued) ELSE Queued, arrived + 1)
    BY <1>1, QueuedPush
  <2>2. Abstract!Arrive
    BY <1>1, <2>1 DEF IncomingData, Abstract!Arrive
  <2>3. QED
    BY <2>2 DEF Abstract!QNext
<1>2. ASSUME NEW t \in Threads, ThreadCalls(t)
      PROVE  [Abstract!QNext]_Abstract!abstractVars
  <2>1. CASE Bind(t) \/ Connect(t) \/ SetNonBlocking(t)
    BY <2>1, StutterRefines DEF Bind, Connect, SetNonBlocking
  <2>2. CASE RecvFrom(t) \/ Recv(t)
    <3>1. \/ UNCHANGED result
          \/ \E r \in Refusals : Answer(t, r)
      BY <2>2 DEF RecvFrom, Recv, Refusals
    <3>2. UNCHANGED <<m_rx_ring, m_rx_head, m_rx_count, arrived, m_state>>
      BY <2>2 DEF RecvFrom, Recv
    <3>3. QED
      BY <3>1, <3>2, RefuseRefines, StutterRefines
  <2>3. CASE Close(t)
    <3>1. Queued' = Queued
      BY <2>3 DEF Close, Queued
    <3>2. Abstract!Shut
      BY <2>3, <3>1 DEF Close, Abstract!Shut
    <3>3. QED
      BY <3>2 DEF Abstract!QNext
  <2>4. QED
    BY <1>2, <2>1, <2>2, <2>3 DEF ThreadCalls
<1>3. ASSUME NEW t \in Threads, ThreadSteps(t)
      PROVE  [Abstract!QNext]_Abstract!abstractVars
  <2>1. CASE RecvLock(t) \/ RecvRelock(t)
    <3>1. CASE m_rx_count # 0
      BY <2>1, <3>1, ConsumeRefines DEF RecvLock, RecvRelock
    <3>2. CASE m_rx_count = 0
      <4>1. \/ UNCHANGED result
            \/ \E r \in Refusals : Answer(t, r)
        BY <2>1, <3>2 DEF RecvLock, RecvRelock, Refusals
      <4>2. UNCHANGED <<m_rx_ring, m_rx_head, m_rx_count, arrived, m_state>>
        BY <2>1, <3>2 DEF RecvLock, RecvRelock
      <4>3. QED
        BY <4>1, <4>2, RefuseRefines, StutterRefines
    <3>3. QED
      BY <3>1, <3>2
  <2>2. CASE RecvWait(t) \/ CloseSignal(t) \/ CloseTell(t)
    BY <2>2, StutterRefines DEF RecvWait, CloseSignal, CloseTell
  <2>3. CASE CloseClear(t)
    <3>1. m_state = "Closed"
      BY <2>3 DEF CloseClear, Inv, ClosingIsClosed, Closing
    <3>2. Queued' = <<>>
      <4>1. TypeOK' /\ m_rx_count' = 0
        BY <2>3 DEF Inv, CloseClear
      <4>2. QueuedOK'
        BY <4>1, QueuedIsSeq, PTL
      <4>3. QED
        BY <4>1, <4>2, EmptySeq DEF QueuedOK
    <3>3. Abstract!Discard
      BY <2>3, <3>1, <3>2 DEF CloseClear, Abstract!Discard
    <3>4. QED
      BY <3>3 DEF Abstract!QNext
  <2>4. QED
    BY <1>3, <2>1, <2>2, <2>3 DEF ThreadSteps
<1>4. CASE UNCHANGED vars
  BY <1>4, StutterRefines DEF vars
<1>5. QED
  BY <1>1, <1>2, <1>3, <1>4 DEF Next

(***************************************************************************)
(* A proxy socket implements DatagramQueue: datagrams are received in the  *)
(* order of their arrival, each at most once, one is lost only when a full *)
(* ring of newer ones waits behind it, and nothing is received from a      *)
(* closed socket that has thrown its ring away.                            *)
(***************************************************************************)
THEOREM SocketImplementsQueue == Spec => ImplementsQueue
<1>1. Spec => Abstract!QInit /\ [][Abstract!QNext]_Abstract!abstractVars
  BY InitRefines, Invariance, NextRefines, PTL DEF Spec
<1>2. QED
  BY <1>1 DEF ImplementsQueue, Abstract!QSpec
=============================================================================

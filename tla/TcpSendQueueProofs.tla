------------------------- MODULE TcpSendQueueProofs -------------------------
(***************************************************************************)
(* For any number of calling threads, any packet sizes and queue limit,    *)
(* whether or not the calls overlap the owner's: no wakeup of a push is    *)
(* lost, there is never more than one sender, the queue's count of its     *)
(* bytes is right, no packet is lost unless the head was dropped, and      *)
(* packets are delivered in order and once.  And where the calls do not    *)
(* overlap the owner's, whole writes are framed.  At the end, the delay    *)
(* between two attempts to connect (Reconnect).                            *)
(***************************************************************************)
EXTENDS TcpSendQueue, Reconnect, FiniteSetTheorems, FunctionTheorems, SequenceTheorems, TLAPS

(***************************************************************************)
(* The inductive invariant: who is inside the queue holds m_queue_mutex;   *)
(* a sender about to sleep has seen the queue empty and holds the mutex;   *)
(* m_send_thread_was_started says exactly whether there is a thread that   *)
(* has not been joined; and the two properties.                            *)
(***************************************************************************)
PcOK == threadPc \in [Threads -> ThreadPc]
MutexHeld ==
  /\ \A t \in Threads : threadPc[t] = "push" => m_queue_mutex = t
  /\ senderPc \in {"check", "sleep"} => m_queue_mutex = "sender"
SleepsOnEmpty == senderPc = "sleep" => m_send_queue = <<>>
StartedExists == m_send_thread_was_started <=> senderPc # "none"
Inv == PcOK /\ MutexHeld /\ SleepsOnEmpty /\ PushWakesSender /\ StartedExists /\ OneSender

(***************************************************************************)
(* The second invariant, for the queue and the stream, which rests on the  *)
(* first.  Who has encoded a packet holds m_send_mutex, so nobody else     *)
(* overwrites the buffer or the count of what was written of it.  What the *)
(* sender has copied stays at the front unless a head-drop takes it.  With *)
(* calls that do not overlap the owner's, and as long as no write is cut   *)
(* short, every write begins and ends with its packet.                     *)
(***************************************************************************)
Packet == [id : Nat, size : Nat \ {0}]
Typed ==
  /\ m_send_queue \in Seq(Packet) /\ m_send_buffer \in Packet /\ temp_data \in Packet
  /\ accepted \in Nat /\ m_send_queue_size \in Nat
  /\ send_offset \in Nat /\ total_sent \in Nat
MutexOwned ==
  \A t \in Threads :
    threadPc[t] \in {"proxyQueue", "push", "signal", "controlSend", "controlWait"} =>
      m_send_mutex = t
BufferFits ==
  \A t \in Threads : threadPc[t] \in {"proxyQueue", "push"} => m_send_buffer.size \in Sizes
HeadKept ==
  senderPc \in {"send", "pop"} /\ ~headDropped =>
    m_send_queue # <<>> /\ Head(m_send_queue) = temp_data
CallsApart == ownerPc # "idle" => \A t \in Threads : threadPc[t] = "idle"
WholePackets ==
  ~shortWrite =>
    /\ ~garbled /\ frame = NoFrame
    /\ senderPc \notin {"none", "pop", "exited"} => send_offset = 0
    /\ \A t \in Threads : threadPc[t] \in {"controlSend", "controlWait"} => total_sent = 0
QueueInv == Typed /\ MutexOwned /\ BufferFits /\ QueueAccounted /\ HeadKept
            /\ LostOnlyAfterHeadDrop
StreamInv == CallsApart /\ WholePackets

(***************************************************************************)
(* The invariant holds before the first connect().                         *)
(***************************************************************************)
LEMMA InitInv == Init => Inv
BY DEF Init, Inv, PcOK, ThreadPc, MutexHeld, SleepsOnEmpty, PushWakesSender,
       StartedExists, OneSender, Free

(***************************************************************************)
(* Every step of a call of send_*() keeps the invariant.                   *)
(***************************************************************************)
LEMMA CallStep ==
  ASSUME Inv, NEW t \in Threads, SendProxyData(t) \/ SendControl(t) \/ Call(t)
  PROVE  Inv'
<1>0. /\ PcOK /\ MutexHeld /\ SleepsOnEmpty /\ PushWakesSender /\ StartedExists
      /\ OneSender
  BY DEF Inv
<1>1. CASE SendProxyData(t) \/ SendControl(t)
  <2>1. PICK pc \in {"proxyLock", "controlLock"} : Begin(t, pc)
    BY <1>1 DEF SendProxyData, SendControl
  <2>2. QED
    BY <1>0, <2>1 DEF Begin, Inv, PcOK, ThreadPc, MutexHeld, SleepsOnEmpty,
       PushWakesSender, StartedExists, OneSender, queueVars, senderVars, ownerVars
<1>2. CASE EncodeFails(t)
  BY <1>0, <1>2 DEF EncodeFails, Return, Inv, PcOK, ThreadPc, MutexHeld, SleepsOnEmpty,
     PushWakesSender, StartedExists, OneSender, queueVars, senderVars, ownerVars
<1>3. CASE ProxyLock(t)
  BY <1>0, <1>3 DEF ProxyLock, Encode, Inv, PcOK, ThreadPc, MutexHeld, SleepsOnEmpty,
     PushWakesSender, StartedExists, OneSender, queueVars, senderVars, ownerVars
<1>4. CASE ProxyQueue(t)
  BY <1>0, <1>4, SendQueueAssumption
  DEF ProxyQueue, Inv, PcOK, ThreadPc, MutexHeld, SleepsOnEmpty, Free,
      PushWakesSender, StartedExists, OneSender, queueVars, senderVars, ownerVars
<1>5. CASE ProxyDrop(t)
  BY <1>0, <1>5, SendQueueAssumption
  DEF ProxyDrop, PopFront, Inv, PcOK, MutexHeld, SleepsOnEmpty, callVars,
      PushWakesSender, StartedExists, OneSender, senderVars, ownerVars
<1>6. CASE ProxyPush(t)
  BY <1>0, <1>6, SendQueueAssumption
  DEF ProxyPush, Inv, PcOK, ThreadPc, MutexHeld, SleepsOnEmpty, Free,
      PushWakesSender, StartedExists, OneSender, senderVars, ownerVars
<1>7. CASE ProxySignal(t)
  BY <1>0, <1>7 DEF ProxySignal, Signal, Return, Inv, PcOK, ThreadPc, MutexHeld,
     SleepsOnEmpty, PushWakesSender, StartedExists, OneSender, queueVars, ownerVars
<1>8. CASE ControlLock(t)
  BY <1>0, <1>8 DEF ControlLock, Encode, Inv, PcOK, ThreadPc, MutexHeld, SleepsOnEmpty,
     PushWakesSender, StartedExists, OneSender, queueVars, senderVars, ownerVars
<1>9. CASE ControlSend(t) \/ ControlWait(t)
  <2>1. /\ threadPc[t] \in {"controlSend", "controlWait"}
        /\ \E pc \in {"idle", "controlSend", "controlWait"} :
             threadPc' = [threadPc EXCEPT ![t] = pc]
        /\ UNCHANGED <<m_send_queue, m_queue_mutex, senderPc, ownerPc,
                       m_send_thread_was_started>>
    BY <1>0, <1>9 DEF ControlSend, ControlWait, Return, PcOK, ThreadPc, queueVars,
       senderVars, ownerVars
  <2>2. QED
    BY <1>0, <2>1 DEF Inv, PcOK, ThreadPc, MutexHeld, SleepsOnEmpty, PushWakesSender,
       StartedExists, OneSender
<1>10. QED
  BY <1>1, <1>2, <1>3, <1>4, <1>5, <1>6, <1>7, <1>8, <1>9 DEF Call

(***************************************************************************)
(* Every step of the sender thread keeps the invariant.                    *)
(***************************************************************************)
LEMMA SenderStep ==
  ASSUME Inv, Sender
  PROVE  Inv'
<1>0. /\ PcOK /\ MutexHeld /\ SleepsOnEmpty /\ PushWakesSender /\ StartedExists
      /\ OneSender
  BY DEF Inv
<1>1. CASE SenderTop
  BY <1>0, <1>1 DEF SenderTop, Inv, PcOK, MutexHeld, SleepsOnEmpty, PushWakesSender,
     StartedExists, OneSender, queueVars, callVars, ownerVars
<1>2. CASE SenderLock
  BY <1>0, <1>2, SendQueueAssumption
  DEF SenderLock, Inv, PcOK, MutexHeld, SleepsOnEmpty, PushWakesSender, Free,
      StartedExists, OneSender, queueVars, callVars, ownerVars
<1>3. CASE SenderCheck
  BY <1>0, <1>3, SendQueueAssumption
  DEF SenderCheck, PopFront, Inv, PcOK, MutexHeld, SleepsOnEmpty, PushWakesSender,
      StartedExists, OneSender, queueVars, callVars, ownerVars
<1>4. CASE SenderSleep
  BY <1>0, <1>4, SendQueueAssumption
  DEF SenderSleep, Inv, PcOK, MutexHeld, SleepsOnEmpty, PushWakesSender,
      StartedExists, OneSender, queueVars, callVars, ownerVars
<1>5. CASE SenderCopy
  BY <1>0, <1>5 DEF SenderCopy, PopFront, Inv, PcOK, MutexHeld, SleepsOnEmpty,
     PushWakesSender, StartedExists, OneSender, queueVars, callVars, ownerVars
<1>6. CASE SenderSend
  <2>1. /\ senderPc = "send" /\ senderPc' \in {"pop", "top", "exited"}
        /\ UNCHANGED <<m_send_queue, m_queue_mutex, threadPc, ownerPc,
                       m_send_thread_was_started>>
    BY <1>6 DEF SenderSend, queueVars, callVars, ownerVars
  <2>2. QED
    BY <1>0, <2>1 DEF Inv, PcOK, MutexHeld, SleepsOnEmpty, PushWakesSender,
       StartedExists, OneSender
<1>7. CASE SenderPop
  BY <1>0, <1>7 DEF SenderPop, PopFront, PacketDone, Inv, PcOK, MutexHeld,
     SleepsOnEmpty, PushWakesSender, StartedExists, OneSender, queueVars, callVars,
     ownerVars
<1>8. QED
  BY <1>1, <1>2, <1>3, <1>4, <1>5, <1>6, <1>7 DEF Sender

(***************************************************************************)
(* Every step of connect() and disconnect() keeps the invariant.           *)
(***************************************************************************)
LEMMA OwnerStep ==
  ASSUME Inv, Owner \/ \E call \in {"connect", "disconnect"} : OwnerCalls(call)
  PROVE  Inv'
<1>0. /\ PcOK /\ MutexHeld /\ SleepsOnEmpty /\ PushWakesSender /\ StartedExists
      /\ OneSender
  BY DEF Inv
<1>1. CASE \E call \in {"connect", "disconnect"} : OwnerCalls(call)
  BY <1>0, <1>1 DEF OwnerCalls, Inv, PcOK, MutexHeld, SleepsOnEmpty, PushWakesSender,
     StartedExists, OneSender, queueVars, callVars, senderVars
<1>2. CASE OwnerSignal
  BY <1>0, <1>2 DEF OwnerSignal, Signal, Inv, PcOK, MutexHeld, SleepsOnEmpty,
     PushWakesSender, StartedExists, OneSender, queueVars, callVars
<1>3. CASE OwnerJoin
  BY <1>0, <1>3 DEF OwnerJoin, Inv, PcOK, MutexHeld, SleepsOnEmpty, PushWakesSender,
     StartedExists, OneSender, queueVars, callVars
<1>4. CASE OwnerClear
  BY <1>0, <1>4 DEF OwnerClear, ClearQueue, Inv, PcOK, MutexHeld, SleepsOnEmpty,
     PushWakesSender, StartedExists, OneSender, callVars, senderVars
<1>5. CASE OwnerClose
  BY <1>0, <1>5 DEF OwnerClose, Inv, PcOK, MutexHeld, SleepsOnEmpty, PushWakesSender,
     StartedExists, OneSender, queueVars, callVars, senderVars
<1>6. CASE OwnerDial
  BY <1>0, <1>6 DEF OwnerDial, Inv, PcOK, MutexHeld, SleepsOnEmpty, PushWakesSender,
     StartedExists, OneSender, queueVars, callVars, senderVars
<1>7. CASE OwnerStart
  BY <1>0, <1>7 DEF OwnerStart, ClearQueue, Inv, PcOK, MutexHeld, SleepsOnEmpty,
     PushWakesSender, StartedExists, OneSender, callVars
<1>8. QED
  BY <1>1, <1>2, <1>3, <1>4, <1>5, <1>6, <1>7 DEF Owner

(***************************************************************************)
(* Every step keeps the invariant.                                         *)
(***************************************************************************)
LEMMA InvStep == Inv /\ [Next]_vars => Inv'
<1>1. ASSUME Inv, UNCHANGED vars PROVE Inv'
  BY <1>1 DEF Inv, PcOK, MutexHeld, SleepsOnEmpty, PushWakesSender, StartedExists,
     OneSender, vars, queueVars, callVars, senderVars, ownerVars
<1>2. QED
  BY <1>1, CallStep, SenderStep, OwnerStep DEF Next

(***************************************************************************)
(* A packet pushed by send_proxy_data always finds the sender awake or     *)
(* about to be woken: the mutex and the condition variable are used right. *)
(***************************************************************************)
THEOREM NoPushIsSleptThrough == Spec => []PushWakesSender
<1>1. Inv => PushWakesSender
  BY DEF Inv
<1>2. QED
  BY <1>1, InitInv, InvStep, PTL DEF Spec

(***************************************************************************)
(* connect() and disconnect() clear the queue, close the socket and start  *)
(* a thread only when the sender of the connection before has been joined. *)
(***************************************************************************)
THEOREM SenderIsJoined == Spec => []OneSender
<1>1. Inv => OneSender
  BY DEF Inv
<1>2. QED
  BY <1>1, InitInv, InvStep, PTL DEF Spec

-----------------------------------------------------------------------------
\* What Bytes holds: one pair for every byte of every queued packet.
LEMMA BytesIs ==
  \A q, x : x \in Bytes(q) <=> \E i \in DOMAIN q : \E b \in 1..q[i].size : x = <<i, b>>
BY DEF Bytes

\* One packet contributes as many pairs as it has bytes.
LEMMA OfOne ==
  ASSUME NEW i, NEW n \in Nat
  PROVE  IsFiniteSet({i} \X (1..n)) /\ Cardinality({i} \X (1..n)) = n
<1>1. IsFiniteSet({i}) /\ Cardinality({i}) = 1
  BY FS_Singleton
<1>2. IsFiniteSet(1..n) /\ Cardinality(1..n) = n
  <2>1. 1 \in Int /\ n \in Int
    OBVIOUS
  <2>2. IsFiniteSet(1..n) /\ Cardinality(1..n) = IF 1 > n THEN 0 ELSE n - 1 + 1
    BY <2>1, FS_Interval
  <2>3. QED
    BY <2>2
<1>3. /\ IsFiniteSet({i} \X (1..n))
      /\ Cardinality({i} \X (1..n)) = Cardinality({i}) * Cardinality(1..n)
  BY <1>1, <1>2, FS_Product
<1>4. 1 * n = n
  OBVIOUS
<1>5. QED
  BY <1>1, <1>2, <1>3, <1>4, Zenon

\* There are finitely many queued bytes.
LEMMA BytesFinite ==
  ASSUME NEW q \in Seq(Packet)
  PROVE  IsFiniteSet(Bytes(q)) /\ Cardinality(Bytes(q)) \in Nat
<1>1. DOMAIN q = 1..Len(q) /\ Len(q) \in Nat /\ \A i \in DOMAIN q : q[i].size \in Nat
  <2>1. DOMAIN q = 1..Len(q) /\ Len(q) \in Nat /\ \A i \in DOMAIN q : q[i] \in Packet
    OBVIOUS
  <2>2. \A p \in Packet : p.size \in Nat
    BY DEF Packet
  <2>3. QED
    BY <2>1, <2>2
<1> DEFINE of(i) == {i} \X (1..q[i].size)
           all == {of(i) : i \in DOMAIN q}
<1>2. \A i \in DOMAIN q : IsFiniteSet(of(i))
  BY <1>1, OfOne
<1>3. IsFiniteSet(all)
  <2>1. IsFiniteSet(DOMAIN q)
    <3>1. 1 \in Int /\ Len(q) \in Int
      BY <1>1
    <3>2. QED
      BY <1>1, <3>1, FS_Interval
  <2>2. [i \in DOMAIN q |-> of(i)] \in Surjection(DOMAIN q, all)
    BY Zenon DEF Surjection
  <2>3. QED
    BY <2>1, <2>2, FS_Surjection
<1>4. \A T \in all : IsFiniteSet(T)
  BY <1>2
<1>5. IsFiniteSet(UNION all)
  <2> HIDE DEF all
  <2>1. QED
    BY <1>3, <1>4, FS_UNION
<1>6. QED
  BY <1>5, FS_CardinalityType DEF Bytes

\* An empty queue holds none.
LEMMA BytesEmpty == Cardinality(Bytes(<<>>)) = 0
<1>1. Bytes(<<>>) = {}
  BY DEF Bytes
<1>2. QED
  BY <1>1, FS_EmptySet

\* A sequence that agrees with q and has p after its end holds p.size more.
LEMMA BytesGrow ==
  ASSUME NEW q \in Seq(Packet), NEW p \in Packet, NEW r, NEW n, n = Len(q) + 1,
         DOMAIN r = (DOMAIN q) \cup {n}, r[n] = p, \A i \in DOMAIN q : r[i] = q[i]
  PROVE  Cardinality(Bytes(r)) = Cardinality(Bytes(q)) + p.size
<1> DEFINE last == {n} \X (1..p.size)
<1>1. Len(q) \in Nat /\ DOMAIN q = 1..Len(q) /\ n \notin DOMAIN q
  OBVIOUS
<1>2. p.size \in Nat
  BY DEF Packet
<1>3. Bytes(r) = Bytes(q) \cup last
  <2>1. ASSUME NEW x PROVE x \in Bytes(r) <=> x \in Bytes(q) \/ x \in last
    <3>1. x \in last <=> \E b \in 1..p.size : x = <<n, b>>
      OBVIOUS
    <3>2. x \in Bytes(q) <=> \E i \in DOMAIN q : \E b \in 1..q[i].size : x = <<i, b>>
      BY BytesIs
    <3>3. x \in Bytes(r) <=> \E i \in DOMAIN r : \E b \in 1..r[i].size : x = <<i, b>>
      BY BytesIs
    <3> HIDE DEF last
    <3>4. QED
      BY <3>1, <3>2, <3>3, Zenon
  <2>2. QED
    BY <2>1
<1>4. Bytes(q) \cap last = {}
  <2>1. SUFFICES ASSUME NEW x \in Bytes(q), x \in last PROVE FALSE
    OBVIOUS
  <2>2. PICK i \in DOMAIN q : \E b \in 1..q[i].size : x = <<i, b>>
    BY BytesIs
  <2>3. x[1] = i /\ x[1] = n
    BY <2>1, <2>2
  <2>4. QED
    BY <1>1, <2>3
<1>5. IsFiniteSet(last) /\ Cardinality(last) = p.size
  BY <1>2, OfOne
<1>6. IsFiniteSet(Bytes(q)) /\ Cardinality(Bytes(q)) \in Nat
  BY BytesFinite
<1>7. Cardinality(Bytes(q) \cup last) = Cardinality(Bytes(q)) + Cardinality(last)
                                          - Cardinality(Bytes(q) \cap last)
  BY <1>5, <1>6, FS_Union
<1>8. Cardinality(Bytes(q) \cap last) = 0
  BY <1>4, FS_EmptySet
<1>9. QED
  BY <1>2, <1>3, <1>5, <1>6, <1>7, <1>8

\* push_back adds the size of the packet pushed.
LEMMA BytesAppend ==
  ASSUME NEW q \in Seq(Packet), NEW p \in Packet, NEW r, r = Append(q, p)
  PROVE  Cardinality(Bytes(r)) = Cardinality(Bytes(q)) + p.size
<1>1. PICK n : n = Len(q) + 1
  OBVIOUS
<1>2. DOMAIN r = (DOMAIN q) \cup {n} /\ r[n] = p /\ \A i \in DOMAIN q : r[i] = q[i]
  BY <1>1, AppendProperties
<1>3. PICK s : s = r
  OBVIOUS
<1>4. DOMAIN s = (DOMAIN q) \cup {n} /\ s[n] = p /\ \A i \in DOMAIN q : s[i] = q[i]
  BY <1>2, <1>3, Zenon
<1>5. Cardinality(Bytes(s)) = Cardinality(Bytes(q)) + p.size
  BY <1>1, <1>4, BytesGrow
<1>6. QED
  BY <1>3, <1>5, Zenon

\* pop_front takes away the size of the packet at the front.
LEMMA BytesShrink ==
  ASSUME NEW q \in Seq(Packet), q # <<>>, NEW r, r = Tail(q)
  PROVE  Cardinality(Bytes(q)) = Head(q).size + Cardinality(Bytes(r))
<1> DEFINE first == {1} \X (1..Head(q).size)
           rest == Bytes(q) \ first
<1>1. /\ Len(q) \in Nat \ {0} /\ DOMAIN q = 1..Len(q) /\ Head(q) = q[1] /\ Head(q) \in Packet
      /\ r \in Seq(Packet) /\ DOMAIN r = 1..Len(q) - 1
      /\ \A i \in DOMAIN r : r[i] = q[i + 1]
  BY HeadTailProperties
<1>2. Head(q).size \in Nat
  BY <1>1 DEF Packet
<1>3. \A x : x \in rest <=> \E i \in DOMAIN r : \E b \in 1..r[i].size : x = <<i + 1, b>>
  <2>1. SUFFICES ASSUME NEW x
                 PROVE  x \in rest <=> \E i \in DOMAIN r :
                                         \E b \in 1..r[i].size : x = <<i + 1, b>>
    OBVIOUS
  <2>2. ASSUME x \in rest
        PROVE  \E i \in DOMAIN r : \E b \in 1..r[i].size : x = <<i + 1, b>>
    <3>1. PICK j \in DOMAIN q : \E b \in 1..q[j].size : x = <<j, b>>
      BY <2>2, BytesIs
    <3>2. j # 1
      BY <1>1, <2>2, <3>1
    <3>3. j - 1 \in DOMAIN r /\ (j - 1) + 1 = j
      BY <1>1, <3>2
    <3>4. r[j - 1] = q[j]
      BY <1>1, <3>3
    <3>5. QED
      BY <3>1, <3>3, <3>4
  <2>3. ASSUME NEW i \in DOMAIN r, NEW b \in 1..r[i].size, x = <<i + 1, b>>
        PROVE  x \in rest
    <3>1. i + 1 \in DOMAIN q /\ i + 1 # 1 /\ r[i] = q[i + 1]
      BY <1>1
    <3>2. x \in Bytes(q)
      BY <2>3, <3>1, BytesIs
    <3>3. x \notin first
      BY <2>3, <3>1
    <3>4. QED
      BY <3>2, <3>3
  <2>4. QED
    BY <2>2, <2>3
<1>4. first \subseteq Bytes(q)
  <2>1. SUFFICES ASSUME NEW x \in first PROVE x \in Bytes(q)
    OBVIOUS
  <2>2. PICK b \in 1..Head(q).size : x = <<1, b>>
    OBVIOUS
  <2>3. 1 \in DOMAIN q /\ b \in 1..q[1].size
    BY <1>1, <2>2
  <2>4. QED
    BY <2>2, <2>3, BytesIs
<1>5. IsFiniteSet(first) /\ Cardinality(first) = Head(q).size
  BY <1>2, OfOne
<1>6. IsFiniteSet(Bytes(q)) /\ Cardinality(Bytes(q)) \in Nat
  BY BytesFinite
<1>7. IsFiniteSet(Bytes(r)) /\ Cardinality(Bytes(r)) \in Nat
  BY <1>1, BytesFinite
<1>8. Cardinality(rest) = Cardinality(Bytes(q)) - Head(q).size
  <2>1. Bytes(q) \cap first = first
    BY <1>4
  <2>2. Cardinality(rest) = Cardinality(Bytes(q)) - Cardinality(Bytes(q) \cap first)
    BY <1>6, FS_Difference
  <2>3. QED
    BY <1>5, <2>1, <2>2
<1>9. Cardinality(rest) = Cardinality(Bytes(r))
  <2> DEFINE f == [x \in Bytes(r) |-> <<x[1] + 1, x[2]>>]
  <2>1. f \in Bijection(Bytes(r), rest)
    <3>0. ASSUME NEW x \in Bytes(r)
          PROVE  \E i \in DOMAIN r : \E b \in 1..r[i].size :
                   x = <<i, b>> /\ f[x] = <<i + 1, b>>
      <4>1. PICK i \in DOMAIN r : \E b \in 1..r[i].size : x = <<i, b>>
        BY BytesIs, ZenonT(60)
      <4>2. PICK b \in 1..r[i].size : x = <<i, b>>
        BY <4>1
      <4>3. f[x] = <<i + 1, b>>
        BY <4>2
      <4>4. QED
        BY <4>2, <4>3
    <3>1. ASSUME NEW x \in Bytes(r) PROVE f[x] \in rest
      BY <1>3, <3>0
    <3>2. ASSUME NEW x \in Bytes(r), NEW y \in Bytes(r), f[x] = f[y]
          PROVE  x = y
      <4>1. PICK i \in DOMAIN r, b \in Int : x = <<i, b>> /\ f[x] = <<i + 1, b>>
        BY <3>0
      <4>2. PICK j \in DOMAIN r, c \in Int : y = <<j, c>> /\ f[y] = <<j + 1, c>>
        BY <3>0
      <4>3. i + 1 = j + 1 /\ b = c
        BY <3>2, <4>1, <4>2
      <4>4. QED
        BY <1>1, <4>1, <4>2, <4>3
    <3>3. ASSUME NEW y \in rest PROVE \E x \in Bytes(r) : f[x] = y
      <4>1. PICK i \in DOMAIN r, b \in Int :
              b \in 1..r[i].size /\ y = <<i + 1, b>>
        BY <1>3
      <4>2. <<i, b>> \in Bytes(r)
        BY <4>1, BytesIs
      <4>3. f[<<i, b>>] = <<i + 1, b>>
        BY <4>2
      <4>4. QED
        BY <4>1, <4>2, <4>3
    <3> HIDE DEF f, rest
    <3>4. f = [x \in Bytes(r) |-> f[x]]
      BY DEF f
    <3>5. f \in [Bytes(r) -> rest]
      BY <3>1, <3>4
    <3>6. f \in Injection(Bytes(r), rest)
      BY <3>2, <3>5 DEF Injection, IsInjective
    <3>7. f \in Surjection(Bytes(r), rest)
      BY <3>3, <3>5 DEF Surjection
    <3>8. QED
      BY <3>6, <3>7 DEF Bijection
  <2>2. ExistsBijection(Bytes(r), rest)
    BY <2>1 DEF ExistsBijection
  <2> HIDE DEF rest
  <2>3. QED
    BY <1>7, <2>2, FS_Bijection
<1>10. QED
  BY <1>2, <1>6, <1>7, <1>8, <1>9

-----------------------------------------------------------------------------
\* What the constants and the packets are, for the steps below.
LEMMA Facts ==
  /\ Free \notin Threads /\ "sender" \notin Threads
  /\ \A n \in Sizes : n \in Nat \ {0} /\ n <= MaxQueueSize
  /\ MaxQueueSize \in Nat /\ NoPacket \in Packet
  /\ \A p \in Packet : p.id \in Nat /\ p.size \in Nat \ {0}
<1>1. NoPacket \in Packet
  BY SendQueueAssumption DEF NoPacket, Packet
<1>2. \A p \in Packet : p.id \in Nat /\ p.size \in Nat \ {0}
  BY DEF Packet
<1>3. QED
  BY <1>1, <1>2, SendQueueAssumption DEF Free

\* The queue part of Typed.
QueueTyped == m_send_queue \in Seq(Packet) /\ m_send_queue_size \in Nat

(***************************************************************************)
(* The four things that happen to the queue, and that each keeps the count *)
(* of its bytes: a packet pushed, one popped, the queue cleared, nothing.  *)
(***************************************************************************)
LEMMA QueueMoves ==
  ASSUME [Next]_vars
  PROVE  \/ UNCHANGED <<m_send_queue, m_send_queue_size>>
         \/ m_send_queue # <<>> /\ PopFront
         \/ ClearQueue
         \/ \E t \in Threads : ProxyPush(t)
<1>1. CASE \E t \in Threads : SendProxyData(t) \/ SendControl(t)
  BY <1>1 DEF SendProxyData, SendControl, Begin, queueVars
<1>2. ASSUME NEW t \in Threads, Call(t), ~ProxyPush(t)
      PROVE  \/ UNCHANGED <<m_send_queue, m_send_queue_size>>
             \/ m_send_queue # <<>> /\ PopFront
  BY <1>2 DEF Call, EncodeFails, ProxyLock, ProxyQueue, ProxyDrop, ProxySignal,
     ControlLock, ControlSend, ControlWait, Encode, queueVars
<1>3. CASE Sender
  BY <1>3 DEF Sender, SenderTop, SenderLock, SenderCheck, SenderSleep, SenderCopy,
     SenderSend, SenderPop, queueVars
<1>4. CASE Owner \/ \E call \in {"connect", "disconnect"} : OwnerCalls(call)
  BY <1>4 DEF Owner, OwnerSignal, OwnerJoin, OwnerClear, OwnerClose, OwnerDial,
     OwnerStart, OwnerCalls, queueVars
<1>5. CASE UNCHANGED vars
  BY <1>5 DEF vars, queueVars
<1>6. QED
  BY <1>1, <1>2, <1>3, <1>4, <1>5 DEF Next

\* A pop takes the size of the front off the count.
LEMMA PopFrontCounts ==
  ASSUME QueueTyped, QueueAccounted, m_send_queue # <<>>, PopFront
  PROVE  QueueTyped' /\ QueueAccounted'
<1>1. m_send_queue' \in Seq(Packet) /\ Head(m_send_queue) \in Packet
  BY HeadTailProperties DEF PopFront, QueueTyped
<1>2. Head(m_send_queue).size \in Nat
  BY <1>1, Facts
<1>3. Cardinality(Bytes(m_send_queue)) =
        Head(m_send_queue).size + Cardinality(Bytes(m_send_queue'))
  BY BytesShrink DEF PopFront, QueueTyped
<1>4. Cardinality(Bytes(m_send_queue')) \in Nat
  BY <1>1, BytesFinite
<1>5. m_send_queue_size' = Cardinality(Bytes(m_send_queue'))
  BY <1>2, <1>3, <1>4 DEF QueueAccounted, PopFront
<1>6. m_send_queue_size' <= MaxQueueSize
  BY <1>2, <1>4, <1>5, Facts DEF QueueAccounted, PopFront, QueueTyped
<1>7. QED
  BY <1>1, <1>4, <1>5, <1>6 DEF QueueAccounted, QueueTyped

\* A push adds the size of the packet, which fits or finds the queue empty.
LEMMA PushCounts ==
  ASSUME QueueTyped, QueueAccounted, m_send_buffer \in Packet, BufferFits,
         NEW t \in Threads, ProxyPush(t)
  PROVE  QueueTyped' /\ QueueAccounted'
<1>1. m_send_queue' \in Seq(Packet)
  BY AppendProperties DEF ProxyPush, QueueTyped
<1>2. m_send_buffer.size \in Nat /\ m_send_buffer.size <= MaxQueueSize
  BY Facts DEF BufferFits, ProxyPush
<1>3. Cardinality(Bytes(m_send_queue')) =
        Cardinality(Bytes(m_send_queue)) + m_send_buffer.size
  BY BytesAppend DEF ProxyPush, QueueTyped
<1>4. m_send_queue_size' = Cardinality(Bytes(m_send_queue'))
  BY <1>3 DEF QueueAccounted, ProxyPush
<1>5. m_send_queue_size' \in Nat /\ m_send_queue_size' <= MaxQueueSize
  <2>1. CASE ~Full
    BY <1>2, <2>1, Facts DEF Full, ProxyPush, QueueTyped
  <2>2. CASE m_send_queue = <<>>
    <3>1. m_send_queue_size = 0
      BY <2>2, BytesEmpty DEF QueueAccounted
    <3>2. QED
      BY <1>2, <3>1 DEF ProxyPush
  <2>3. QED
    BY <2>1, <2>2 DEF ProxyPush
<1>6. QED
  BY <1>1, <1>4, <1>5 DEF QueueAccounted, QueueTyped

\* So every step keeps the count.
LEMMA QueueStep ==
  ASSUME QueueTyped, QueueAccounted, m_send_buffer \in Packet, BufferFits, [Next]_vars
  PROVE  QueueTyped' /\ QueueAccounted'
<1>1. CASE UNCHANGED <<m_send_queue, m_send_queue_size>>
  BY <1>1 DEF QueueTyped, QueueAccounted
<1>2. CASE ClearQueue
  <2>1. m_send_queue' = <<>> /\ m_send_queue_size' = 0
    BY <1>2 DEF ClearQueue
  <2>2. QED
    BY <2>1, BytesEmpty, Facts DEF QueueTyped, QueueAccounted
<1>3. QED
  BY <1>1, <1>2, QueueMoves, PopFrontCounts, PushCounts

-----------------------------------------------------------------------------
\* The rest of Typed.
CallTyped == m_send_buffer \in Packet /\ total_sent \in Nat /\ accepted \in Nat
SenderTyped == temp_data \in Packet /\ send_offset \in Nat

\* A step that takes no thread into a call and leaves mutex and buffer alone.
CallsStand ==
  /\ UNCHANGED <<m_send_buffer, total_sent, accepted, m_send_mutex>>
  /\ \/ UNCHANGED threadPc
     \/ \E t \in Threads : \E pc \in {"proxyLock", "controlLock"} :
          threadPc' = [threadPc EXCEPT ![t] = pc]
     \/ \E t \in Threads :
          /\ threadPc[t] = "proxyQueue"
          /\ threadPc' = [threadPc EXCEPT ![t] = "push"]

\* Such a step keeps what is known of the calls.
LEMMA CallsStandKeeps ==
  ASSUME PcOK, CallTyped, MutexOwned, BufferFits, CallsStand
  PROVE  CallTyped' /\ MutexOwned' /\ BufferFits'
BY DEF CallsStand, PcOK, CallTyped, MutexOwned, BufferFits

\* All but the calls that hold the mutex are such steps.
LEMMA OthersStand ==
  ASSUME [Next]_vars
  PROVE  CallsStand \/ \E t \in Threads : Call(t) /\ ~ProxyQueue(t) /\ ~ProxyDrop(t)
<1>1. CASE \E t \in Threads : SendProxyData(t) \/ SendControl(t)
  BY <1>1 DEF SendProxyData, SendControl, Begin, queueVars, bufferVars, CallsStand
<1>2. ASSUME NEW t \in Threads, ProxyQueue(t) \/ ProxyDrop(t)
      PROVE  CallsStand
  BY <1>2 DEF ProxyQueue, ProxyDrop, queueVars, bufferVars, callVars, CallsStand
<1>3. CASE Sender
  BY <1>3 DEF Sender, SenderTop, SenderLock, SenderCheck, SenderSleep, SenderCopy,
     SenderSend, SenderPop, queueVars, bufferVars, callVars, CallsStand
<1>4. CASE Owner \/ \E call \in {"connect", "disconnect"} : OwnerCalls(call)
  BY <1>4 DEF Owner, OwnerSignal, OwnerJoin, OwnerClear, OwnerClose, OwnerDial,
     OwnerStart, OwnerCalls, ClearQueue, queueVars, bufferVars, callVars, CallsStand
<1>5. CASE UNCHANGED vars
  BY <1>5 DEF vars, queueVars, bufferVars, callVars, CallsStand
<1>6. QED
  BY <1>1, <1>2, <1>3, <1>4, <1>5 DEF Next

(***************************************************************************)
(* m_send_mutex does its work: the buffer and the count of what is written *)
(* of it belong to the thread that encoded the packet until it returns.    *)
(***************************************************************************)
LEMMA BufferStep ==
  ASSUME PcOK, CallTyped, MutexOwned, BufferFits, [Next]_vars
  PROVE  CallTyped' /\ MutexOwned' /\ BufferFits'
<1>1. CASE CallsStand
  BY <1>1, CallsStandKeeps
<1>2. ASSUME NEW t \in Threads, Call(t), ~ProxyQueue(t), ~ProxyDrop(t)
      PROVE  CallTyped' /\ MutexOwned' /\ BufferFits'
  <2>1. CASE EncodeFails(t)
    BY <2>1, Facts DEF EncodeFails, Return, PcOK, CallTyped, MutexOwned, BufferFits,
       queueVars, bufferVars
  <2>2. CASE ProxyLock(t)
    <3>1. PICK n \in Sizes : Encode(t, [id |-> accepted + 1, size |-> n], "proxyQueue")
      BY <2>2 DEF ProxyLock
    <3>2. m_send_buffer'.size = n /\ m_send_buffer' \in Packet
      BY <3>1, Facts DEF Encode, Packet, CallTyped
    <3>3. QED
      BY <3>1, <3>2, Facts DEF Encode, PcOK, CallTyped, MutexOwned, BufferFits, queueVars
  <2>3. CASE ControlLock(t)
    <3>1. Encode(t, NoPacket, "controlSend")
      BY <2>3 DEF ControlLock, NoPacket, Control
    <3>2. QED
      BY <3>1, Facts DEF Encode, PcOK, CallTyped, MutexOwned, BufferFits, queueVars
  <2>4. CASE ProxyPush(t)
    BY <2>4, Facts DEF ProxyPush, PcOK, CallTyped, MutexOwned, BufferFits, bufferVars
  <2>5. CASE ProxySignal(t)
    BY <2>5, Facts DEF ProxySignal, Return, PcOK, CallTyped, MutexOwned, BufferFits,
       queueVars, bufferVars
  <2>6. CASE ControlSend(t) \/ ControlWait(t)
    <3>1. /\ threadPc[t] \in {"controlSend", "controlWait"}
          /\ total_sent' \in Nat /\ UNCHANGED <<m_send_buffer, accepted>>
          /\ \/ Return(t)
             \/ /\ \E pc \in {"controlSend", "controlWait"} :
                     threadPc' = [threadPc EXCEPT ![t] = pc]
                /\ UNCHANGED m_send_mutex
             \/ UNCHANGED <<threadPc, m_send_mutex>>
      <4>1. m_send_buffer.size \in Nat
        BY Facts DEF CallTyped
      <4>2. QED
        BY <2>6, <4>1 DEF ControlSend, ControlWait, CallTyped, queueVars, bufferVars
    <3>2. QED
      BY <3>1, Facts DEF Return, PcOK, CallTyped, MutexOwned, BufferFits
  <2>7. QED
    BY <1>2, <2>1, <2>2, <2>3, <2>4, <2>5, <2>6 DEF Call
<1>3. QED
  BY <1>1, <1>2, OthersStand

-----------------------------------------------------------------------------
\* What the sender is sending is at the front of the queue, or was dropped.
SendingHead == SenderTyped /\ HeadKept /\ LostOnlyAfterHeadDrop

(***************************************************************************)
(* A step of a call leaves the sender's packet at the front of the queue:  *)
(* a push goes to the back, and a head-drop is recorded.                   *)
(***************************************************************************)
LEMMA HeadKeptByCalls ==
  ASSUME SendingHead, QueueTyped, m_send_buffer \in Packet,
         NEW t \in Threads, SendProxyData(t) \/ SendControl(t) \/ Call(t)
  PROVE  SendingHead'
<1>1. UNCHANGED <<temp_data, send_offset, lost>>
  BY DEF SendProxyData, SendControl, Begin, Call, EncodeFails, ProxyLock, ProxyQueue,
     ProxyDrop, ProxyPush, ProxySignal, ControlLock, ControlSend, ControlWait, Encode,
     queueVars, senderVars
<1>2. senderPc' \in {"send", "pop"} => senderPc' = senderPc
  BY DEF SendProxyData, SendControl, Begin, Call, EncodeFails, ProxyLock, ProxyQueue,
     ProxyDrop, ProxyPush, ProxySignal, ControlLock, ControlSend, ControlWait, Encode,
     Signal, senderVars
<1>3. \/ UNCHANGED <<m_send_queue, headDropped>>
      \/ headDropped' = TRUE
      \/ m_send_queue' = Append(m_send_queue, m_send_buffer) /\ UNCHANGED headDropped
  BY DEF SendProxyData, SendControl, Begin, Call, EncodeFails, ProxyLock, ProxyQueue,
     ProxyDrop, ProxyPush, ProxySignal, ControlLock, ControlSend, ControlWait, Encode,
     queueVars
<1>4. CASE UNCHANGED <<m_send_queue, headDropped>>
  BY <1>1, <1>2, <1>4 DEF SendingHead, SenderTyped, HeadKept, LostOnlyAfterHeadDrop
<1>5. CASE headDropped' = TRUE
  BY <1>1, <1>5 DEF SendingHead, SenderTyped, HeadKept, LostOnlyAfterHeadDrop
<1>6. CASE m_send_queue' = Append(m_send_queue, m_send_buffer) /\ UNCHANGED headDropped
  <2>1. m_send_queue # <<>> => m_send_queue' # <<>> /\ Head(m_send_queue') = Head(m_send_queue)
    BY <1>6, AppendProperties DEF QueueTyped
  <2>2. QED
    BY <1>1, <1>2, <1>6, <2>1
    DEF SendingHead, SenderTyped, HeadKept, LostOnlyAfterHeadDrop
<1>7. QED
  BY <1>3, <1>4, <1>5, <1>6

(***************************************************************************)
(* The sender pops what it has sent, unless that was dropped.              *)
(***************************************************************************)
LEMMA HeadKeptBySender ==
  ASSUME SendingHead, QueueTyped, Sender
  PROVE  SendingHead'
<1>0. SenderTyped /\ HeadKept /\ LostOnlyAfterHeadDrop
  BY DEF SendingHead
<1>1. CASE SenderTop \/ SenderLock \/ SenderCheck \/ SenderSleep
  <2>1. /\ senderPc' \notin {"send", "pop"}
        /\ UNCHANGED <<temp_data, send_offset, lost, headDropped>>
    BY <1>1 DEF SenderTop, SenderLock, SenderCheck, SenderSleep, queueVars
  <2>2. QED
    BY <1>0, <2>1 DEF SendingHead, SenderTyped, HeadKept, LostOnlyAfterHeadDrop
<1>2. CASE SenderCopy
  <2>1. m_send_queue # <<>> => Head(m_send_queue) \in Packet
    BY HeadTailProperties DEF QueueTyped
  <2>2. /\ send_offset' \in Nat /\ UNCHANGED <<lost, headDropped>>
        /\ \/ senderPc' = "top" /\ UNCHANGED temp_data
           \/ /\ m_send_queue # <<>> /\ temp_data' = Head(m_send_queue)
              /\ UNCHANGED m_send_queue
    BY <1>0, <1>2 DEF SenderCopy, NextToSend, SenderTyped, queueVars
  <2>3. QED
    BY <1>0, <2>1, <2>2 DEF SendingHead, SenderTyped, HeadKept, LostOnlyAfterHeadDrop
<1>3. CASE SenderSend
  <2>1. senderPc = "send" /\ UNCHANGED <<temp_data, m_send_queue, headDropped, lost>>
    BY <1>3 DEF SenderSend, queueVars
  <2>2. temp_data.size \in Nat
    BY <1>0, Facts DEF SenderTyped
  <2>3. send_offset' \in Nat
    BY <1>0, <1>3, <2>2 DEF SenderSend, SenderTyped
  <2>4. QED
    BY <1>0, <2>1, <2>3 DEF SendingHead, SenderTyped, HeadKept, LostOnlyAfterHeadDrop
<1>4. CASE SenderPop
  <2>1. /\ senderPc = "pop" /\ senderPc' = "top" /\ send_offset' = 0
        /\ UNCHANGED <<temp_data, headDropped>>
    BY <1>4 DEF SenderPop, PacketDone, queueVars
  <2>2. ~headDropped => lost' = lost
    BY <1>0, <1>4 DEF SenderPop, HeadKept, queueVars
  <2>3. QED
    BY <1>0, <2>1, <2>2 DEF SendingHead, SenderTyped, HeadKept, LostOnlyAfterHeadDrop
<1>5. QED
  BY <1>1, <1>2, <1>3, <1>4 DEF Sender

(***************************************************************************)
(* The owner clears the queue only when there is no sender.                *)
(***************************************************************************)
LEMMA HeadKeptByOwner ==
  ASSUME SendingHead, OneSender,
         Owner \/ \E call \in {"connect", "disconnect"} : OwnerCalls(call)
  PROVE  SendingHead'
<1>0. SenderTyped /\ HeadKept /\ LostOnlyAfterHeadDrop
  BY DEF SendingHead
<1>1. UNCHANGED <<temp_data, lost, headDropped>> /\ send_offset' \in Nat
  BY <1>0 DEF Owner, OwnerSignal, OwnerJoin, OwnerClear, OwnerClose, OwnerDial,
     OwnerStart, OwnerCalls, ClearQueue, queueVars, senderVars, SenderTyped
<1>2. CASE OwnerClear \/ OwnerStart
  <2>1. senderPc' \notin {"send", "pop"}
    BY <1>2 DEF OwnerClear, OwnerStart, OneSender, senderVars
  <2>2. QED
    BY <1>0, <1>1, <2>1 DEF SendingHead, SenderTyped, HeadKept, LostOnlyAfterHeadDrop
<1>3. CASE ~(OwnerClear \/ OwnerStart)
  <2>1. UNCHANGED m_send_queue /\ (senderPc' \in {"send", "pop"} => senderPc' = senderPc)
    BY <1>3 DEF Owner, OwnerSignal, OwnerJoin, OwnerClose, OwnerDial, OwnerCalls, Signal,
       queueVars, senderVars
  <2>2. QED
    BY <1>0, <1>1, <2>1 DEF SendingHead, SenderTyped, HeadKept, LostOnlyAfterHeadDrop
<1>4. QED
  BY <1>2, <1>3

\* The parts put together.
LEMMA QueueInvParts ==
  QueueInv <=> /\ QueueTyped /\ CallTyped /\ SendingHead
               /\ MutexOwned /\ BufferFits /\ QueueAccounted
BY DEF QueueInv, Typed, QueueTyped, CallTyped, SenderTyped, SendingHead

\* A client that was just made has an empty queue.
LEMMA InitQueueInv == Init => QueueInv
<1>1. SUFFICES ASSUME Init PROVE QueueInv
  OBVIOUS
<1>2. Typed
  BY <1>1, Facts DEF Init, Typed
<1>3. QueueAccounted
  BY <1>1, BytesEmpty, Facts DEF Init, QueueAccounted
<1>4. QED
  BY <1>1, <1>2, <1>3
  DEF Init, QueueInv, MutexOwned, BufferFits, HeadKept, LostOnlyAfterHeadDrop

(***************************************************************************)
(* Every step keeps the queue's invariant.                                 *)
(***************************************************************************)
LEMMA QueueInvStep == Inv /\ QueueInv /\ [Next]_vars => QueueInv'
<1>1. SUFFICES ASSUME Inv, QueueInv, [Next]_vars PROVE QueueInv'
  OBVIOUS
<1>2. /\ QueueTyped /\ CallTyped /\ SendingHead
      /\ MutexOwned /\ BufferFits /\ QueueAccounted /\ PcOK /\ OneSender
      /\ m_send_buffer \in Packet
  BY <1>1, QueueInvParts DEF Inv, CallTyped
<1>3. QueueTyped' /\ QueueAccounted'
  BY <1>1, <1>2, QueueStep
<1>4. CallTyped' /\ MutexOwned' /\ BufferFits'
  BY <1>1, <1>2, BufferStep
<1>5. SendingHead'
  <2>1. CASE UNCHANGED vars
    BY <1>2, <2>1 DEF SendingHead, SenderTyped, HeadKept, LostOnlyAfterHeadDrop, vars,
       queueVars, senderVars
  <2>2. QED
    BY <1>1, <1>2, <2>1, HeadKeptByCalls, HeadKeptBySender, HeadKeptByOwner DEF Next
<1>6. QueueInv' <=> /\ QueueTyped' /\ CallTyped' /\ SendingHead'
                    /\ MutexOwned' /\ BufferFits' /\ QueueAccounted'
  BY QueueInvParts, PTL
<1>7. QED
  BY <1>3, <1>4, <1>5, <1>6

(***************************************************************************)
(* m_send_queue_size is the size of what is queued and stays within        *)
(* kMaxSendQueueSize, for every queue limit, packet size and number of     *)
(* threads, even when calls overlap disconnect().                          *)
(***************************************************************************)
THEOREM QueueIsAccounted == Spec => []QueueAccounted
<1>1. QueueInv => QueueAccounted
  BY DEF QueueInv
<1>2. QED
  BY <1>1, InitInv, InvStep, InitQueueInv, QueueInvStep, PTL DEF Spec

(***************************************************************************)
(* The sender never discards a packet it has not sent, except after a      *)
(* head-drop took the one it was sending.                                  *)
(***************************************************************************)
THEOREM NothingLostWithoutDrop == Spec => []LostOnlyAfterHeadDrop
<1>1. QueueInv => LostOnlyAfterHeadDrop
  BY DEF QueueInv
<1>2. QED
  BY <1>1, InitInv, InvStep, InitQueueInv, QueueInvStep, PTL DEF Spec

-----------------------------------------------------------------------------
(***************************************************************************)
(* With calls that do not overlap the owner's, no call is under way while  *)
(* connect() or disconnect() is.                                           *)
(***************************************************************************)
LEMMA CallsApartStep ==
  ASSUME ~Overlap, PcOK, CallsApart, [Next]_vars
  PROVE  CallsApart'
<1>1. ASSUME NEW t \in Threads, SendProxyData(t) \/ SendControl(t)
      PROVE  CallsApart'
  BY <1>1 DEF SendProxyData, SendControl, Begin, CallsApart, ownerVars
<1>2. ASSUME NEW t \in Threads, Call(t)
      PROVE  CallsApart'
  <2>1. threadPc[t] # "idle" /\ UNCHANGED ownerPc
    BY <1>2 DEF Call, EncodeFails, ProxyLock, ProxyQueue, ProxyDrop, ProxyPush,
       ProxySignal, ControlLock, ControlSend, ControlWait, Encode, ownerVars
  <2>2. QED
    BY <2>1 DEF CallsApart
<1>3. CASE Sender
  <2>1. UNCHANGED <<threadPc, ownerPc>>
    BY <1>3 DEF Sender, SenderTop, SenderLock, SenderCheck, SenderSleep, SenderCopy,
       SenderSend, SenderPop, callVars, ownerVars
  <2>2. QED
    BY <2>1 DEF CallsApart
<1>4. CASE Owner
  <2>1. ownerPc # "idle" /\ UNCHANGED threadPc
    BY <1>4 DEF Owner, OwnerSignal, OwnerJoin, OwnerClear, OwnerClose, OwnerDial,
       OwnerStart, callVars
  <2>2. QED
    BY <2>1 DEF CallsApart
<1>5. CASE \E call \in {"connect", "disconnect"} : OwnerCalls(call)
  BY <1>5 DEF OwnerCalls, CallsApart, callVars
<1>6. CASE UNCHANGED vars
  BY <1>6 DEF CallsApart, vars, callVars, ownerVars
<1>7. QED
  BY <1>1, <1>2, <1>3, <1>4, <1>5, <1>6 DEF Next

\* The two parts of WholePackets that are about the server's end.
StreamWhole == ~garbled /\ frame = NoFrame

(***************************************************************************)
(* A write of all that is left of a packet, from its beginning, leaves the *)
(* server between two packets.                                             *)
(***************************************************************************)
LEMMA WholeWrite ==
  ASSUME NEW p, NEW offset, NEW n, NEW asked, Write(p, offset, n, asked),
         ~shortWrite => StreamWhole /\ offset = 0, ~(n < asked) => offset + n = p.size,
         ~shortWrite'
  PROVE  ~shortWrite /\ ~(n < asked) /\ StreamWhole'
<1>1. ~shortWrite /\ ~(n < asked)
  BY Zenon DEF Write
<1>2. ~garbled /\ frame = NoFrame /\ offset = 0 /\ offset + n = p.size
  BY <1>1 DEF StreamWhole
<1>3. Continues(p, offset)
  BY <1>2 DEF Continues
<1>4. garbled' = garbled /\ frame' = NoFrame
  BY <1>2, <1>3, Zenon DEF Write
<1>5. QED
  BY <1>1, <1>2, <1>4 DEF StreamWhole

\* The parts of WholePackets about the sender's and the callers' offsets.
OffsetClear == senderPc \notin {"none", "pop", "exited"} => send_offset = 0
SentClear ==
  \A t \in Threads : threadPc[t] \in {"controlSend", "controlWait"} => total_sent = 0

\* WholePackets in these parts.
LEMMA WholeParts == WholePackets <=> (~shortWrite => StreamWhole /\ OffsetClear /\ SentClear)
BY DEF WholePackets, StreamWhole, OffsetClear, SentClear

\* A step that does not touch the stream.
LEMMA Untouched ==
  ASSUME WholePackets, UNCHANGED streamVars,
         OffsetClear => OffsetClear', SentClear => SentClear'
  PROVE  WholePackets'
<1>1. ~shortWrite' => ~shortWrite
  BY DEF streamVars
<1>2. StreamWhole => StreamWhole'
  BY DEF StreamWhole, streamVars
<1>3. WholePackets' <=> (~shortWrite' => StreamWhole' /\ OffsetClear' /\ SentClear')
  BY WholeParts, PTL
<1>4. QED
  BY <1>1, <1>2, <1>3, WholeParts

(***************************************************************************)
(* send_all keeps the framing: it starts at the beginning of the packet    *)
(* and, if its first write takes everything, returns.                      *)
(***************************************************************************)
LEMMA ControlSendWhole ==
  ASSUME PcOK, CallTyped, MutexOwned, WholePackets, NEW t \in Threads, ControlSend(t)
  PROVE  WholePackets'
<1> DEFINE left == m_send_buffer.size - total_sent
<1>1. threadPc[t] = "controlSend" /\ UNCHANGED senderVars
  BY DEF ControlSend
<1>2. OffsetClear => OffsetClear'
  BY <1>1 DEF OffsetClear, senderVars
<1>3. m_send_buffer.size \in Nat /\ total_sent \in Nat
  BY Facts DEF CallTyped
<1>4. CASE \E n \in 1..left : /\ Write(m_send_buffer, total_sent, n, left)
                              /\ IF n = left THEN Return(t)
                                             ELSE UNCHANGED <<threadPc, m_send_mutex>>
  <2>1. PICK n \in 1..left : /\ Write(m_send_buffer, total_sent, n, left)
                             /\ n = left => Return(t)
    BY <1>4
  <2>2. SUFFICES ASSUME ~shortWrite' PROVE StreamWhole' /\ OffsetClear' /\ SentClear'
    <3>1. WholePackets' <=> (~shortWrite' => StreamWhole' /\ OffsetClear' /\ SentClear')
      BY WholeParts, PTL
    <3>2. QED
      BY <3>1
  <2>3. ~shortWrite => StreamWhole /\ OffsetClear /\ SentClear
    BY WholeParts
  <2>4. ~shortWrite => StreamWhole /\ total_sent = 0
    BY <1>1, <2>3 DEF SentClear
  <2>5. ~(n < left) => n = left /\ total_sent + n = m_send_buffer.size
    BY <1>3
  <2>6. ~shortWrite /\ ~(n < left) /\ StreamWhole'
    <3> HIDE DEF left
    <3>1. QED
      BY <2>1, <2>2, <2>4, <2>5, WholeWrite
  <2>7. Return(t)
    BY <2>1, <2>5, <2>6
  <2>8. SentClear'
    BY <1>1, <2>7, Facts DEF SentClear, Return, PcOK, MutexOwned
  <2>9. QED
    BY <1>2, <2>3, <2>6, <2>8
<1>5. CASE /\ threadPc' = [threadPc EXCEPT ![t] = "controlWait"]
           /\ UNCHANGED <<total_sent, streamVars>>
  <2>1. SentClear => SentClear'
    BY <1>1, <1>5 DEF SentClear, PcOK
  <2>2. QED
    BY <1>2, <1>5, <2>1, Untouched
<1>6. CASE Return(t) /\ UNCHANGED <<total_sent, streamVars>>
  <2>1. SentClear => SentClear'
    BY <1>6 DEF SentClear, PcOK, Return
  <2>2. QED
    BY <1>2, <1>6, <2>1, Untouched
<1>7. QED
  BY <1>4, <1>5, <1>6 DEF ControlSend

\* Every other step of a call leaves the stream alone.
LEMMA CallWhole ==
  ASSUME PcOK, CallTyped, MutexOwned, WholePackets,
         NEW t \in Threads, SendProxyData(t) \/ SendControl(t) \/ Call(t), ~ControlSend(t)
  PROVE  WholePackets'
<1>1. UNCHANGED streamVars
  BY DEF SendProxyData, SendControl, Begin, Call, EncodeFails, ProxyLock, ProxyQueue,
     ProxyDrop, ProxyPush, ProxySignal, ControlLock, ControlWait, Encode
<1>2. OffsetClear => OffsetClear'
  BY DEF SendProxyData, SendControl, Begin, Call, EncodeFails, ProxyLock, ProxyQueue,
     ProxyDrop, ProxyPush, ProxySignal, ControlLock, ControlWait, Encode, Signal,
     senderVars, OffsetClear
<1>3. SentClear => SentClear'
  <2>1. CASE SendProxyData(t) \/ SendControl(t)
    BY <2>1 DEF SendProxyData, SendControl, Begin, SentClear, PcOK, bufferVars
  <2>2. CASE EncodeFails(t) \/ ProxySignal(t)
    BY <2>2 DEF EncodeFails, ProxySignal, Return, SentClear, PcOK, bufferVars
  <2>3. CASE ProxyLock(t) \/ ControlLock(t)
    BY <2>3 DEF ProxyLock, ControlLock, Encode, SentClear
  <2>4. CASE ProxyQueue(t) \/ ProxyDrop(t) \/ ProxyPush(t)
    BY <2>4 DEF ProxyQueue, ProxyDrop, ProxyPush, SentClear, PcOK, bufferVars, callVars
  <2>5. CASE ControlWait(t)
    BY <2>5 DEF ControlWait, Return, SentClear, PcOK, bufferVars
  <2>6. QED
    BY <2>1, <2>2, <2>3, <2>4, <2>5 DEF Call
<1>4. QED
  BY <1>1, <1>2, <1>3, Untouched

(***************************************************************************)
(* So does the sender: it sends from offset 0, and after a whole write     *)
(* goes on to pop the packet and set the offset back.                      *)
(***************************************************************************)
LEMMA SenderWhole ==
  ASSUME SenderTyped, WholePackets, Sender
  PROVE  WholePackets'
<1>1. UNCHANGED <<threadPc, total_sent>>
  BY DEF Sender, SenderTop, SenderLock, SenderCheck, SenderSleep, SenderCopy, SenderSend,
     SenderPop, callVars, bufferVars
<1>2. SentClear => SentClear'
  BY <1>1 DEF SentClear
<1>3. CASE ~SenderSend
  <2>1. UNCHANGED streamVars
    BY <1>3 DEF Sender, SenderTop, SenderLock, SenderCheck, SenderSleep, SenderCopy,
       SenderPop
  <2>2. OffsetClear => OffsetClear'
    BY <1>3 DEF Sender, SenderTop, SenderLock, SenderCheck, SenderSleep, SenderCopy,
       SenderPop, PacketDone, OffsetClear
  <2>3. QED
    BY <1>2, <2>1, <2>2, Untouched
<1>4. CASE SenderSend
  <2> DEFINE left == temp_data.size - send_offset
  <2>0. senderPc = "send"
    BY <1>4 DEF SenderSend
  <2>1. temp_data.size \in Nat /\ send_offset \in Nat
    BY Facts DEF SenderTyped
  <2>2. CASE /\ \E n \in 1..left : /\ Write(temp_data, send_offset, n, left)
                                   /\ send_offset' = send_offset + n
             /\ senderPc' = IF send_offset' = temp_data.size THEN "pop" ELSE "top"
    <3>1. PICK n \in 1..left : /\ Write(temp_data, send_offset, n, left)
                               /\ send_offset' = send_offset + n
      BY <2>2
    <3>2. SUFFICES ASSUME ~shortWrite' PROVE StreamWhole' /\ OffsetClear' /\ SentClear'
      <4>1. WholePackets' <=> (~shortWrite' => StreamWhole' /\ OffsetClear' /\ SentClear')
        BY WholeParts, PTL
      <4>2. QED
        BY <4>1
    <3>3. ~shortWrite => StreamWhole /\ OffsetClear /\ SentClear
      BY WholeParts
    <3>4. ~shortWrite => StreamWhole /\ send_offset = 0
      BY <2>0, <3>3 DEF OffsetClear
    <3>5. ~(n < left) => send_offset + n = temp_data.size
      BY <2>1
    <3>6. ~shortWrite /\ ~(n < left) /\ StreamWhole'
      <4> HIDE DEF left
      <4>1. QED
        BY <3>1, <3>2, <3>4, <3>5, WholeWrite
    <3>7. OffsetClear'
      BY <2>2, <3>1, <3>5, <3>6 DEF OffsetClear
    <3>8. QED
      BY <1>2, <3>3, <3>6, <3>7
  <2>3. CASE shortWrite' = TRUE
    BY <2>3 DEF WholePackets
  <2>4. CASE senderPc' \in {"top", "exited"} /\ UNCHANGED <<send_offset, streamVars>>
    <3>1. OffsetClear => OffsetClear'
      BY <2>0, <2>4 DEF OffsetClear
    <3>2. QED
      BY <1>2, <2>4, <3>1, Untouched
  <2>5. QED
    BY <1>4, <2>2, <2>3, <2>4 DEF SenderSend
<1>5. QED
  BY <1>3, <1>4

(***************************************************************************)
(* A new connection begins a new stream, and there is neither a sender nor *)
(* a call that could have an offset of the old one.                        *)
(***************************************************************************)
LEMMA OwnerWhole ==
  ASSUME OneSender, CallsApart, WholePackets,
         Owner \/ \E call \in {"connect", "disconnect"} : OwnerCalls(call)
  PROVE  WholePackets'
<1>1. UNCHANGED <<threadPc, total_sent>>
  BY DEF Owner, OwnerSignal, OwnerJoin, OwnerClear, OwnerClose, OwnerDial, OwnerStart,
     OwnerCalls, callVars, bufferVars
<1>2. SentClear => SentClear'
  BY <1>1 DEF SentClear
<1>3. OffsetClear => OffsetClear'
  BY DEF Owner, OwnerSignal, OwnerJoin, OwnerClear, OwnerClose, OwnerDial, OwnerStart,
     OwnerCalls, Signal, senderVars, OffsetClear
<1>4. CASE UNCHANGED streamVars
  BY <1>2, <1>3, <1>4, Untouched
<1>5. CASE OwnerDial /\ ~UNCHANGED streamVars
  <2>1. /\ frame' = NoFrame /\ garbled' = FALSE
        /\ senderPc = "none" /\ UNCHANGED senderPc /\ \A t \in Threads : threadPc[t] = "idle"
    BY <1>5 DEF OwnerDial, OneSender, CallsApart, senderVars
  <2>2. QED
    BY <1>1, <2>1 DEF WholePackets, NoFrame
<1>6. QED
  BY <1>4, <1>5 DEF Owner, OwnerSignal, OwnerJoin, OwnerClear, OwnerClose, OwnerStart,
     OwnerCalls

(***************************************************************************)
(* Every step keeps the stream's invariant.                                *)
(***************************************************************************)
LEMMA StreamInvStep == ~Overlap /\ Inv /\ QueueInv /\ StreamInv /\ [Next]_vars => StreamInv'
<1>1. SUFFICES ASSUME ~Overlap, Inv, QueueInv, StreamInv, [Next]_vars PROVE StreamInv'
  OBVIOUS
<1>2. /\ PcOK /\ OneSender /\ CallTyped /\ SenderTyped /\ MutexOwned
      /\ CallsApart /\ WholePackets
  BY <1>1, QueueInvParts DEF Inv, StreamInv, SendingHead
<1>3. CallsApart'
  BY <1>1, <1>2, CallsApartStep
<1>4. WholePackets'
  <2>1. CASE UNCHANGED vars
    BY <1>2, <2>1 DEF WholePackets, vars, streamVars, senderVars, callVars, bufferVars
  <2>2. QED
    BY <1>1, <1>2, <2>1, ControlSendWhole, CallWhole, SenderWhole, OwnerWhole DEF Next
<1>5. QED
  BY <1>3, <1>4 DEF StreamInv

(***************************************************************************)
(* As long as no write of a connection has been cut short, the server can  *)
(* parse the stream: control messages and queued packets, drops, retries   *)
(* and reconnects never interleave inside a packet.  The hypothesis is the *)
(* one the run makes: no send_*() is under way during disconnect().        *)
(***************************************************************************)
THEOREM WholeWritesAreFramed ==
  ASSUME ~Overlap
  PROVE  Spec => []WholeWritesKeepFraming
<1>1. Init => StreamInv
  BY DEF Init, StreamInv, CallsApart, WholePackets
<1>2. StreamInv => WholeWritesKeepFraming
  BY DEF StreamInv, WholePackets, WholeWritesKeepFraming
<1>3. ~Overlap
  OBVIOUS
<1>4. Inv /\ QueueInv /\ StreamInv /\ [Next]_vars => StreamInv'
  BY <1>3, StreamInvStep
<1>5. QED
  BY <1>1, <1>2, <1>4, InitInv, InvStep, InitQueueInv, QueueInvStep, PTL DEF Spec

-----------------------------------------------------------------------------
(***************************************************************************)
(* The order of what is delivered, from an invariant that rests on the     *)
(* first two.  A packet gets its number under m_send_mutex, so that no two *)
(* get the same; numbers rise along the queue; what was delivered is below *)
(* all that is queued, but while the sender is about to pop what it has    *)
(* just sent; and what the sender has copied is above all that was         *)
(* delivered and not above anything that is queued, whatever a head-drop   *)
(* took from under it.                                                     *)
(***************************************************************************)
BufferNumber ==
  \A t \in Threads :
    /\ threadPc[t] \in {"proxyQueue", "push"} => m_send_buffer.id = accepted + 1
    /\ threadPc[t] \in {"controlSend", "controlWait"} => m_send_buffer.id = Control
QueueRises ==
  /\ \A i \in 1..Len(m_send_queue) : m_send_queue[i].id \in 1..accepted
  /\ \A i, j \in 1..Len(m_send_queue) : i < j => m_send_queue[i].id < m_send_queue[j].id
DeliveredPast ==
  /\ delivered \in Seq(Nat) /\ \A j \in 1..Len(delivered) : delivered[j] <= accepted
  /\ senderPc # "pop" =>
       \A i \in 1..Len(m_send_queue) : \A j \in 1..Len(delivered) :
         delivered[j] < m_send_queue[i].id
SendingNext ==
  senderPc \in {"send", "pop"} =>
    /\ temp_data.id \in 1..accepted
    /\ \A i \in 1..Len(m_send_queue) : temp_data.id <= m_send_queue[i].id
    /\ \A j \in 1..Len(delivered) : /\ delivered[j] <= temp_data.id
                                    /\ senderPc = "send" => delivered[j] < temp_data.id
OrderInv == QueueRises /\ DeliveredPast /\ SendingNext /\ DeliveredInOrder

\* The number of a packet is the buffer's owner's until it is queued.
LEMMA BufferNumberStep ==
  ASSUME PcOK, CallTyped, MutexOwned, BufferNumber, [Next]_vars
  PROVE  BufferNumber'
<1>1. CASE CallsStand
  BY <1>1 DEF CallsStand, PcOK, BufferNumber
<1>2. ASSUME NEW t \in Threads, Call(t), ~ProxyQueue(t), ~ProxyDrop(t)
      PROVE  BufferNumber'
  <2>1. CASE EncodeFails(t) \/ ProxySignal(t)
    <3>1. /\ threadPc' = [threadPc EXCEPT ![t] = "idle"] /\ UNCHANGED <<m_send_buffer, accepted>>
      BY <2>1 DEF EncodeFails, ProxySignal, Return, queueVars, bufferVars
    <3>2. QED
      BY <3>1 DEF PcOK, BufferNumber
  <2>2. CASE ProxyLock(t) \/ ControlLock(t)
    <3>1. /\ m_send_mutex = Free /\ UNCHANGED accepted
          /\ \/ /\ threadPc' = [threadPc EXCEPT ![t] = "proxyQueue"]
                /\ m_send_buffer'.id = accepted + 1
             \/ /\ threadPc' = [threadPc EXCEPT ![t] = "controlSend"]
                /\ m_send_buffer'.id = Control
      BY <2>2 DEF ProxyLock, ControlLock, Encode, queueVars
    <3>2. \A r \in Threads :
            threadPc[r] \notin {"proxyQueue", "push", "signal", "controlSend", "controlWait"}
      BY <3>1, Facts DEF MutexOwned
    <3>3. QED
      BY <3>1, <3>2 DEF PcOK, BufferNumber
  <2>3. CASE ProxyPush(t)
    <3>1. /\ threadPc[t] = "push" /\ threadPc' = [threadPc EXCEPT ![t] = "signal"]
          /\ UNCHANGED m_send_buffer
      BY <2>3 DEF ProxyPush, bufferVars
    <3>2. \A r \in Threads : r # t =>
            threadPc[r] \notin {"proxyQueue", "push", "signal", "controlSend", "controlWait"}
      BY <3>1 DEF MutexOwned
    <3>3. QED
      BY <3>1, <3>2 DEF PcOK, BufferNumber
  <2>4. CASE ControlSend(t) \/ ControlWait(t)
    <3>1. /\ threadPc[t] \in {"controlSend", "controlWait"}
          /\ UNCHANGED <<m_send_buffer, accepted>>
          /\ \/ Return(t)
             \/ \E pc \in {"controlSend", "controlWait"} :
                  threadPc' = [threadPc EXCEPT ![t] = pc]
             \/ UNCHANGED threadPc
      BY <2>4 DEF ControlSend, ControlWait, queueVars, bufferVars
    <3>2. QED
      BY <3>1 DEF Return, PcOK, BufferNumber
  <2>5. QED
    BY <1>2, <2>1, <2>2, <2>3, <2>4 DEF Call
<1>3. QED
  BY <1>1, <1>2, OthersStand

(***************************************************************************)
(* What a step does to the queue, the sender's copy and what is delivered: *)
(* nothing, a pop, a clearing, a push, a copy of the front, a delivery.    *)
(***************************************************************************)
Stays ==
  /\ UNCHANGED <<m_send_queue, accepted, delivered, temp_data>>
  /\ \/ senderPc' = senderPc
     \/ senderPc # "pop" /\ senderPc' \notin {"send", "pop"}
     \/ senderPc = "send" /\ senderPc' = "pop"
Pops ==
  /\ m_send_queue # <<>> /\ m_send_queue' = Tail(m_send_queue)
  /\ UNCHANGED <<accepted, delivered, temp_data>> /\ senderPc' \in {senderPc, "top"}
Clears ==
  /\ m_send_queue' = <<>> /\ UNCHANGED <<accepted, delivered>>
  /\ senderPc' \notin {"send", "pop"}
CopiesFront ==
  /\ m_send_queue # <<>> /\ senderPc = "copy" /\ senderPc' = "send"
  /\ temp_data' = Head(m_send_queue) /\ UNCHANGED <<m_send_queue, accepted, delivered>>
Delivers ==
  /\ senderPc = "send" /\ senderPc' = "pop" /\ delivered' = Append(delivered, temp_data.id)
  /\ UNCHANGED <<m_send_queue, accepted, temp_data>>

\* Every step is one of these.
LEMMA OrderMoves ==
  ASSUME OneSender, BufferNumber, [Next]_vars
  PROVE  \/ Stays \/ Pops \/ Clears \/ CopiesFront \/ Delivers
         \/ \E t \in Threads : ProxyPush(t)
<1>1. CASE \E t \in Threads : SendProxyData(t) \/ SendControl(t)
  BY <1>1 DEF SendProxyData, SendControl, Begin, queueVars, senderVars, streamVars, Stays
<1>2. ASSUME NEW t \in Threads, Call(t), ~ProxyPush(t)
      PROVE  Stays \/ Pops
  <2>1. CASE \/ EncodeFails(t) \/ ProxyLock(t) \/ ProxyQueue(t) \/ ControlLock(t)
             \/ ControlWait(t)
    BY <2>1 DEF EncodeFails, ProxyLock, ProxyQueue, ControlLock, ControlWait, Encode,
       queueVars, senderVars, streamVars, Stays
  <2>2. CASE ProxyDrop(t)
    BY <2>2 DEF ProxyDrop, PopFront, senderVars, streamVars, Pops
  <2>3. CASE ProxySignal(t)
    BY <2>3 DEF ProxySignal, Signal, queueVars, streamVars, Stays
  <2>4. CASE ControlSend(t)
    <3>1. m_send_buffer.id = Control
      BY <2>4 DEF ControlSend, BufferNumber
    <3>2. UNCHANGED delivered
      BY <2>4, <3>1 DEF ControlSend, Write, streamVars
    <3>3. QED
      BY <2>4, <3>2 DEF ControlSend, queueVars, senderVars, Stays
  <2>5. QED
    BY <1>2, <2>1, <2>2, <2>3, <2>4 DEF Call
<1>3. CASE Sender
  <2>1. CASE SenderTop \/ SenderLock \/ SenderSleep
    BY <2>1 DEF SenderTop, SenderLock, SenderSleep, queueVars, streamVars, Stays
  <2>2. CASE SenderCheck
    BY <2>2 DEF SenderCheck, PopFront, queueVars, streamVars, Stays, Pops
  <2>3. CASE SenderCopy
    BY <2>3 DEF SenderCopy, PopFront, NextToSend, queueVars, streamVars, Stays, Pops, CopiesFront
  <2>4. CASE SenderSend
    <3>1. senderPc = "send" /\ UNCHANGED <<m_send_queue, accepted, temp_data>>
      BY <2>4 DEF SenderSend, queueVars
    <3>2. senderPc' \in {"pop", "top", "exited"}
      BY <2>4 DEF SenderSend
    <3>3. \/ delivered' = delivered
          \/ delivered' = Append(delivered, temp_data.id) /\ senderPc' = "pop"
      BY <2>4, Zenon DEF SenderSend, Write, streamVars
    <3>4. QED
      BY <3>1, <3>2, <3>3 DEF Stays, Delivers
  <2>5. CASE SenderPop
    BY <2>5 DEF SenderPop, PopFront, PacketDone, queueVars, streamVars, Pops, Clears
  <2>6. QED
    BY <1>3, <2>1, <2>2, <2>3, <2>4, <2>5 DEF Sender
<1>4. CASE Owner \/ \E call \in {"connect", "disconnect"} : OwnerCalls(call)
  <2>1. CASE OwnerClear \/ OwnerStart
    <3>1. senderPc = "none"
      BY <2>1 DEF OwnerClear, OwnerStart, OneSender
    <3>2. QED
      BY <2>1, <3>1 DEF OwnerClear, OwnerStart, ClearQueue, senderVars, streamVars, Clears
  <2>2. CASE OwnerDial
    BY <2>2 DEF OwnerDial, queueVars, senderVars, streamVars, Stays
  <2>3. CASE OwnerSignal \/ OwnerJoin \/ OwnerClose
    BY <2>3 DEF OwnerSignal, OwnerJoin, OwnerClose, Signal, queueVars, senderVars, streamVars,
       Stays
  <2>4. CASE \E call \in {"connect", "disconnect"} : OwnerCalls(call)
    BY <2>4 DEF OwnerCalls, queueVars, senderVars, streamVars, Stays
  <2>5. QED
    BY <1>4, <2>1, <2>2, <2>3, <2>4 DEF Owner
<1>5. CASE UNCHANGED vars
  BY <1>5 DEF vars, queueVars, senderVars, streamVars, Stays
<1>6. QED
  BY <1>1, <1>2, <1>3, <1>4, <1>5 DEF Next

\* Each keeps the order.
LEMMA OrderStep ==
  ASSUME QueueTyped, CallTyped, SenderTyped, OneSender, BufferNumber, OrderInv, [Next]_vars
  PROVE  OrderInv'
<1>1. /\ m_send_queue \in Seq(Packet) /\ accepted \in Nat /\ temp_data.id \in Nat
      /\ \A i \in 1..Len(m_send_queue) : m_send_queue[i].id \in Nat
      /\ Len(m_send_queue) \in Nat
  <2>1. \A i \in 1..Len(m_send_queue) : m_send_queue[i] \in Packet
    BY DEF QueueTyped
  <2>2. QED
    BY <2>1, Facts DEF QueueTyped, CallTyped, SenderTyped
<1>2. QueueRises /\ DeliveredPast /\ SendingNext /\ DeliveredInOrder
  BY DEF OrderInv
<1>3. CASE Stays
  <2>1. QueueRises' /\ DeliveredInOrder'
    BY <1>2, <1>3 DEF Stays, QueueRises, DeliveredInOrder
  <2>2. DeliveredPast' /\ SendingNext'
    BY <1>1, <1>2, <1>3 DEF Stays, DeliveredPast, SendingNext
  <2>3. QED
    BY <2>1, <2>2 DEF OrderInv
<1>4. CASE Pops
  <2>1. /\ Len(m_send_queue') = Len(m_send_queue) - 1 /\ Len(m_send_queue') \in Nat
        /\ \A i \in 1..Len(m_send_queue') : /\ i + 1 \in 1..Len(m_send_queue)
                                            /\ m_send_queue'[i] = m_send_queue[i + 1]
    BY <1>1, <1>4 DEF Pops
  <2>2. UNCHANGED <<accepted, delivered, temp_data>> /\ senderPc' \in {senderPc, "top"}
    BY <1>4 DEF Pops
  <2>3. QueueRises'
    <3>1. \A i \in 1..Len(m_send_queue') : m_send_queue'[i].id \in 1..accepted
      BY <1>2, <2>1 DEF QueueRises
    <3>2. ASSUME NEW i \in 1..Len(m_send_queue'), NEW j \in 1..Len(m_send_queue'), i < j
          PROVE  m_send_queue'[i].id < m_send_queue'[j].id
      <4>1. /\ i + 1 \in 1..Len(m_send_queue) /\ m_send_queue'[i] = m_send_queue[i + 1]
            /\ j + 1 \in 1..Len(m_send_queue) /\ m_send_queue'[j] = m_send_queue[j + 1]
        BY <2>1
      <4>2. i + 1 < j + 1
        BY <2>1, <3>2
      <4>3. QED
        BY <1>2, <4>1, <4>2 DEF QueueRises
    <3>3. QED
      BY <2>2, <3>1, <3>2 DEF QueueRises
  <2>4. \A i \in 1..Len(m_send_queue') : \A j \in 1..Len(delivered) :
          delivered[j] < m_send_queue'[i].id
    <3> SUFFICES ASSUME NEW i \in 1..Len(m_send_queue'), NEW j \in 1..Len(delivered)
                 PROVE  delivered[j] < m_send_queue'[i].id
      OBVIOUS
    <3>1. /\ 1 \in 1..Len(m_send_queue) /\ i + 1 \in 1..Len(m_send_queue)
          /\ m_send_queue'[i] = m_send_queue[i + 1] /\ delivered[j] \in Nat
      BY <1>1, <1>2, <2>1 DEF DeliveredPast
    <3>2. m_send_queue[1].id < m_send_queue[i + 1].id
      BY <1>2, <3>1 DEF QueueRises
    <3>3. CASE senderPc # "pop"
      BY <1>2, <3>1, <3>3 DEF DeliveredPast
    <3>4. CASE senderPc = "pop"
      <4>1. delivered[j] <= temp_data.id /\ temp_data.id <= m_send_queue[1].id
        BY <1>2, <3>1, <3>4 DEF SendingNext
      <4>2. QED
        BY <1>1, <3>1, <3>2, <4>1
    <3>5. QED
      BY <3>3, <3>4
  <2>5. DeliveredPast' /\ DeliveredInOrder'
    BY <1>2, <2>2, <2>4 DEF DeliveredPast, DeliveredInOrder
  <2>6. SendingNext'
    BY <1>2, <2>1, <2>2 DEF SendingNext
  <2>7. QED
    BY <2>3, <2>5, <2>6 DEF OrderInv
<1>5. CASE Clears
  <2>1. Len(m_send_queue') = 0
    BY <1>5 DEF Clears
  <2>2. QED
    BY <1>2, <1>5, <2>1 DEF Clears, OrderInv, QueueRises, DeliveredPast, SendingNext, DeliveredInOrder
<1>6. CASE CopiesFront
  <2>1. /\ 1 \in 1..Len(m_send_queue) /\ temp_data' = m_send_queue[1] /\ senderPc = "copy"
        /\ senderPc' = "send" /\ UNCHANGED <<m_send_queue, accepted, delivered>>
    BY <1>1, <1>6 DEF CopiesFront
  <2>2. SendingNext'
    <3>1. \A i \in 1..Len(m_send_queue) : m_send_queue[1].id <= m_send_queue[i].id
      BY <1>1, <1>2, <2>1 DEF QueueRises
    <3>2. \A j \in 1..Len(delivered) : /\ delivered[j] <= m_send_queue[1].id
                                       /\ delivered[j] < m_send_queue[1].id
      BY <1>1, <1>2, <2>1 DEF DeliveredPast
    <3>3. QED
      BY <1>2, <2>1, <3>1, <3>2 DEF SendingNext, QueueRises
  <2>3. QED
    BY <1>2, <2>1, <2>2 DEF OrderInv, QueueRises, DeliveredPast, DeliveredInOrder
<1>7. CASE Delivers
  <2>1. /\ Len(delivered') = Len(delivered) + 1 /\ Len(delivered) \in Nat
        /\ delivered' \in Seq(Nat) /\ delivered'[Len(delivered) + 1] = temp_data.id
        /\ \A j \in 1..Len(delivered) : delivered'[j] = delivered[j]
    BY <1>1, <1>2, <1>7 DEF Delivers, DeliveredPast
  <2>2. /\ senderPc = "send" /\ senderPc' = "pop"
        /\ UNCHANGED <<m_send_queue, accepted, temp_data>>
    BY <1>7 DEF Delivers
  <2>3. /\ temp_data.id \in 1..accepted
        /\ \A i \in 1..Len(m_send_queue) : temp_data.id <= m_send_queue[i].id
        /\ \A j \in 1..Len(delivered) : delivered[j] < temp_data.id /\ delivered[j] \in Nat
    BY <1>2, <2>2 DEF SendingNext, DeliveredPast
  <2>4. \A j \in 1..Len(delivered') : delivered'[j] <= temp_data.id
    <3> SUFFICES ASSUME NEW j \in 1..Len(delivered')
                 PROVE  delivered'[j] <= temp_data.id
      OBVIOUS
    <3>1. j \in 1..Len(delivered) \/ j = Len(delivered) + 1
      BY <2>1
    <3>2. CASE j \in 1..Len(delivered)
      BY <1>1, <2>1, <2>3, <3>2
    <3>3. CASE j = Len(delivered) + 1
      BY <1>1, <2>1, <3>3
    <3>4. QED
      BY <3>1, <3>2, <3>3
  <2>5. DeliveredInOrder'
    <3> SUFFICES ASSUME NEW i \in 1..Len(delivered'), NEW j \in 1..Len(delivered'), i < j
                 PROVE  delivered'[i] < delivered'[j]
      BY DEF DeliveredInOrder
    <3>1. i \in 1..Len(delivered)
      BY <2>1
    <3>2. CASE j \in 1..Len(delivered)
      BY <1>2, <2>1, <3>1, <3>2 DEF DeliveredInOrder
    <3>3. CASE j = Len(delivered) + 1
      BY <2>1, <2>3, <3>1, <3>3
    <3>4. QED
      BY <2>1, <3>2, <3>3
  <2>6. DeliveredPast'
    BY <1>1, <2>1, <2>2, <2>3, <2>4 DEF DeliveredPast
  <2>7. QueueRises' /\ SendingNext'
    BY <1>2, <2>2, <2>3, <2>4 DEF QueueRises, SendingNext
  <2>8. QED
    BY <2>5, <2>6, <2>7 DEF OrderInv
<1>8. CASE \E t \in Threads : ProxyPush(t)
  <2>1. /\ m_send_queue' = Append(m_send_queue, m_send_buffer) /\ accepted' = m_send_buffer.id
        /\ m_send_buffer.id = accepted + 1 /\ UNCHANGED <<delivered, temp_data, senderPc>>
    BY <1>8 DEF ProxyPush, BufferNumber, senderVars, streamVars
  <2>2. /\ Len(m_send_queue') = Len(m_send_queue) + 1
        /\ m_send_queue'[Len(m_send_queue) + 1].id = accepted + 1
        /\ \A i \in 1..Len(m_send_queue) : m_send_queue'[i] = m_send_queue[i]
    BY <1>1, <2>1 DEF CallTyped
  <2>3. accepted' = accepted + 1
    BY <2>1
  <2>4. QueueRises'
    BY <1>1, <1>2, <2>2, <2>3, SMTT(30) DEF QueueRises
  <2>5. DeliveredPast' /\ DeliveredInOrder'
    BY <1>1, <1>2, <2>1, <2>2, <2>3, SMTT(30) DEF DeliveredPast, DeliveredInOrder
  <2>6. SendingNext'
    BY <1>1, <1>2, <2>1, <2>2, <2>3, SMTT(30) DEF SendingNext
  <2>7. QED
    BY <2>4, <2>5, <2>6 DEF OrderInv
<1>9. QED
  BY <1>3, <1>4, <1>5, <1>6, <1>7, <1>8, OrderMoves

(***************************************************************************)
(* Proxy packets reach the server in the order in which they were queued,  *)
(* none twice, whatever is dropped, cut, retried or reconnected in         *)
(* between, even when calls overlap disconnect().                          *)
(***************************************************************************)
THEOREM DeliveryKeepsOrder == Spec => []DeliveredInOrder
<1> DEFINE I == Inv /\ QueueInv /\ BufferNumber /\ OrderInv
<1>1. Init => I
  <2>1. Init => BufferNumber /\ OrderInv
    BY DEF Init, BufferNumber, OrderInv, QueueRises, DeliveredPast, SendingNext, DeliveredInOrder
  <2>2. QED
    BY <2>1, InitInv, InitQueueInv
<1>2. I /\ [Next]_vars => I'
  <2>1. SUFFICES ASSUME I, [Next]_vars PROVE I'
    OBVIOUS
  <2>2. /\ QueueTyped /\ CallTyped /\ SenderTyped /\ MutexOwned /\ PcOK /\ OneSender
    BY <2>1, QueueInvParts DEF Inv, SendingHead
  <2>3. BufferNumber' /\ OrderInv'
    BY <2>1, <2>2, BufferNumberStep, OrderStep
  <2>4. QED
    BY <2>1, <2>3, InvStep, QueueInvStep
<1>3. I => DeliveredInOrder
  BY DEF OrderInv
<1>4. QED
  BY <1>1, <1>2, <1>3, PTL DEF Spec

-----------------------------------------------------------------------------
(***************************************************************************)
(* The delay between two attempts of the owner to connect (Reconnect), for *)
(* every configuration and every width of the unsigned arithmetic.         *)
(***************************************************************************)

\* A larger factor makes a larger product.
LEMMA ProductGrows ==
  ASSUME NEW d \in Nat, NEW q \in Nat, NEW m \in Nat, d <= q
  PROVE  d * m <= q * m
<1>1. PICK e \in Nat : q = d + e
  <2>1. q - d \in Nat /\ q = d + (q - d)
    OBVIOUS
  <2>2. QED
    BY <2>1
<1>2. (d + e) * m = d * m + e * m /\ e * m \in Nat /\ d * m \in Nat
  OBVIOUS
<1>3. QED
  BY <1>1, <1>2

\* What is divided, and multiplied again, is not more than before.
LEMMA DivideBack ==
  ASSUME NEW a \in Nat, NEW m \in Nat, m > 0
  PROVE  a \div m \in Nat /\ a \div m <= a /\ (a \div m) * m <= a
OBVIOUS

\* What UInt keeps of a number.
LEMMA UIntIs ==
  ASSUME NEW a \in Nat
  PROVE  UInt(a) \in Nat /\ UInt(a) < Limit
BY ReconnectAssumption DEF UInt

\* A configuration's fields.
LEMMA ConfigIs ==
  ASSUME NEW c \in Configs
  PROVE  /\ c.initial_delay_ms \in 0..(Limit - 1) /\ c.fast_delay_ms \in 0..(Limit - 1)
         /\ c.max_delay_ms \in 1..(Limit - 1) /\ c.multiplier_percent \in 1..(Limit - 1)
         /\ c.fast_retries \in 0..(Limit - 1) /\ Limit \in Nat /\ Limit > 0 /\ CountMax \in Nat
<1>1. c \in ReconnectConfig /\ Limit \in Nat /\ Limit > 0 /\ CountMax \in Nat
  BY ReconnectAssumption
<1>2. QED
  BY <1>1 DEF ReconnectConfig

\* The delay scaled once is in the range of the type again.
LEMMA ScaledIs ==
  ASSUME NEW c \in Configs, NEW d \in Nat
  PROVE  Scaled(c, d) \in Nat /\ Scaled(c, d) < Limit
<1>1. PICK m \in Nat : m = c.multiplier_percent
  BY ConfigIs
<1>2. PICK u \in Nat : u = UInt(d * m) /\ u < Limit
  <2>1. d * m \in Nat
    OBVIOUS
  <2>2. QED
    BY <2>1, UIntIs
<1>3. u \div 100 \in Nat /\ u \div 100 <= u
  BY DivideBack
<1>4. QED
  BY <1>1, <1>2, <1>3, ConfigIs DEF Scaled

\* The guard in front of the multiplication keeps the product in the type.
LEMMA GuardSuffices ==
  ASSUME NEW c \in Configs, NEW d \in Nat,
         d < SafeThreshold(c)
  PROVE  d * c.multiplier_percent < Limit
<1>1. PICK m \in Nat : m = c.multiplier_percent /\ m > 0
  BY ConfigIs
<1>2. PICK u \in Nat : u = UInt(c.max_delay_ms * 100) /\ u < Limit
  <2>1. c.max_delay_ms * 100 \in Nat
    BY ConfigIs
  <2>2. QED
    BY <2>1, UIntIs
<1>3. PICK q \in Nat : q = u \div m /\ q * m <= u
  BY <1>1, DivideBack
<1>4. d <= q
  BY <1>1, <1>2, <1>3 DEF SafeThreshold
<1>5. d * m <= q * m
  BY <1>4, ProductGrows
<1>6. d * m \in Nat /\ q * m \in Nat /\ Limit \in Nat
  BY ConfigIs
<1>7. QED
  BY <1>1, <1>2, <1>3, <1>5, <1>6

(***************************************************************************)
(* The inductive invariant: types, and a delay that stays at or below the  *)
(* maximum inside the loop too, when it started there.                     *)
(***************************************************************************)
Bounded ==
  m_config.initial_delay_ms <= m_config.max_delay_ms
    /\ m_config.fast_delay_ms <= m_config.max_delay_ms
  => m_current_delay_ms <= m_config.max_delay_ms
DelayInv == DelayTypeOK /\ Bounded

\* A new manager.
LEMMA InitDelay == DelayInit => DelayInv
<1> SUFFICES ASSUME DelayInit PROVE DelayInv
  OBVIOUS
<1>1. m_config \in Configs
  BY DEF DelayInit
<1>2. QED
  BY <1>1, ConfigIs DEF DelayInit, DelayInv, DelayTypeOK, Bounded

\* calculate_delay is entered.
LEMMA EnterDelay ==
  ASSUME NEW c \in Configs, NEW n \in 0..CountMax,
         CalculateDelay(c, n), m_config' = c, m_retry_count' = n
  PROVE  DelayInv'
BY ConfigIs DEF CalculateDelay, DelayInv, DelayTypeOK, Bounded

\* Every step.
LEMMA DelayStep == DelayInv /\ [DelayNext]_delayVars => DelayInv'
<1> SUFFICES ASSUME DelayInv, [DelayNext]_delayVars PROVE DelayInv'
  OBVIOUS
<1>1. /\ m_config \in Configs /\ m_retry_count \in 0..CountMax /\ m_current_delay_ms \in 0..(Limit - 1)
      /\ iteration \in 0..CountMax /\ loopPc \in {"idle", "loop"} /\ Bounded
      /\ CountMax \in Nat
  BY ReconnectAssumption DEF DelayInv, DelayTypeOK
<1>2. CASE RecordFailure
  <2>1. m_retry_count' \in 0..CountMax /\ m_config' = m_config
    BY <1>1, <1>2 DEF RecordFailure
  <2>2. QED
    BY <1>1, <1>2, <2>1, EnterDelay DEF RecordFailure
<1>3. CASE Reset
  BY <1>1, <1>3, EnterDelay DEF Reset
<1>4. CASE \E c \in Configs : SetConfig(c)
  BY <1>1, <1>4, EnterDelay DEF SetConfig
<1>5. CASE LoopDone
  BY <1>1, <1>5 DEF LoopDone, DelayInv, DelayTypeOK, Bounded
<1>6. CASE LoopSaturates
  BY <1>1, <1>6, ConfigIs DEF LoopSaturates, DelayInv, DelayTypeOK, Bounded
<1>7. CASE LoopMultiplies
  <2>1. PICK e \in Nat : e = Scaled(m_config, m_current_delay_ms) /\ e < Limit
    BY <1>1, ScaledIs, ConfigIs
  <2>2. /\ m_config' = m_config /\ m_retry_count' = m_retry_count
        /\ iteration < m_retry_count - m_config.fast_retries /\ loopPc = "loop"
        /\ \/ e > m_config.max_delay_ms /\ m_current_delay_ms' = m_config.max_delay_ms
              /\ loopPc' = "idle" /\ iteration' = iteration
           \/ ~(e > m_config.max_delay_ms) /\ m_current_delay_ms' = e
              /\ iteration' = iteration + 1 /\ loopPc' = loopPc
    BY <1>7, <2>1 DEF LoopMultiplies, InLoop
  <2>3. iteration + 1 \in 0..CountMax
    BY <1>1, <2>2, ConfigIs
  <2>4. QED
    BY <1>1, <2>1, <2>2, <2>3, ConfigIs DEF DelayInv, DelayTypeOK, Bounded
<1>8. CASE UNCHANGED delayVars
  BY <1>8 DEF delayVars, DelayInv, DelayTypeOK, Bounded
<1>9. QED
  BY <1>2, <1>3, <1>4, <1>5, <1>6, <1>7, <1>8 DEF DelayNext

(***************************************************************************)
(* calculate_delay's product never leaves uint32_t: the guard in front of  *)
(* it is enough for every configuration, even where computing the guard's  *)
(* threshold wraps.                                                        *)
(***************************************************************************)
THEOREM DelayNeverWraps == DelaySpec => []ProductNeverWraps
<1>1. DelayInv => ProductNeverWraps
  <2> SUFFICES ASSUME DelayInv, m_current_delay_ms < SafeThreshold(m_config)
               PROVE  m_current_delay_ms * m_config.multiplier_percent < Limit
    BY DEF ProductNeverWraps
  <2>1. m_config \in Configs /\ m_current_delay_ms \in Nat
    BY ReconnectAssumption DEF DelayInv, DelayTypeOK
  <2>2. QED
    BY <2>1, GuardSuffices
<1>2. (DelayInit => DelayInv) /\ (DelayInv /\ [DelayNext]_delayVars => DelayInv')
  BY InitDelay, DelayStep
<1>3. QED
  BY <1>1, <1>2, PTL DEF DelaySpec

(***************************************************************************)
(* "The delay will never exceed this value" (max_delay_ms): so it is, once *)
(* neither the initial nor the fast delay is above it.                     *)
(***************************************************************************)
THEOREM DelayStaysBelowMax == DelaySpec => []DelayWithinMax
<1>1. DelayInv => DelayWithinMax
  BY DEF DelayInv, Bounded, DelayWithinMax
<1>2. (DelayInit => DelayInv) /\ (DelayInv /\ [DelayNext]_delayVars => DelayInv')
  BY InitDelay, DelayStep
<1>3. QED
  BY <1>1, <1>2, PTL DEF DelaySpec
=============================================================================

---------------------------- MODULE TcpSendQueue ----------------------------
(***************************************************************************)
(* The sending half of TcpClient (network/tcp_client.cpp): game threads    *)
(* put proxy data into m_send_queue, a background thread writes the queue  *)
(* to the non-blocking socket in as many pieces as the kernel wants, and   *)
(* control messages are written directly with Socket::send_all.  The owner *)
(* (RyuLdnClient) calls connect() and disconnect().  m_send_mutex guards   *)
(* one send call, m_queue_mutex guards the queue, m_queue_cv wakes the     *)
(* sender.                                                                 *)
(*                                                                         *)
(* A packet is a number (its place among the accepted packets) and a size  *)
(* in units of what one send call may leave over.  The server's end of the *)
(* stream is the frame it is reading; a piece that does not continue that  *)
(* frame, or starts in the middle of a packet, garbles the stream.         *)
(***************************************************************************)
EXTENDS Integers, Sequences, FiniteSets

CONSTANTS
  Threads,            \* the threads that call send_*()
  Sizes,              \* encoded sizes of proxy packets
  ControlSize,        \* encoded size of a control message
  MaxQueueSize,       \* kMaxSendQueueSize
  MaxPackets,         \* bound on the proxy packets accepted in a behaviour
  Overlap             \* TRUE: send_*() and the owner's calls may overlap

ASSUME SendQueueAssumption ==
  /\ Threads \cap {"free", "sender"} = {}
  /\ Sizes \subseteq Nat \ {0} /\ ControlSize \in Nat \ {0}
  /\ MaxQueueSize \in Nat /\ \A n \in Sizes : n <= MaxQueueSize
  /\ MaxPackets \in Nat /\ Overlap \in BOOLEAN

VARIABLES
  m_send_queue,       \* the queued packets, front first
  m_send_queue_size,
  accepted,           \* proxy packets queued so far (numbers the packets)
  m_send_mutex,       \* a thread, "sender" or "free"
  m_queue_mutex,      \* likewise
  m_connected,        \* of the socket
  threadPc,           \* where each thread is in its call of send_*()
  m_send_buffer,      \* the packet encoded last
  total_sent,         \* bytes of it that send_all has written
  senderPc, send_offset, temp_data,
  ownerPc, ownerCall,
  m_send_thread_running, m_send_thread_was_started,
  frame, garbled, delivered,        \* the server's end of the stream
  shortWrite, headDropped, lost     \* history, for the properties

queueVars  == <<m_send_queue, m_send_queue_size, accepted, headDropped, lost>>
bufferVars == <<m_send_buffer, total_sent>>
callVars   == <<threadPc, bufferVars>>
senderVars == <<senderPc, send_offset, temp_data>>
ownerVars  == <<ownerPc, ownerCall, m_send_thread_running,
                m_send_thread_was_started>>
streamVars == <<frame, garbled, delivered, shortWrite>>
vars == <<queueVars, m_send_mutex, m_queue_mutex, m_connected, callVars,
          senderVars, ownerVars, streamVars>>

Free == "free"
Control == 0                            \* control messages carry this number
Item == [id : 0..MaxPackets, size : Sizes \cup {ControlSize}]
NoFrame == [id |-> 0, got |-> 0]
NoPacket == [id |-> 0, size |-> ControlSize]

ThreadPc == {"idle", "proxyLock", "proxyQueue", "push", "signal",
             "controlLock", "controlSend", "controlWait"}
SenderPc == {"none", "top", "lock", "check", "sleep", "asleep", "woken",
             "copy", "send", "pop", "exited"}
OwnerPc == {"idle", "signal", "join", "clear", "close", "dial", "start"}

TypeOK ==
  /\ m_send_queue \in Seq(Item) /\ m_send_queue_size \in Int
  /\ accepted \in 0..MaxPackets
  /\ m_send_mutex \in Threads \cup {Free}
  /\ m_queue_mutex \in Threads \cup {Free, "sender"}
  /\ m_connected \in BOOLEAN
  /\ threadPc \in [Threads -> ThreadPc]
  /\ m_send_buffer \in Item /\ total_sent \in Nat
  /\ senderPc \in SenderPc /\ send_offset \in Nat /\ temp_data \in Item
  /\ ownerPc \in OwnerPc /\ ownerCall \in {"none", "connect", "disconnect"}
  /\ m_send_thread_running \in BOOLEAN /\ m_send_thread_was_started \in BOOLEAN
  /\ frame \in [id : 0..MaxPackets, got : Nat]
  /\ garbled \in BOOLEAN /\ delivered \in Seq(1..MaxPackets)
  /\ shortWrite \in BOOLEAN /\ headDropped \in BOOLEAN
  /\ lost \subseteq 1..MaxPackets

Init ==
  /\ m_send_queue = <<>> /\ m_send_queue_size = 0 /\ accepted = 0
  /\ m_send_mutex = Free /\ m_queue_mutex = Free
  /\ m_connected = FALSE
  /\ threadPc = [t \in Threads |-> "idle"]
  /\ m_send_buffer = NoPacket /\ total_sent = 0
  /\ senderPc = "none" /\ send_offset = 0 /\ temp_data = NoPacket
  /\ ownerPc = "idle" /\ ownerCall = "none"
  /\ m_send_thread_running = FALSE /\ m_send_thread_was_started = FALSE
  /\ frame = NoFrame /\ garbled = FALSE /\ delivered = <<>>
  /\ shortWrite = FALSE /\ headDropped = FALSE /\ lost = {}

-----------------------------------------------------------------------------
(***************************************************************************)
(* The socket.  Write: n bytes of packet p, from offset on, reach the      *)
(* server; asked is what the send call was given.                          *)
(***************************************************************************)
Continues(p, offset) ==
  IF frame = NoFrame THEN offset = 0
                     ELSE offset > 0 /\ frame = [id |-> p.id, got |-> offset]

Write(p, offset, n, asked) ==
  /\ shortWrite' = (shortWrite \/ n < asked)
  /\ IF garbled \/ ~Continues(p, offset)
     THEN garbled' = TRUE /\ UNCHANGED <<frame, delivered>>
     ELSE /\ UNCHANGED garbled
          /\ IF offset + n = p.size
             THEN /\ frame' = NoFrame
                  /\ delivered' = IF p.id = Control THEN delivered
                                  ELSE Append(delivered, p.id)
             ELSE /\ frame' = [id |-> p.id, got |-> offset + n]
                  /\ UNCHANGED delivered

\* SignalConditionVariable(&m_queue_cv): wakes the sender if it is asleep.
Signal == senderPc' = IF senderPc = "asleep" THEN "woken" ELSE senderPc

-----------------------------------------------------------------------------
(***************************************************************************)
(* send_proxy_data, and every other send_*().  The connection is tested    *)
(* before the mutex is taken; the caller, RyuLdnClient, has tested that    *)
(* its state is Ready, which it is until disconnect() is over.             *)
(***************************************************************************)
Begin(t, pc) ==
  /\ threadPc[t] = "idle" /\ m_connected
  /\ ownerPc = "idle" \/ (Overlap /\ ownerCall = "disconnect")
  /\ threadPc' = [threadPc EXCEPT ![t] = pc]
  /\ UNCHANGED <<queueVars, m_send_mutex, m_queue_mutex, m_connected, bufferVars,
                 senderVars, ownerVars, streamVars>>

InProxyCall == {t \in Threads : threadPc[t] \in {"proxyLock", "proxyQueue", "push"}}

SendProxyData(t) ==
  /\ accepted + Cardinality(InProxyCall) < MaxPackets
  /\ Begin(t, "proxyLock")

SendControl(t) == Begin(t, "controlLock")

\* The mutex is taken, and p encoded into m_send_buffer.
Encode(t, p, pc) ==
  /\ m_send_mutex = Free /\ m_send_mutex' = t
  /\ m_send_buffer' = p /\ total_sent' = 0
  /\ threadPc' = [threadPc EXCEPT ![t] = pc]
  /\ UNCHANGED <<queueVars, m_queue_mutex, m_connected, senderVars, ownerVars,
                 streamVars>>

\* The call returns: the mutex is released.
Return(t) == threadPc' = [threadPc EXCEPT ![t] = "idle"] /\ m_send_mutex' = Free

EncodeFails(t) ==
  /\ threadPc[t] \in {"proxyLock", "controlLock"} /\ m_send_mutex = Free
  /\ Return(t)
  /\ UNCHANGED <<queueVars, m_queue_mutex, m_connected, bufferVars, senderVars,
                 ownerVars, streamVars>>

ProxyLock(t) ==
  /\ threadPc[t] = "proxyLock"
  /\ \E n \in Sizes : Encode(t, [id |-> accepted + 1, size |-> n], "proxyQueue")

ProxyQueue(t) ==
  /\ threadPc[t] = "proxyQueue" /\ m_queue_mutex = Free
  /\ m_queue_mutex' = t
  /\ threadPc' = [threadPc EXCEPT ![t] = "push"]
  /\ UNCHANGED <<queueVars, m_send_mutex, m_connected, bufferVars, senderVars,
                 ownerVars, streamVars>>

\* Mutation: the byte count is not taken down with the packet.
PopFrontUncounted ==
  /\ m_send_queue' = Tail(m_send_queue)
  /\ UNCHANGED m_send_queue_size

PopFront ==
  /\ m_send_queue' = Tail(m_send_queue)
  /\ m_send_queue_size' = m_send_queue_size - Head(m_send_queue).size

Full == m_send_queue_size + m_send_buffer.size > MaxQueueSize

\* Head-drop, one packet: the body of the while loop.
ProxyDrop(t) ==
  /\ threadPc[t] = "push" /\ Full /\ m_send_queue # <<>>
  /\ PopFront
  /\ headDropped' = TRUE
  /\ UNCHANGED <<accepted, lost, m_send_mutex, m_queue_mutex, m_connected,
                 callVars, senderVars, ownerVars, streamVars>>

ProxyPush(t) ==
  /\ threadPc[t] = "push" /\ (~Full \/ m_send_queue = <<>>)
  /\ m_send_queue' = Append(m_send_queue, m_send_buffer)
  /\ m_send_queue_size' = m_send_queue_size + m_send_buffer.size
  /\ accepted' = m_send_buffer.id
  /\ m_queue_mutex' = Free
  /\ threadPc' = [threadPc EXCEPT ![t] = "signal"]
  /\ UNCHANGED <<headDropped, lost, m_send_mutex, m_connected, bufferVars,
                 senderVars, ownerVars, streamVars>>

ProxySignal(t) ==
  /\ threadPc[t] = "signal"
  /\ Signal
  /\ Return(t)
  /\ UNCHANGED <<queueVars, m_queue_mutex, m_connected, bufferVars, send_offset,
                 temp_data, ownerVars, streamVars>>

(***************************************************************************)
(* send_all, with the mutex held throughout.                               *)
(***************************************************************************)
ControlLock(t) ==
  /\ threadPc[t] = "controlLock"
  /\ Encode(t, [id |-> Control, size |-> ControlSize], "controlSend")

ControlSend(t) ==
  /\ threadPc[t] = "controlSend"
  /\ LET left == m_send_buffer.size - total_sent
     IN \/ /\ m_connected                                  \* n bytes taken
           /\ \E n \in 1..left :
                /\ Write(m_send_buffer, total_sent, n, left)
                /\ total_sent' = total_sent + n
                /\ IF n = left THEN Return(t)
                               ELSE UNCHANGED <<threadPc, m_send_mutex>>
           /\ UNCHANGED m_connected
        \/ /\ m_connected                                  \* WouldBlock
           /\ threadPc' = [threadPc EXCEPT ![t] = "controlWait"]
           /\ UNCHANGED <<m_send_mutex, m_connected, total_sent, streamVars>>
        \/ /\ m_connected' = FALSE               \* an error, or already down
           /\ Return(t)
           /\ UNCHANGED <<total_sent, streamVars>>
  /\ UNCHANGED <<queueVars, m_queue_mutex, m_send_buffer, senderVars, ownerVars>>

\* wait_ready: writable again, or a timeout, or the peer has hung up.
ControlWait(t) ==
  /\ threadPc[t] = "controlWait"
  /\ \/ /\ threadPc' = [threadPc EXCEPT ![t] = "controlSend"]
        /\ UNCHANGED <<m_send_mutex, m_connected>>
     \/ Return(t) /\ UNCHANGED m_connected
     \/ Return(t) /\ m_connected' = FALSE
  /\ UNCHANGED <<queueVars, m_queue_mutex, bufferVars, senderVars, ownerVars,
                 streamVars>>

-----------------------------------------------------------------------------
(***************************************************************************)
(* SendThreadLoop.  Time is free: whenever the code tests the age of the   *)
(* front packet it may be found stale.                                     *)
(***************************************************************************)
SenderTop ==
  /\ senderPc = "top"
  /\ senderPc' = IF ~m_send_thread_running THEN "exited"
                 ELSE IF send_offset = 0 THEN "lock" ELSE "copy"
  /\ UNCHANGED <<queueVars, m_send_mutex, m_queue_mutex, m_connected, callVars,
                 send_offset, temp_data, ownerVars, streamVars>>

SenderLock ==
  /\ senderPc \in {"lock", "woken"} /\ m_queue_mutex = Free
  /\ m_queue_mutex' = "sender"
  /\ senderPc' = "check"
  /\ UNCHANGED <<queueVars, m_send_mutex, m_connected, callVars, send_offset,
                 temp_data, ownerVars, streamVars>>

SenderCheck ==
  /\ senderPc = "check"
  /\ \/ /\ m_send_queue = <<>> /\ m_send_thread_running
        /\ senderPc' = "sleep"
        /\ UNCHANGED <<queueVars, m_queue_mutex>>
     \/ /\ ~m_send_thread_running
        /\ senderPc' = "exited" /\ m_queue_mutex' = Free
        /\ UNCHANGED queueVars
     \/ /\ m_send_queue # <<>> /\ m_send_thread_running    \* stale: dropped
        /\ PopFront /\ UNCHANGED <<accepted, headDropped, lost>>
        /\ senderPc' = "top" /\ m_queue_mutex' = Free
     \/ /\ m_send_queue # <<>> /\ m_send_thread_running    \* fresh
        /\ senderPc' = "copy" /\ m_queue_mutex' = Free
        /\ UNCHANGED queueVars
  /\ UNCHANGED <<m_send_mutex, m_connected, callVars, send_offset, temp_data,
                 ownerVars, streamVars>>

\* Mutation: the mutex is released before the sender is on the wait list.
SenderSleepNotAtomic ==
  /\ senderPc = "sleep"
  /\ IF m_queue_mutex = "sender" THEN m_queue_mutex' = Free /\ UNCHANGED senderPc
                                 ELSE senderPc' = "asleep" /\ UNCHANGED m_queue_mutex
  /\ UNCHANGED <<queueVars, m_send_mutex, m_connected, callVars, send_offset,
                 temp_data, ownerVars, streamVars>>

\* WaitConditionVariable: releases the mutex and falls asleep in one step.
SenderSleep ==
  /\ senderPc = "sleep"
  /\ senderPc' = "asleep" /\ m_queue_mutex' = Free
  /\ UNCHANGED <<queueVars, m_send_mutex, m_connected, callVars, send_offset,
                 temp_data, ownerVars, streamVars>>

\* Mutation: back() instead of front().
NextToSendAtBack == m_send_queue[Len(m_send_queue)]

NextToSend == Head(m_send_queue)

SenderCopy ==
  /\ senderPc = "copy" /\ m_queue_mutex = Free
  /\ \/ /\ m_send_queue = <<>>
        /\ send_offset' = 0 /\ senderPc' = "top"
        /\ UNCHANGED <<queueVars, temp_data>>
     \/ /\ m_send_queue # <<>> /\ send_offset = 0          \* stale: dropped
        /\ PopFront /\ UNCHANGED <<accepted, headDropped, lost>>
        /\ senderPc' = "top"
        /\ UNCHANGED <<send_offset, temp_data>>
     \/ /\ m_send_queue # <<>>
        /\ temp_data' = NextToSend
        /\ senderPc' = "send"
        /\ UNCHANGED <<queueVars, send_offset>>
  /\ UNCHANGED <<m_send_mutex, m_queue_mutex, m_connected, callVars, ownerVars,
                 streamVars>>

(***************************************************************************)
(* One send call, under m_send_mutex.  The offset may have been left by    *)
(* another packet: with nothing left to send the call returns 0, which is  *)
(* read as a closed connection; past the end, size() - send_offset wraps   *)
(* and memory behind the packet is written, or the call fails.             *)
(***************************************************************************)
SenderSend ==
  /\ senderPc = "send" /\ m_send_mutex = Free
  /\ \/ /\ m_connected /\ send_offset < temp_data.size     \* n bytes taken
        /\ \E n \in 1..(temp_data.size - send_offset) :
             /\ Write(temp_data, send_offset, n, temp_data.size - send_offset)
             /\ send_offset' = send_offset + n
        /\ senderPc' = IF send_offset' = temp_data.size THEN "pop" ELSE "top"
        /\ UNCHANGED m_connected
     \/ /\ m_connected /\ send_offset > temp_data.size     \* wrapped
        /\ garbled' = TRUE /\ shortWrite' = TRUE
        /\ senderPc' = "pop"
        /\ UNCHANGED <<m_connected, send_offset, frame, delivered>>
     \/ /\ m_connected /\ send_offset # temp_data.size     \* WouldBlock
        /\ senderPc' = "top"
        /\ UNCHANGED <<m_connected, send_offset, streamVars>>
     \/ /\ m_connected' = FALSE                  \* an error, or already down
        /\ senderPc' = "exited"
        /\ UNCHANGED <<send_offset, streamVars>>
  /\ UNCHANGED <<queueVars, m_send_mutex, m_queue_mutex, callVars, temp_data,
                 ownerVars>>

\* Mutation: the offset is not set back.
PacketDoneKeepsOffset == UNCHANGED send_offset /\ senderPc' = "top"

PacketDone == send_offset' = 0 /\ senderPc' = "top"

\* The packet is sent; whatever is at the front now is popped.
SenderPop ==
  /\ senderPc = "pop" /\ m_queue_mutex = Free
  /\ \/ /\ m_send_queue # <<>>
        /\ PopFront
        /\ lost' = lost \cup ({Head(m_send_queue).id} \ {temp_data.id})
        /\ UNCHANGED <<accepted, headDropped>>
     \/ m_send_queue = <<>> /\ UNCHANGED queueVars
  /\ PacketDone
  /\ UNCHANGED <<m_send_mutex, m_queue_mutex, m_connected, callVars, temp_data,
                 ownerVars, streamVars>>

-----------------------------------------------------------------------------
(***************************************************************************)
(* The owner's calls: disconnect(), and connect(), which begins with one.  *)
(***************************************************************************)
OwnerCalls(call) ==
  /\ ownerPc = "idle"
  /\ Overlap \/ \A t \in Threads : threadPc[t] = "idle"
  /\ call = "connect" => ~m_connected
  /\ ownerCall' = call
  /\ IF m_send_thread_running \/ m_send_thread_was_started
     THEN m_send_thread_running' = FALSE /\ ownerPc' = "signal"
     ELSE ownerPc' = "close" /\ UNCHANGED m_send_thread_running
  /\ UNCHANGED <<queueVars, m_send_mutex, m_queue_mutex, m_connected, callVars,
                 senderVars, m_send_thread_was_started, streamVars>>

OwnerSignal ==
  /\ ownerPc = "signal"
  /\ Signal
  /\ ownerPc' = IF m_send_thread_was_started THEN "join" ELSE "clear"
  /\ UNCHANGED <<queueVars, m_send_mutex, m_queue_mutex, m_connected, callVars,
                 send_offset, temp_data, ownerCall, m_send_thread_running,
                 m_send_thread_was_started, streamVars>>

\* Mutation: the thread is not waited for.
OwnerJoinNoWait ==
  /\ ownerPc = "join"
  /\ m_send_thread_was_started' = FALSE
  /\ ownerPc' = "clear"
  /\ UNCHANGED <<queueVars, m_send_mutex, m_queue_mutex, m_connected, callVars,
                 senderVars, ownerCall, m_send_thread_running, streamVars>>

\* WaitThread and DestroyThread.
OwnerJoin ==
  /\ ownerPc = "join" /\ senderPc = "exited"
  /\ senderPc' = "none" /\ m_send_thread_was_started' = FALSE
  /\ ownerPc' = "clear"
  /\ UNCHANGED <<queueVars, m_send_mutex, m_queue_mutex, m_connected, callVars,
                 send_offset, temp_data, ownerCall, m_send_thread_running,
                 streamVars>>

\* The queue is cleared without m_queue_mutex.
ClearQueue ==
  /\ m_send_queue' = <<>> /\ m_send_queue_size' = 0
  /\ UNCHANGED <<accepted, headDropped, lost>>

OwnerClear ==
  /\ ownerPc = "clear"
  /\ ClearQueue
  /\ ownerPc' = "close"
  /\ UNCHANGED <<m_send_mutex, m_queue_mutex, m_connected, callVars, senderVars,
                 ownerCall, m_send_thread_running, m_send_thread_was_started,
                 streamVars>>

OwnerClose ==
  /\ ownerPc = "close"
  /\ m_connected' = FALSE
  /\ \/ ownerCall = "connect" /\ ownerPc' = "dial" /\ UNCHANGED ownerCall
     \/ ownerCall = "disconnect" /\ ownerPc' = "idle" /\ ownerCall' = "none"
  /\ UNCHANGED <<queueVars, m_send_mutex, m_queue_mutex, callVars, senderVars,
                 m_send_thread_running, m_send_thread_was_started, streamVars>>

\* m_socket.connect: fails, or the server sees a fresh stream.
OwnerDial ==
  /\ ownerPc = "dial"
  /\ \/ ownerPc' = "idle" /\ ownerCall' = "none" /\ UNCHANGED <<m_connected, streamVars>>
     \/ /\ ownerPc' = "start" /\ m_connected' = TRUE
        /\ frame' = NoFrame /\ garbled' = FALSE /\ shortWrite' = FALSE
        /\ UNCHANGED <<ownerCall, delivered>>
  /\ UNCHANGED <<queueVars, m_send_mutex, m_queue_mutex, callVars, senderVars,
                 m_send_thread_running, m_send_thread_was_started>>

\* The thread is created, or that fails and the socket is closed again.
OwnerStart ==
  /\ ownerPc = "start"
  /\ ClearQueue
  /\ \/ /\ m_send_thread_running' = TRUE /\ m_send_thread_was_started' = TRUE
        /\ senderPc' = "top" /\ send_offset' = 0
        /\ UNCHANGED m_connected
     \/ /\ m_send_thread_running' = FALSE /\ m_send_thread_was_started' = FALSE
        /\ m_connected' = FALSE
        /\ UNCHANGED <<senderPc, send_offset>>
  /\ ownerPc' = "idle" /\ ownerCall' = "none"
  /\ UNCHANGED <<m_send_mutex, m_queue_mutex, callVars, temp_data, streamVars>>

-----------------------------------------------------------------------------
Call(t) ==
  \/ EncodeFails(t) \/ ProxyLock(t) \/ ProxyQueue(t) \/ ProxyDrop(t)
  \/ ProxyPush(t) \/ ProxySignal(t)
  \/ ControlLock(t) \/ ControlSend(t) \/ ControlWait(t)

Sender ==
  \/ SenderTop \/ SenderLock \/ SenderCheck \/ SenderSleep \/ SenderCopy
  \/ SenderSend \/ SenderPop

Owner ==
  \/ OwnerSignal \/ OwnerJoin \/ OwnerClear \/ OwnerClose \/ OwnerDial
  \/ OwnerStart

Next ==
  \/ \E t \in Threads : SendProxyData(t) \/ SendControl(t) \/ Call(t)
  \/ Sender
  \/ Owner \/ \E call \in {"connect", "disconnect"} : OwnerCalls(call)

Spec == Init /\ [][Next]_vars

(***************************************************************************)
(* The scheduler runs every thread that can run; nobody has to begin a     *)
(* call.                                                                   *)
(***************************************************************************)
FairSpec ==
  /\ Spec /\ WF_vars(Sender) /\ WF_vars(Owner)
  /\ \A t \in Threads : WF_vars(Call(t))
-----------------------------------------------------------------------------
(***************************************************************************)
(* Properties.                                                             *)
(***************************************************************************)

(***************************************************************************)
(* The byte count that decides about head-drop is the size of what is in   *)
(* the queue, whoever pushed, popped or dropped: it never drifts, so it    *)
(* never wraps, and the queue keeps within kMaxSendQueueSize.              *)
(***************************************************************************)
Bytes(q) == UNION {{i} \X (1..q[i].size) : i \in DOMAIN q}

QueueAccounted ==
  /\ m_send_queue_size = Cardinality(Bytes(m_send_queue))
  /\ m_send_queue_size <= MaxQueueSize

(***************************************************************************)
(* No wakeup of a push is lost: the sender sleeps on a queue with packets  *)
(* in it only while the thread that pushed is still about to signal.       *)
(***************************************************************************)
PushWakesSender ==
  senderPc \in {"sleep", "asleep"} /\ m_send_queue # <<>>
    => \E t \in Threads : threadPc[t] = "signal"

(***************************************************************************)
(* connect() never starts a second sender: when the thread is created the  *)
(* one of the connection before has been joined, and the queue it worked   *)
(* on, with its offset, is gone.                                           *)
(***************************************************************************)
OneSender == ownerPc \in {"clear", "close", "dial", "start"} => senderPc = "none"

(***************************************************************************)
(* Proxy packets reach the server in the order in which they were queued,  *)
(* none twice, whatever was dropped, retried or reconnected in between.    *)
(***************************************************************************)
DeliveredInOrder ==
  \A i, j \in 1..Len(delivered) : i < j => delivered[i] < delivered[j]

(***************************************************************************)
(* The sender discards a packet it has not sent only if the packet it did  *)
(* send was taken from under it by a head-drop.                            *)
(***************************************************************************)
LostOnlyAfterHeadDrop == lost # {} => headDropped

(***************************************************************************)
(* As long as every send call takes all it is given, the server can parse  *)
(* the stream: offsets, pops and drops never start it inside a packet.     *)
(***************************************************************************)
WholeWritesKeepFraming == ~shortWrite => ~garbled

-----------------------------------------------------------------------------
(***************************************************************************)
(* What the comments say and the code does not keep.                       *)
(***************************************************************************)

(***************************************************************************)
(* "If we already wrote some data, we MUST wait to finish the packet,      *)
(* otherwise we corrupt the TCP stream" (send_all): it is never corrupted. *)
(***************************************************************************)
StreamIntact == ~garbled

(***************************************************************************)
(* "Stop sender thread" (disconnect() in tcp_client.cpp): the sender, told *)
(* to stop, stops and is joined, so that disconnect() returns.             *)
(***************************************************************************)
DisconnectReturns == ownerPc = "join" ~> ownerPc # "join"
=============================================================================

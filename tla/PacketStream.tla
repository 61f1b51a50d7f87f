---------------------------- MODULE PacketStream ----------------------------
(***************************************************************************)
(* The receiving side of the program's three TCP streams: how a stream of  *)
(* bytes becomes packets again.                                            *)
(*   "tcp"      TcpClient::receive_packet under RyuLdnClient, from the     *)
(*              server of the network;                                     *)
(*   "session"  P2pProxySession::ReceiveLoop, from a joiner, in the host;  *)
(*   "client"   P2pProxyClient::ReceiveLoop, from the host, in a joiner.   *)
(* All three put what recv returned behind what a PacketBuffer holds       *)
(* (protocol/packet_buffer.hpp), and take whole packets from its front.    *)
(* They differ in the size of the buffer and in what an overflow, a bad    *)
(* header and a packet too large do.                                       *)
(*                                                                         *)
(* A byte is <<k, i>>, the i-th byte of the k-th packet that was sent; its *)
(* value does not matter, except that the first byte of a packet stands    *)
(* for the magic and the version, the last byte of its header for the      *)
(* length.  The peer may send bad headers and lengths above the maximum;   *)
(* no payload has the magic in it.                                         *)
(*                                                                         *)
(* TcpClient resets the buffer in disconnect() and connect() without the   *)
(* mutex that the receiving thread holds, so a chunk received before may   *)
(* be appended after, and consume() may write back the bytes it moved.     *)
(***************************************************************************)
EXTENDS Integers, Sequences

CONSTANTS
  HeaderSize,          \* sizeof(LdnHeader)
  BufferSize,          \* of each receiver's PacketBuffer
  ChunkSize,           \* of each receiver's buffer for recv
  PayloadLimit,        \* of process_packets' buffer
  Kinds,               \* the packets a peer may send: [bad, huge, size]
  GarbageSize,         \* the length that the bytes of no header read as
  MaxPackets,          \* bound: packets sent
  MaxConnections       \* bound: connections made

Receivers == {"tcp", "session", "client"}

ASSUME PacketStreamAssumption ==
  /\ HeaderSize \in Nat \ {0} /\ PayloadLimit \in Nat /\ GarbageSize \in Nat
  /\ MaxPackets \in Nat /\ MaxConnections \in Nat
  /\ BufferSize \in [Receivers -> Nat] /\ ChunkSize \in [Receivers -> Nat \ {0}]
  /\ Kinds \subseteq [bad : BOOLEAN, huge : BOOLEAN, size : Nat]
  \* 12 + 2048 + 4096 <= 8192
  /\ HeaderSize + PayloadLimit + ChunkSize["tcp"] <= BufferSize["tcp"]

VARIABLES
  receiver,            \* which of the three this is
  connected,           \* the socket is
  open,                \* the peer has not closed its end
  connection,          \* how many there have been
  sent,                \* the packets sent, over all connections
  wire,                \* bytes sent and not yet received
  m_recv_buffer,
  temp_buffer,         \* what recv returned; the bytes consume() moves
  pc,                  \* where the receiving thread is
  delivered,           \* packets handed over: k, or 0 when its bytes are not one packet's
  dropped,             \* an overflow has thrown bytes away
  raced                \* a reset came while the receiving thread held bytes

peer == <<open, connection, sent>>
history == <<delivered, dropped, raced>>
vars == <<receiver, connected, peer, wire, m_recv_buffer, temp_buffer, pc, history>>

Bytes(k, size) == [i \in 1..size |-> <<k, i>>]

TypeOK ==
  /\ receiver \in Receivers
  /\ connected \in BOOLEAN /\ open \in BOOLEAN /\ dropped \in BOOLEAN /\ raced \in BOOLEAN
  /\ connection \in Nat
  /\ sent \in Seq([bad : BOOLEAN, huge : BOOLEAN, size : Nat, connection : Nat])
  /\ wire \in Seq(Nat \X Nat) /\ temp_buffer \in Seq(Nat \X Nat)
  /\ m_recv_buffer \in Seq(Nat \X Nat) /\ Len(m_recv_buffer) <= BufferSize[receiver]
  /\ pc \in {"recv", "append", "drain", "consume", "ended"}
  /\ delivered \in Seq(0..MaxPackets)

Init ==
  /\ receiver \in Receivers
  /\ connected = TRUE /\ open = TRUE /\ connection = 1
  /\ sent = << >> /\ wire = << >> /\ m_recv_buffer = << >> /\ temp_buffer = << >>
  /\ pc = "recv" /\ delivered = << >> /\ dropped = FALSE /\ raced = FALSE

-----------------------------------------------------------------------------
(* The packet buffer. *)

\* decode_header: the magic and the version, then the length.
MagicRead == LET front == Head(m_recv_buffer)
             IN  front[2] = 1 /\ ~sent[front[1]].bad
LengthByte == m_recv_buffer[HeaderSize]
SizeRead == IF LengthByte[2] = HeaderSize THEN sent[LengthByte[1]].size ELSE GarbageSize
HugeRead == LengthByte[2] = HeaderSize /\ sent[LengthByte[1]].huge

\* Mutation: a packet is complete only when the header behind it is there too.
PacketInfoNextHeader ==
  IF Len(m_recv_buffer) < HeaderSize THEN "NoCompletePacket"
  ELSE IF ~MagicRead THEN "InvalidPacket"
  ELSE IF HugeRead THEN "PacketTooLarge"
  ELSE IF Len(m_recv_buffer) < 2 * HeaderSize + SizeRead THEN "NoCompletePacket"
  ELSE "Success"

\* peek_packet_info
PacketInfo ==
  IF Len(m_recv_buffer) < HeaderSize THEN "NoCompletePacket"
  ELSE IF ~MagicRead THEN "InvalidPacket"
  ELSE IF HugeRead THEN "PacketTooLarge"
  ELSE IF Len(m_recv_buffer) < HeaderSize + SizeRead THEN "NoCompletePacket"
  ELSE "Success"

\* append
Fits == Len(temp_buffer) <= BufferSize[receiver] - Len(m_recv_buffer)

\* extract: the packet at the front, and whether its bytes are those that were sent.
FrontPacket ==
  LET size == HeaderSize + SizeRead
      k == Head(m_recv_buffer)[1]
  IN  IF SubSeq(m_recv_buffer, 1, size) = Bytes(k, size) THEN k ELSE 0
BehindPacket == SubSeq(m_recv_buffer, HeaderSize + SizeRead + 1, Len(m_recv_buffer))

-----------------------------------------------------------------------------
(* The peer. *)

Send(kind) ==
  /\ connected /\ open /\ Len(sent) < MaxPackets
  /\ sent' = Append(sent, [bad |-> kind.bad, huge |-> kind.huge, size |-> kind.size,
                           connection |-> connection])
  /\ wire' = wire \o Bytes(Len(sent) + 1, HeaderSize + kind.size)
  /\ UNCHANGED <<receiver, connected, open, connection, m_recv_buffer, temp_buffer, pc,
                 history>>

PeerCloses ==
  /\ connected /\ open /\ open' = FALSE
  /\ UNCHANGED <<receiver, connected, connection, sent, wire, m_recv_buffer, temp_buffer, pc,
                 history>>

-----------------------------------------------------------------------------
(* The receiving thread. *)

\* recv returns what has arrived, at most a chunk.
Recv ==
  /\ pc = "recv" /\ connected
  /\ \E n \in 1..Len(wire) :
       /\ n <= ChunkSize[receiver]
       /\ temp_buffer' = SubSeq(wire, 1, n) /\ wire' = SubSeq(wire, n + 1, Len(wire))
  /\ pc' = "append"
  /\ UNCHANGED <<receiver, connected, peer, m_recv_buffer, history>>

\* The stream is at its end: ConnectionLost, or the loop is left.
RecvNothing ==
  /\ pc = "recv" /\ connected /\ ~open /\ wire = << >>
  /\ connected' = FALSE
  /\ pc' = IF receiver = "tcp" THEN "recv" ELSE "ended"
  /\ UNCHANGED <<receiver, peer, wire, m_recv_buffer, temp_buffer, history>>

\* A chunk of an earlier connection, in the buffer of this one.
StaleBytes == \E i \in DOMAIN temp_buffer : sent[temp_buffer[i][1]].connection # connection

AppendChunk ==
  /\ pc = "append" /\ Fits
  /\ m_recv_buffer' = m_recv_buffer \o temp_buffer
  /\ temp_buffer' = << >>
  /\ raced' = (raced \/ StaleBytes)
  /\ pc' = "drain"
  /\ UNCHANGED <<receiver, connected, peer, wire, delivered, dropped>>

\* receive_into_buffer drops the chunk and reports InvalidPacket; the caller goes on.
TcpOverflow ==
  /\ pc = "append" /\ ~Fits /\ receiver = "tcp"
  /\ pc' = "drain"
  /\ UNCHANGED <<connected, m_recv_buffer>>

\* P2pProxySession leaves its loop, and disconnects.
SessionOverflow ==
  /\ pc = "append" /\ ~Fits /\ receiver = "session"
  /\ connected' = FALSE /\ pc' = "ended"
  /\ UNCHANGED m_recv_buffer

\* Mutation: what fits is kept, the rest of the chunk is lost.
ClientOverflowTruncates ==
  /\ pc = "append" /\ ~Fits /\ receiver = "client"
  /\ m_recv_buffer' = SubSeq(m_recv_buffer \o temp_buffer, 1, BufferSize[receiver])
  /\ pc' = "drain"
  /\ UNCHANGED connected

\* P2pProxyClient empties its buffer, and goes on.
ClientOverflow ==
  /\ pc = "append" /\ ~Fits /\ receiver = "client"
  /\ m_recv_buffer' = << >> /\ pc' = "recv"
  /\ UNCHANGED connected

Overflow ==
  /\ TcpOverflow \/ SessionOverflow \/ ClientOverflow
  /\ dropped' = TRUE /\ temp_buffer' = << >>
  /\ UNCHANGED <<receiver, peer, wire, delivered, raced>>

\* has_complete_packet is false, for a header that will never be good too; the loops of
\* the P2P side leave on InvalidPacket, and only on that.
TakeNothing ==
  /\ pc = "drain" /\ PacketInfo # "Success"
  /\ IF receiver # "tcp" /\ PacketInfo = "InvalidPacket"
     THEN pc' = "ended" /\ connected' = FALSE
     ELSE pc' = "recv" /\ UNCHANGED connected
  /\ UNCHANGED <<receiver, peer, wire, m_recv_buffer, temp_buffer, history>>

\* receive_packet gives BufferTooSmall for a payload above the limit, and leaves it there.
Taken == connected /\ (receiver = "tcp" => SizeRead <= PayloadLimit)

TakePacket ==
  /\ pc = "drain" /\ PacketInfo = "Success" /\ Taken
  /\ delivered' = Append(delivered, FrontPacket)
  /\ temp_buffer' = BehindPacket
  /\ pc' = "consume"
  /\ UNCHANGED <<receiver, connected, peer, wire, m_recv_buffer, dropped, raced>>

\* Mutation: consume takes what is behind the packet too.
ConsumeAll ==
  /\ pc = "consume"
  /\ m_recv_buffer' = << >> /\ temp_buffer' = << >>
  /\ pc' = "drain"
  /\ UNCHANGED <<receiver, connected, peer, wire, history>>

\* consume: the bytes behind the packet are moved to the front, then counted.
Consume ==
  /\ pc = "consume"
  /\ m_recv_buffer' = temp_buffer /\ temp_buffer' = << >>
  /\ raced' = (raced \/ StaleBytes)
  /\ pc' = "drain"
  /\ UNCHANGED <<receiver, connected, peer, wire, delivered, dropped>>

-----------------------------------------------------------------------------
(***************************************************************************)
(* Another thread of TcpClient: disconnect() of the service or its timer,  *)
(* connect() of the next session.  (The receiving thread's own reconnect   *)
(* does the same, between two calls of receive_packet.)                    *)
(***************************************************************************)
Disconnect ==
  /\ receiver = "tcp" /\ connected
  /\ connected' = FALSE /\ wire' = << >> /\ m_recv_buffer' = << >>
  /\ UNCHANGED <<receiver, peer, temp_buffer, pc, history>>

Connect ==
  /\ receiver = "tcp" /\ ~connected /\ connection < MaxConnections
  /\ connected' = TRUE /\ open' = TRUE /\ connection' = connection + 1
  /\ wire' = << >> /\ m_recv_buffer' = << >>
  /\ UNCHANGED <<receiver, sent, temp_buffer, pc, history>>

-----------------------------------------------------------------------------
Next ==
  \/ \E kind \in Kinds : Send(kind)
  \/ PeerCloses
  \/ Recv
  \/ RecvNothing
  \/ AppendChunk
  \/ Overflow
  \/ TakeNothing
  \/ TakePacket
  \/ Consume
  \/ Disconnect
  \/ Connect

Spec == Init /\ [][Next]_vars

\* The receiving thread runs: every step of it that can be made is made in the end.
Receive == Recv \/ RecvNothing \/ AppendChunk \/ Overflow \/ TakeNothing \/ TakePacket \/ Consume
FairSpec == Spec /\ WF_vars(Receive)

-----------------------------------------------------------------------------
(* Properties. *)

\* A packet that the receiver can take: nothing in it is refused by the code.
Legit(k) ==
  /\ ~sent[k].bad /\ ~sent[k].huge
  /\ receiver = "tcp" => sent[k].size <= PayloadLimit

\* The packets of k's connection, up to k, are all ones that the receiver can take.
LegitUpTo(k) ==
  \A j \in 1..k : sent[j].connection = sent[k].connection => Legit(j)

\* Whatever the sizes of the chunks, and through overflows, bad headers and lengths above the
\* maximum (PacketBuffer with its three loops): what is handed over is a packet as it was
\* sent, each once and in the order of sending, unless a reset of TcpClient's buffer came
\* while the receiving thread held bytes of it.
IntactInOrder ==
  raced \/ \A i \in DOMAIN delivered :
             /\ delivered[i] # 0
             /\ \A j \in 1..(i - 1) : delivered[j] < delivered[i]

\* A packet is skipped only where bytes have been thrown away: of the packets of one
\* connection, those handed over are the first ones (consume and the loops around it; the
\* reset of P2pProxyClient::ReceiveLoop is what throws away).
NoGap ==
  raced \/ dropped \/
  \A i \in DOMAIN delivered : \A k \in 1..delivered[i] :
    sent[k].connection = sent[delivered[i]].connection =>
      \E j \in 1..i : delivered[j] = k

\* TcpClient's buffer is large enough: its receive_into_buffer throws a chunk away only
\* when the server sent something that process_packets will never take.
TcpOverflowsOnlyOnRefused ==
  receiver = "tcp" /\ dropped /\ ~raced => \E k \in DOMAIN sent : ~Legit(k)

\* A packet behind none that the receiver refuses is handed over in the end, or the
\* connection is: the loops wait for nothing that has arrived already.
LegitIsTaken ==
  \A k \in 1..MaxPackets :
    (k \in DOMAIN sent /\ sent[k].connection = connection /\ LegitUpTo(k)) ~>
      \/ \E i \in DOMAIN delivered : delivered[i] = k
      \/ ~connected \/ raced
      \/ receiver = "client" /\ dropped

\* What the comment in P2pProxyClient::ReceiveLoop says of the reset: the next complete
\* packet re-syncs the stream, the connection is not dropped.
ResetResyncs ==
  receiver = "client" /\ pc = "ended" /\ (\A k \in DOMAIN sent : Legit(k)) => ~open

=============================================================================

--------------------------- MODULE MCPacketStream ---------------------------
EXTENDS PacketStream

Packet(size) == [bad |-> FALSE, huge |-> FALSE, size |-> size]

\* In units of a kilobyte, but for the header: two bytes, the magic and the length.
MCBufferSize == [tcp |-> 8, session |-> 4, client |-> 6]
MCChunkSize == [tcp |-> 4, session |-> 4, client |-> 6]
MCKinds == {Packet(0), Packet(2), Packet(5), [Packet(0) EXCEPT !.bad = TRUE],
            [Packet(1) EXCEPT !.huge = TRUE]}
=============================================================================

------------------------ MODULE PacketStreamProofs ------------------------
(***************************************************************************)
(* That the receiver of a stream hands over packets as they were sent, in  *)
(* their order and without a gap, whatever the sizes of packets, chunks    *)
(* and buffers, and that TcpClient's buffer overflows only on what the     *)
(* program refuses.                                                        *)
(***************************************************************************)
EXTENDS PacketStream, TLAPS

Byte == Nat \X Nat
Packet_ == [bad : BOOLEAN, huge : BOOLEAN, size : Nat, connection : Nat]

(***************************************************************************)
(* The bytes of s follow each other as the packets p were sent.  The       *)
(* distance of two bytes tells what one says of the other, so that nothing *)
(* has to be shown byte by byte.                                           *)
(***************************************************************************)
Size(p, k) == HeaderSize + p[k].size
Sent(b, p) == b[1] \in 1..Len(p) /\ b[2] \in 1..Size(p, b[1])
Left(b, p) == Size(p, b[1]) - b[2]
Follows(a, b, d, p) ==
  /\ a[1] <= b[1]
  /\ d <= Left(a, p) => b[1] = a[1] /\ b[2] = a[2] + d
  /\ d = Left(a, p) + 1 => b[1] = a[1] + 1 /\ b[2] = 1
Run(s, p) ==
  /\ \A i \in 1..Len(s) : Sent(s[i], p)
  /\ \A i \in 1..Len(s) : \A j \in 1..Len(s) : i <= j => Follows(s[i], s[j], j - i, p)
\* The last byte is the last one sent.
Complete(s, p) ==
  Len(s) > 0 => s[Len(s)][1] = Len(p) /\ s[Len(s)][2] = Size(p, Len(p))

(***************************************************************************)
(* What the receiver will still look at: what it holds, and what is under  *)
(* way.  That is a piece of the stream as long as the connection stands,   *)
(* no reset has raced the receiving thread, and none is about to.          *)
(***************************************************************************)
Pending == IF pc = "append" THEN m_recv_buffer \o temp_buffer
           ELSE IF pc = "consume" THEN temp_buffer
           ELSE m_recv_buffer
Stream == Pending \o wire
Live == connected /\ ~raced /\ ~StaleBytes

(***************************************************************************)
(* Or TcpClient's buffer begins with a packet that is never taken.         *)
(***************************************************************************)
Blocked ==
  /\ receiver = "tcp" /\ dropped /\ pc # "consume" /\ Len(m_recv_buffer) >= HeaderSize
  /\ \E k \in 1..Len(sent) : /\ m_recv_buffer[1][1] = k
                               /\ m_recv_buffer[HeaderSize][1] = k
                               /\ m_recv_buffer[HeaderSize][2] = HeaderSize
                               /\ ~Legit(k)

(***************************************************************************)
(* Whatever races: all bytes are ones that were sent, those under way ones *)
(* of this connection.                                                     *)
(***************************************************************************)
AllSent(s, p) == \A i \in 1..Len(s) : Sent(s[i], p)
AllOf(s, p, c) == \A i \in 1..Len(s) : p[s[i][1]].connection = c
Known ==
  /\ AllSent(m_recv_buffer, sent) /\ AllSent(temp_buffer, sent) /\ AllSent(wire, sent)
  /\ AllOf(wire, sent, connection)
  /\ \A k \in 1..Len(sent) : sent[k].connection \in 1..connection
  /\ Len(sent) <= MaxPackets
  /\ \A i \in 1..Len(delivered) : delivered[i] <= Len(sent)
Holds ==
  /\ pc \notin {"append", "consume"} => temp_buffer = << >>
  /\ pc = "append" => Len(temp_buffer) <= ChunkSize[receiver]
  /\ pc = "consume" => Len(temp_buffer) <= BufferSize[receiver]
Ends ==
  /\ pc = "ended" => receiver # "tcp" /\ ~connected
  /\ connection >= 1
  /\ receiver # "tcp" => connection = 1 /\ (~connected => pc = "ended")
  /\ receiver = "tcp" /\ ~connected => wire = << >>
  /\ receiver # "tcp" => ~raced
Base == TypeOK /\ Known /\ Holds /\ Ends

Own == Live /\ pc # "consume" => AllOf(m_recv_buffer, sent, connection)

\* What is to come has not been handed over; it begins with a packet, but for a client
\* that has dropped bytes; and what is in front of it in this connection has been handed over.
Ahead(s, d) == \A i \in 1..Len(s) : \A j \in 1..Len(d) : d[j] < s[i][1]
Begins(s) == Len(s) > 0 => s[1][2] = 1
Passed(s, p, d, c) ==
  \A k \in 1..Len(p) : p[k].connection = c /\ (Len(s) > 0 => k < s[1][1]) =>
    \E j \in 1..Len(d) : d[j] = k
Flowing ==
  /\ Run(Stream, sent) /\ Complete(Stream, sent) /\ Ahead(Stream, delivered)
  /\ receiver = "tcp" \/ ~dropped => Begins(Stream)
  /\ ~dropped => Passed(Stream, sent, delivered, connection)
Flows == Live => Blocked \/ Flowing
\* The receiver has looked at what it holds before it waits for more.
Drained ==
  /\ receiver = "tcp" /\ Live /\ pc \in {"recv", "append"} => PacketInfo # "Success"
  /\ receiver = "tcp" /\ ~raced /\ pc = "append" /\ (~connected \/ StaleBytes)
       => m_recv_buffer = << >>

Inv ==
  /\ Base /\ Own /\ Flows /\ Drained
  /\ IntactInOrder /\ NoGap /\ TcpOverflowsOnlyOnRefused

-----------------------------------------------------------------------------
(* Pieces of a stream. *)

\* The constants, one by one.
LEMMA ConstantFacts ==
  /\ HeaderSize \in Nat /\ HeaderSize > 0 /\ PayloadLimit \in Nat /\ GarbageSize \in Nat
  /\ MaxPackets \in Nat
  /\ \A r \in Receivers : BufferSize[r] \in Nat /\ ChunkSize[r] \in Nat
  /\ "tcp" \in Receivers
  /\ HeaderSize + PayloadLimit + ChunkSize["tcp"] <= BufferSize["tcp"]
BY PacketStreamAssumption DEF Receivers

\* What is left of a byte's packet behind it.
LEMMA SizeFacts ==
  ASSUME NEW p \in Seq(Packet_)
  PROVE  /\ \A k \in 1..Len(p) : Size(p, k) \in Nat /\ Size(p, k) >= HeaderSize
         /\ \A b \in Byte : Sent(b, p) => Left(b, p) \in Nat
<1>1. \A k \in 1..Len(p) : Size(p, k) \in Nat /\ Size(p, k) >= HeaderSize
  <2> SUFFICES ASSUME NEW k \in 1..Len(p)
               PROVE  Size(p, k) \in Nat /\ Size(p, k) >= HeaderSize
    OBVIOUS
  <2>1. p[k] \in Packet_
    OBVIOUS
  <2>2. p[k].size \in Nat
    BY <2>1 DEF Packet_
  <2>3. QED
    BY <2>2, ConstantFacts DEF Size
<1>2. QED
  BY <1>1 DEF Sent, Left, Byte

\* The bytes behind the n-th one of a piece are a piece.
LEMMA RunSuffix ==
  ASSUME NEW p \in Seq(Packet_), NEW s \in Seq(Byte), NEW n \in 0..Len(s),
         Run(s, p), Complete(s, p)
  PROVE  LET t == SubSeq(s, n + 1, Len(s))
         IN  t \in Seq(Byte) /\ Run(t, p) /\ Complete(t, p)
<1> DEFINE t == SubSeq(s, n + 1, Len(s))
<1>1. /\ t \in Seq(Byte) /\ Len(t) = Len(s) - n
      /\ \A i \in 1..Len(t) : t[i] = s[i + n] /\ i + n \in 1..Len(s)
  OBVIOUS
<1> HIDE DEF t
<1>2. \A i \in 1..Len(t) : Sent(t[i], p)
  BY <1>1 DEF Run
<1>3. ASSUME NEW i \in 1..Len(t), NEW j \in 1..Len(t), i <= j
      PROVE  Follows(t[i], t[j], j - i, p)
  <2>1. i + n \in 1..Len(s) /\ j + n \in 1..Len(s) /\ i + n <= j + n /\ (j + n) - (i + n) = j - i
    BY <1>1, <1>3
  <2>2. Follows(s[i + n], s[j + n], (j + n) - (i + n), p)
    BY <2>1 DEF Run
  <2>3. t[i] = s[i + n] /\ t[j] = s[j + n]
    BY <1>1
  <2>4. QED
    BY <2>1, <2>2, <2>3, Zenon
<1>4. Complete(t, p)
  BY <1>1 DEF Complete
<1>5. QED
  BY <1>1, <1>2, <1>3, <1>4 DEF Run, t

\* The bytes of a packet.
LEMMA BytesIs ==
  ASSUME NEW k \in Nat, NEW size \in Nat
  PROVE  /\ Bytes(k, size) \in Seq(Byte) /\ Len(Bytes(k, size)) = size
         /\ \A i \in 1..size : Bytes(k, size)[i][1] = k /\ Bytes(k, size)[i][2] = i
<1>1. \A i \in 1..size : <<k, i>> \in Byte /\ <<k, i>>[1] = k /\ <<k, i>>[2] = i
  BY DEF Byte
<1>2. \A i \in 1..size : Bytes(k, size)[i] = <<k, i>>
  BY DEF Bytes
<1>3. Bytes(k, size) \in [1..size -> Byte]
  BY <1>1 DEF Bytes
<1>4. Bytes(k, size) \in Seq(Byte) /\ Len(Bytes(k, size)) = size
  BY <1>3
<1>5. QED
  BY <1>1, <1>2, <1>4

\* A packet sent behind a whole piece makes it longer by one packet.
LEMMA RunAppend ==
  ASSUME NEW p \in Seq(Packet_), NEW s \in Seq(Byte), Run(s, p), Complete(s, p),
         NEW r \in Packet_
  PROVE  LET q == Append(p, r)
             t == s \o Bytes(Len(p) + 1, HeaderSize + r.size)
         IN  t \in Seq(Byte) /\ Run(t, q) /\ Complete(t, q)
<1> DEFINE q == Append(p, r)
           n == Len(p) + 1
           size == HeaderSize + r.size
           t == s \o Bytes(n, size)
<1>1. /\ q \in Seq(Packet_) /\ Len(q) = n /\ n \in Nat /\ n > 0 /\ size \in Nat /\ size > 0
      /\ Len(p) = n - 1
      /\ \A k \in 1..(n - 1) : q[k] = p[k]
      /\ q[n] = r /\ r.size \in Nat /\ size = HeaderSize + r.size
  BY ConstantFacts DEF Packet_
<1> HIDE DEF q, n, size
<1>2. PICK b \in Seq(Byte) : /\ b = Bytes(n, size) /\ Len(b) = size
                             /\ \A i \in 1..size : b[i][1] = n /\ b[i][2] = i
  <2>1. n \in Nat /\ size \in Nat
    BY <1>1
  <2>2. /\ Bytes(n, size) \in Seq(Byte) /\ Len(Bytes(n, size)) = size
        /\ \A i \in 1..size : Bytes(n, size)[i][1] = n /\ Bytes(n, size)[i][2] = i
    BY <2>1, BytesIs
  <2>3. QED
    BY <2>2, Zenon
<1>3. /\ t \in Seq(Byte) /\ Len(t) = Len(s) + size
      /\ \A i \in 1..Len(s) : t[i] = s[i]
      /\ \A i \in 1..Len(t) : i > Len(s) => t[i][1] = n /\ t[i][2] = i - Len(s)
  <2>1. t = s \o b
    BY <1>2
  <2> HIDE DEF t
  <2>2. t \in Seq(Byte) /\ Len(t) = Len(s) + size
    BY <1>2, <2>1
  <2>3. \A i \in 1..Len(s) : t[i] = s[i]
    BY <2>1
  <2>4. ASSUME NEW i \in 1..Len(t), i > Len(s)
        PROVE  t[i][1] = n /\ t[i][2] = i - Len(s)
    <3>1. i - Len(s) \in 1..size
      BY <1>1, <2>2, <2>4
    <3>2. t[i] = b[i - Len(s)]
      BY <1>2, <2>1, <2>2, <2>4
    <3>3. QED
      BY <1>2, <3>1, <3>2
  <2>5. QED
    BY <2>2, <2>3, <2>4
<1> HIDE DEF t
<1>4. /\ \A a \in Byte : Sent(a, p) => Sent(a, q) /\ Left(a, q) = Left(a, p) /\ a[1] < n
      /\ Size(q, n) = size
  BY <1>1 DEF Sent, Left, Size
<1>5. \A i \in 1..Len(t) : Sent(t[i], q)
  <2> SUFFICES ASSUME NEW i \in 1..Len(t) PROVE Sent(t[i], q)
    OBVIOUS
  <2>1. CASE i <= Len(s)
    BY <1>3, <1>4, <2>1 DEF Run
  <2>2. CASE i > Len(s)
    <3>1. t[i][1] = n /\ t[i][2] = i - Len(s) /\ i - Len(s) \in 1..size
      BY <1>1, <1>3, <2>2
    <3>2. n \in 1..Len(q)
      BY <1>1
    <3>3. QED
      BY <1>4, <3>1, <3>2 DEF Sent
  <2>3. QED
    BY <1>3, <2>1, <2>2
<1>6. ASSUME NEW i \in 1..Len(t), NEW j \in 1..Len(t), i <= j
      PROVE  Follows(t[i], t[j], j - i, q)
  <2>1. CASE j <= Len(s)
    <3>1. Follows(s[i], s[j], j - i, p)
      BY <1>3, <1>6, <2>1, SMTT(30) DEF Run
    <3>2. Sent(s[i], p) /\ s[i] \in Byte /\ t[i] = s[i] /\ t[j] = s[j]
      BY <1>3, <1>6, <2>1 DEF Run
    <3>3. QED
      BY <1>4, <3>1, <3>2 DEF Follows
  <2>2. CASE i > Len(s)
    <3>1. /\ t[i][1] = n /\ t[i][2] = i - Len(s) /\ t[j][1] = n /\ t[j][2] = j - Len(s)
          /\ j - Len(s) <= size
      BY <1>1, <1>3, <1>6, <2>2, SMTT(30)
    <3>2. Left(t[i], q) = size - (i - Len(s))
      BY <1>4, <3>1 DEF Left
    <3>3. QED
      <4> DEFINE x == i - Len(s)
                 y == j - Len(s)
      <4>1. x \in Nat /\ y \in Nat /\ j - i = y - x /\ x = i - Len(s) /\ y = j - Len(s)
        BY <1>1, <1>3, <1>6, <2>2
      <4> HIDE DEF x, y
      <4>2. y <= size /\ Left(t[i], q) = size - x
        BY <3>1, <3>2, <4>1
      <4>3. QED
        BY <1>1, <3>1, <4>1, <4>2, SMTT(30) DEF Follows
  <2>3. CASE i <= Len(s) /\ j > Len(s)
    <3>1. /\ s[i] \in Byte /\ Sent(s[i], p) /\ t[i] = s[i] /\ i \in 1..Len(s)
          /\ t[j][1] = n /\ t[j][2] = j - Len(s)
      BY <1>3, <2>3 DEF Run
    <3>2. PICK k \in Nat, x \in Nat : k = s[i][1] /\ x = s[i][2]
      BY <3>1 DEF Byte
    <3>3. PICK last \in 1..Len(s) : last = Len(s)
      BY <1>3, <2>3
    <3>4. /\ s[last][1] = n - 1 /\ s[last][2] = Size(p, n - 1)
          /\ Follows(s[i], s[last], last - i, p)
      BY <1>1, <1>3, <2>3, <3>1, <3>3, SMTT(30) DEF Complete, Run
    <3>5. PICK left \in Nat : left = Left(s[i], p) /\ left = Size(p, k) - x /\ Size(p, k) \in Nat
      BY <3>1, <3>2, SizeFacts DEF Sent, Left
    <3>6. /\ k <= n - 1
          /\ last - i <= left => n - 1 = k /\ Size(p, n - 1) = x + (last - i)
          /\ Left(t[i], q) = left
      BY <1>4, <3>1, <3>2, <3>4, <3>5 DEF Follows
    <3>7. last - i >= left
      <4>1. last - i <= left => last - i = left
        BY <3>2, <3>3, <3>5, <3>6, SMTT(30)
      <4>2. QED
        BY <1>3, <3>1, <3>3, <4>1
    <3>8. j - i > left /\ j = last + (j - last)
      BY <1>3, <2>3, <3>3, <3>7
    <3>9. j - i = left + 1 => n = k + 1 /\ j - last = 1
      <4> DEFINE m == j - last
      <4>1. m \in Nat /\ m = j - last
        BY <1>1, <1>3, <2>3, <3>3
      <4> HIDE DEF m
      <4>2. j - i = m + (last - i) /\ m >= 1 /\ last - i \in Nat
        BY <1>3, <2>3, <3>1, <3>3, <4>1
      <4>3. QED
        BY <1>1, <3>2, <3>6, <3>7, <4>1, <4>2, SMTT(30)
    <3>10. QED
      BY <1>1, <1>3, <3>1, <3>2, <3>3, <3>6, <3>8, <3>9 DEF Follows
  <2>4. QED
    BY <1>3, <2>1, <2>2, <2>3
<1>7. Complete(t, q)
  <2>1. Len(t) \in 1..Len(t) /\ Len(t) > Len(s) /\ Len(t) - Len(s) = size
    BY <1>1, <1>3
  <2>2. t[Len(t)][1] = n /\ t[Len(t)][2] = size
    BY <1>3, <2>1
  <2>3. QED
    BY <1>1, <1>4, <2>2 DEF Complete
<1>8. QED
  BY <1>3, <1>5, <1>6, <1>7 DEF Run, t, q, n, size

\* Sequences of bytes that agree everywhere are the same.
LEMMA SameSeq ==
  ASSUME NEW s \in Seq(Byte), NEW t \in Seq(Byte), Len(s) = Len(t),
         \A i \in 1..Len(s) : s[i] = t[i]
  PROVE  s = t
<1>1. s = [i \in 1..Len(s) |-> s[i]] /\ t = [i \in 1..Len(t) |-> t[i]]
  OBVIOUS
<1>2. QED
  BY <1>1

\* One sequence of bytes behind another.
LEMMA CatIs ==
  ASSUME NEW s \in Seq(Byte), NEW t \in Seq(Byte)
  PROVE  /\ s \o t \in Seq(Byte) /\ Len(s \o t) = Len(s) + Len(t)
         /\ \A i \in 1..Len(s) : (s \o t)[i] = s[i]
         /\ \A i \in 1..Len(s \o t) : i > Len(s) => (s \o t)[i] = t[i - Len(s)]
OBVIOUS

\* recv moves bytes from the wire to behind what is held.
LEMMA MoveKeeps ==
  ASSUME NEW s \in Seq(Byte), NEW w \in Seq(Byte), NEW n \in 1..Len(w)
  PROVE  (s \o SubSeq(w, 1, n)) \o SubSeq(w, n + 1, Len(w)) = s \o w
<1> DEFINE front == SubSeq(w, 1, n)
           back == SubSeq(w, n + 1, Len(w))
<1>1. /\ front \in Seq(Byte) /\ Len(front) = n
      /\ \A i \in 1..n : front[i] = w[i]
  OBVIOUS
<1>2. /\ back \in Seq(Byte) /\ Len(back) = Len(w) - n
      /\ \A i \in 1..Len(back) : back[i] = w[i + n]
  OBVIOUS
<1> HIDE DEF front, back
<1> DEFINE held == s \o front
           left == held \o back
           right == s \o w
<1>3. /\ held \in Seq(Byte) /\ Len(held) = Len(s) + n
      /\ \A i \in 1..Len(s) : held[i] = s[i]
      /\ \A i \in 1..Len(held) : i > Len(s) => held[i] = front[i - Len(s)]
  BY <1>1, CatIs
<1> HIDE DEF held
<1>4. /\ left \in Seq(Byte) /\ Len(left) = Len(s) + Len(w)
      /\ \A i \in 1..Len(held) : left[i] = held[i]
      /\ \A i \in 1..Len(left) : i > Len(held) => left[i] = back[i - Len(held)]
  <2>1. /\ left \in Seq(Byte) /\ Len(left) = Len(held) + Len(back)
        /\ \A i \in 1..Len(held) : left[i] = held[i]
        /\ \A i \in 1..Len(left) : i > Len(held) => left[i] = back[i - Len(held)]
    BY <1>2, <1>3, CatIs
  <2>2. Len(held) + Len(back) = Len(s) + Len(w)
    BY <1>2, <1>3
  <2>3. QED
    BY <2>1, <2>2
<1>5. /\ right \in Seq(Byte) /\ Len(right) = Len(s) + Len(w)
      /\ \A i \in 1..Len(s) : right[i] = s[i]
      /\ \A i \in 1..Len(right) : i > Len(s) => right[i] = w[i - Len(s)]
  BY CatIs
<1> HIDE DEF left, right
<1>6. ASSUME NEW i \in 1..Len(left) PROVE left[i] = right[i]
  <2>1. CASE i <= Len(s)
    BY <1>3, <1>4, <1>5, <2>1
  <2>2. CASE i > Len(s) /\ i <= Len(s) + n
    <3>1. i \in 1..Len(held) /\ i \in 1..Len(right) /\ i - Len(s) \in 1..n
      BY <1>3, <1>4, <1>5, <2>2
    <3>2. QED
      BY <1>1, <1>3, <1>4, <1>5, <2>2, <3>1
  <2>3. CASE i > Len(s) + n
    <3>1. /\ i > Len(held) /\ i \in 1..Len(right) /\ i > Len(s)
          /\ i - Len(held) \in 1..Len(back) /\ (i - Len(held)) + n = i - Len(s)
      BY <1>2, <1>3, <1>4, <1>5, <2>3
    <3>2. left[i] = back[i - Len(held)] /\ right[i] = w[i - Len(s)]
      BY <1>4, <1>5, <3>1
    <3>3. QED
      BY <1>2, <3>1, <3>2
  <2>4. QED
    BY <1>4, <2>1, <2>2, <2>3
<1>7. left = right
  BY <1>4, <1>5, <1>6, SameSeq
<1>8. QED
  BY <1>7 DEF left, right, held, front, back

\* It does not matter where three pieces are put together.
LEMMA CatCat ==
  ASSUME NEW s \in Seq(Byte), NEW w \in Seq(Byte), NEW b \in Seq(Byte)
  PROVE  s \o (w \o b) = (s \o w) \o b
<1> DEFINE back == w \o b
           front == s \o w
           left == s \o back
           right == front \o b
<1>1. /\ back \in Seq(Byte) /\ Len(back) = Len(w) + Len(b)
      /\ \A i \in 1..Len(w) : back[i] = w[i]
      /\ \A i \in 1..Len(back) : i > Len(w) => back[i] = b[i - Len(w)]
  BY CatIs
<1>2. /\ front \in Seq(Byte) /\ Len(front) = Len(s) + Len(w)
      /\ \A i \in 1..Len(s) : front[i] = s[i]
      /\ \A i \in 1..Len(front) : i > Len(s) => front[i] = w[i - Len(s)]
  BY CatIs
<1> HIDE DEF back, front
<1>3. /\ left \in Seq(Byte) /\ Len(left) = Len(s) + Len(back)
      /\ \A i \in 1..Len(s) : left[i] = s[i]
      /\ \A i \in 1..Len(left) : i > Len(s) => left[i] = back[i - Len(s)]
  BY <1>1, CatIs
<1>4. /\ right \in Seq(Byte) /\ Len(right) = Len(front) + Len(b)
      /\ \A i \in 1..Len(front) : right[i] = front[i]
      /\ \A i \in 1..Len(right) : i > Len(front) => right[i] = b[i - Len(front)]
  BY <1>2, CatIs
<1> HIDE DEF left, right
<1>5. Len(left) = Len(right)
  BY <1>1, <1>2, <1>3, <1>4
<1>6. ASSUME NEW i \in 1..Len(left) PROVE left[i] = right[i]
  <2>1. CASE i <= Len(s)
    BY <1>2, <1>3, <1>4, <2>1
  <2>2. CASE i > Len(s) /\ i <= Len(s) + Len(w)
    <3>1. i \in 1..Len(front) /\ i - Len(s) \in 1..Len(w)
      BY <1>2, <2>2
    <3>2. left[i] = back[i - Len(s)] /\ right[i] = w[i - Len(s)]
      BY <1>2, <1>3, <1>4, <2>2, <3>1
    <3>3. QED
      BY <1>1, <3>1, <3>2
  <2>3. CASE i > Len(s) + Len(w)
    <3>1. /\ i > Len(s) /\ i - Len(s) \in 1..Len(back) /\ i - Len(s) > Len(w)
          /\ (i - Len(s)) - Len(w) = i - Len(front)
          /\ i \in 1..Len(right) /\ i > Len(front)
      BY <1>1, <1>2, <1>3, <1>5, <2>3
    <3>2. left[i] = back[i - Len(s)] /\ right[i] = b[i - Len(front)]
      BY <1>3, <1>4, <3>1
    <3>3. QED
      BY <1>1, <3>1, <3>2
  <2>4. QED
    BY <2>1, <2>2, <2>3
<1>7. left = right
  BY <1>3, <1>4, <1>5, <1>6, SameSeq
<1>8. QED
  BY <1>7 DEF left, right, back, front

\* What is behind the n-th byte of what is held, with the wire behind it.
LEMMA SuffixCat ==
  ASSUME NEW s \in Seq(Byte), NEW w \in Seq(Byte), NEW n \in 0..Len(s)
  PROVE  SubSeq(s, n + 1, Len(s)) \o w = SubSeq(s \o w, n + 1, Len(s \o w))
<1> DEFINE back == SubSeq(s, n + 1, Len(s))
           all == s \o w
<1>1. /\ back \in Seq(Byte) /\ Len(back) = Len(s) - n
      /\ \A i \in 1..Len(back) : back[i] = s[i + n]
  OBVIOUS
<1>2. /\ all \in Seq(Byte) /\ Len(all) = Len(s) + Len(w)
      /\ \A i \in 1..Len(s) : all[i] = s[i]
      /\ \A i \in 1..Len(all) : i > Len(s) => all[i] = w[i - Len(s)]
  OBVIOUS
<1> HIDE DEF back, all
<1> DEFINE left == back \o w
           right == SubSeq(all, n + 1, Len(all))
<1>3. /\ right \in Seq(Byte) /\ Len(right) = Len(all) - n
      /\ \A i \in 1..Len(right) : right[i] = all[i + n]
  BY <1>2
<1>4. /\ left \in Seq(Byte) /\ Len(left) = Len(back) + Len(w)
      /\ \A i \in 1..Len(back) : left[i] = back[i]
      /\ \A i \in 1..Len(left) : i > Len(back) => left[i] = w[i - Len(back)]
  BY <1>1, CatIs
<1> HIDE DEF left, right
<1>5. Len(left) = Len(right)
  BY <1>1, <1>2, <1>3, <1>4
<1>6. ASSUME NEW i \in 1..Len(left) PROVE left[i] = right[i]
  <2>1. right[i] = all[i + n] /\ i + n \in 1..Len(all)
    BY <1>2, <1>3, <1>5
  <2>2. CASE i <= Len(back)
    BY <1>1, <1>2, <1>4, <2>1, <2>2
  <2>3. CASE i > Len(back)
    <3>1. i + n > Len(s) /\ (i + n) - Len(s) = i - Len(back)
      BY <1>1, <1>4, <2>3
    <3>2. QED
      BY <1>2, <1>4, <2>1, <2>3, <3>1
  <2>4. QED
    BY <1>1, <1>4, <2>2, <2>3
<1>7. left = right
  BY <1>3, <1>4, <1>5, <1>6, SameSeq
<1>8. QED
  BY <1>7 DEF left, right, back, all

\* A piece that begins with the first byte of a packet begins with all of it.
LEMMA RunFront ==
  ASSUME NEW p \in Seq(Packet_), NEW s \in Seq(Byte), Run(s, p), Complete(s, p),
         Len(s) > 0, s[1][2] = 1
  PROVE  LET k == s[1][1]
             n == Size(p, k)
         IN  /\ k \in 1..Len(p) /\ n \in Nat /\ n >= HeaderSize
             /\ \A i \in 1..Len(s) : i <= n => s[i][1] = k /\ s[i][2] = i
             /\ \A i \in 1..Len(s) : i > n => s[i][1] > k
             /\ Len(s) > n => s[n + 1][1] = k + 1 /\ s[n + 1][2] = 1
             /\ Len(s) <= n => k = Len(p)
<1>1. PICK first \in 1..Len(s) : first = 1
  OBVIOUS
<1>2. s[1] \in Byte /\ Sent(s[1], p) /\ \A i \in 1..Len(s) : Follows(s[1], s[i], i - 1, p)
  BY <1>1 DEF Run
<1>3. PICK k \in Nat : k = s[1][1] /\ k \in 1..Len(p)
  BY <1>2 DEF Byte, Sent
<1>4. PICK n \in Nat : n = Size(p, k) /\ n >= HeaderSize /\ Left(s[1], p) = n - 1
  BY <1>3, SizeFacts DEF Left
<1>5. /\ \A i \in 1..Len(s) : i <= n => s[i][1] = k /\ s[i][2] = i
      /\ Len(s) > n => s[n + 1][1] = k + 1 /\ s[n + 1][2] = 1
  <2>1. ASSUME NEW i \in 1..Len(s) PROVE i <= n => s[i][1] = k /\ s[i][2] = i
    BY <1>2, <1>3, <1>4 DEF Follows
  <2>2. ASSUME Len(s) > n PROVE s[n + 1][1] = k + 1 /\ s[n + 1][2] = 1
    <3>1. n + 1 \in 1..Len(s) /\ (n + 1) - 1 = Left(s[1], p) + 1
      BY <1>4, <2>2
    <3>2. Follows(s[1], s[n + 1], (n + 1) - 1, p)
      BY <1>2, <3>1
    <3>3. QED
      BY <1>3, <3>1, <3>2 DEF Follows
  <2>3. QED
    BY <2>1, <2>2
<1>6. ASSUME NEW i \in 1..Len(s), i > n PROVE s[i][1] > k
  <2>1. n + 1 \in 1..Len(s) /\ n + 1 <= i /\ s[n + 1][1] = k + 1
    BY <1>4, <1>5, <1>6
  <2>2. s[n + 1][1] <= s[i][1]
    BY <2>1 DEF Run, Follows
  <2>3. s[i][1] \in Nat
    BY DEF Byte
  <2>4. QED
    BY <1>3, <2>1, <2>2, <2>3
<1>7. ASSUME Len(s) <= n PROVE k = Len(p)
  BY <1>5, <1>7 DEF Complete
<1>8. QED
  BY <1>3, <1>4, <1>5, <1>6, <1>7

-----------------------------------------------------------------------------
(* What holds whatever races. *)

\* The type invariant, said with Byte and Packet_.
LEMMA TypeOKIs ==
  TypeOK <=>
    /\ receiver \in Receivers
    /\ connected \in BOOLEAN /\ open \in BOOLEAN /\ dropped \in BOOLEAN /\ raced \in BOOLEAN
    /\ connection \in Nat /\ sent \in Seq(Packet_)
    /\ wire \in Seq(Byte) /\ temp_buffer \in Seq(Byte) /\ m_recv_buffer \in Seq(Byte)
    /\ Len(m_recv_buffer) <= BufferSize[receiver]
    /\ pc \in {"recv", "append", "drain", "consume", "ended"}
    /\ delivered \in Seq(0..MaxPackets)
BY Zenon DEF TypeOK, Byte, Packet_

\* Nothing at all.
LEMMA EmptyIs ==
  /\ << >> \in Seq(Byte) /\ Len(<< >>) = 0
  /\ \A p, c : AllSent(<< >>, p) /\ AllOf(<< >>, p, c)
BY DEF AllSent, AllOf

\* Two sequences of bytes that were sent make one.
LEMMA CatSent ==
  ASSUME NEW p, NEW c, NEW s \in Seq(Byte), NEW t \in Seq(Byte)
  PROVE  /\ AllSent(s, p) /\ AllSent(t, p) => AllSent(s \o t, p)
         /\ AllOf(s, p, c) /\ AllOf(t, p, c) => AllOf(s \o t, p, c)
<1> DEFINE u == s \o t
<1>1. /\ u \in Seq(Byte) /\ Len(u) = Len(s) + Len(t)
      /\ \A i \in 1..Len(s) : u[i] = s[i]
      /\ \A i \in 1..Len(u) : i > Len(s) => u[i] = t[i - Len(s)]
  BY CatIs
<1> HIDE DEF u
<1>2. \A i \in 1..Len(u) : \/ i \in 1..Len(s) /\ u[i] = s[i]
                           \/ i - Len(s) \in 1..Len(t) /\ u[i] = t[i - Len(s)]
  BY <1>1
<1>3. QED
  BY <1>2, Zenon DEF AllSent, AllOf, u

\* The first bytes, and the others.
LEMMA SubIs ==
  ASSUME NEW s \in Seq(Byte), NEW n \in 0..Len(s)
  PROVE  /\ SubSeq(s, 1, n) \in Seq(Byte) /\ Len(SubSeq(s, 1, n)) = n
         /\ \A i \in 1..n : SubSeq(s, 1, n)[i] = s[i]
         /\ SubSeq(s, n + 1, Len(s)) \in Seq(Byte) /\ Len(SubSeq(s, n + 1, Len(s))) = Len(s) - n
         /\ \A i \in 1..(Len(s) - n) : SubSeq(s, n + 1, Len(s))[i] = s[i + n]
OBVIOUS

\* A part of bytes that were all sent, or all of one connection, is so too.
LEMMA SubSent ==
  ASSUME NEW p, NEW c, NEW s \in Seq(Byte), NEW n \in 0..Len(s)
  PROVE  /\ AllSent(s, p) => AllSent(SubSeq(s, 1, n), p) /\ AllSent(SubSeq(s, n + 1, Len(s)), p)
         /\ AllOf(s, p, c) => AllOf(SubSeq(s, 1, n), p, c) /\ AllOf(SubSeq(s, n + 1, Len(s)), p, c)
<1> DEFINE front == SubSeq(s, 1, n)
           back == SubSeq(s, n + 1, Len(s))
<1>1. /\ \A i \in 1..Len(front) : i \in 1..Len(s) /\ front[i] = s[i]
      /\ \A i \in 1..Len(back) : i + n \in 1..Len(s) /\ back[i] = s[i + n]
  <2>1. /\ Len(front) = n /\ \A i \in 1..n : front[i] = s[i]
        /\ Len(back) = Len(s) - n /\ \A i \in 1..(Len(s) - n) : back[i] = s[i + n]
    BY SubIs
  <2> HIDE DEF front, back
  <2>2. QED
    BY <2>1
<1> HIDE DEF front, back
<1>2. QED
  BY <1>1, ZenonT(40) DEF AllSent, AllOf, front, back

\* One more packet leaves the others as they are.
LEMMA SendKeeps ==
  ASSUME NEW p \in Seq(Packet_), NEW r \in Packet_
  PROVE  LET q == Append(p, r)
             n == Len(p) + 1
         IN  /\ q \in Seq(Packet_) /\ Len(q) = n /\ q[n] = r /\ n \in Nat /\ n \in 1..Len(q)
             /\ \A k \in 1..Len(p) : q[k] = p[k] /\ k \in 1..Len(q) /\ k # n
             /\ \A s \in Seq(Byte) : AllSent(s, p) => AllSent(s, q)
             /\ \A s \in Seq(Byte), c \in Nat : AllSent(s, p) /\ AllOf(s, p, c) => AllOf(s, q, c)
<1> DEFINE q == Append(p, r)
           n == Len(p) + 1
<1>1. /\ q \in Seq(Packet_) /\ Len(q) = n /\ q[n] = r /\ n \in Nat /\ n \in 1..Len(q)
      /\ \A k \in 1..Len(p) : q[k] = p[k] /\ k \in 1..Len(q) /\ k # n
  OBVIOUS
<1> HIDE DEF q, n
<1>2. \A b : Sent(b, p) => Sent(b, q) /\ q[b[1]] = p[b[1]]
  BY <1>1 DEF Sent, Size
<1>3. QED
  BY <1>1, <1>2, Zenon DEF AllSent, AllOf, q, n

\* The bytes of the new packet.
LEMMA NewSent ==
  ASSUME NEW p \in Seq(Packet_), NEW r \in Packet_
  PROVE  LET q == Append(p, r)
             b == Bytes(Len(p) + 1, HeaderSize + r.size)
         IN  b \in Seq(Byte) /\ AllSent(b, q) /\ AllOf(b, q, r.connection)
<1> DEFINE q == Append(p, r)
           n == Len(p) + 1
           size == HeaderSize + r.size
           b == Bytes(n, size)
<1>1. /\ Len(q) = n /\ q[n] = r /\ n \in Nat /\ n \in 1..Len(q) /\ size \in Nat
      /\ Size(q, n) = size
  BY ConstantFacts DEF Packet_, Size
<1> HIDE DEF q, n, size
<1>2. b \in Seq(Byte) /\ Len(b) = size /\ \A i \in 1..size : b[i][1] = n /\ b[i][2] = i
  BY <1>1, BytesIs
<1> HIDE DEF b
<1>3. AllSent(b, q)
  BY <1>1, <1>2 DEF AllSent, Sent
<1>4. AllOf(b, q, r.connection)
  BY <1>1, <1>2 DEF AllOf
<1>5. QED
  BY <1>2, <1>3, <1>4 DEF b, q, n, size

\* What is read at the front of the buffer.
LEMMA ReadIs ==
  ASSUME Base, Len(m_recv_buffer) >= HeaderSize
  PROVE  /\ SizeRead \in Nat /\ Head(m_recv_buffer) = m_recv_buffer[1]
         /\ m_recv_buffer[1] \in Byte /\ m_recv_buffer[1][1] \in 1..Len(sent)
<1>1. m_recv_buffer \in Seq(Byte) /\ AllSent(m_recv_buffer, sent) /\ sent \in Seq(Packet_)
  BY TypeOKIs DEF Base, Known
<1>2. /\ 1 \in 1..Len(m_recv_buffer) /\ HeaderSize \in 1..Len(m_recv_buffer)
      /\ m_recv_buffer[1] \in Byte /\ Head(m_recv_buffer) = m_recv_buffer[1]
  BY <1>1, ConstantFacts
<1>3. Sent(m_recv_buffer[1], sent) /\ Sent(LengthByte, sent)
  BY <1>1, <1>2 DEF AllSent, LengthByte
<1>4. sent[LengthByte[1]] \in Packet_
  BY <1>1, <1>3 DEF Sent
<1>5. SizeRead \in Nat
  BY <1>4, ConstantFacts DEF SizeRead, Packet_
<1>6. QED
  BY <1>2, <1>3, <1>5 DEF Sent

\* What a header that get_packet_info accepts says of the buffer and of its first packet.
LEMMA SuccessIs ==
  ASSUME Base, PacketInfo = "Success"
  PROVE  /\ Len(m_recv_buffer) >= HeaderSize /\ SizeRead \in Nat
         /\ HeaderSize + SizeRead \in 0..Len(m_recv_buffer)
         /\ MagicRead /\ ~HugeRead
         /\ FrontPacket \in 0..MaxPackets /\ FrontPacket <= Len(sent)
<1>1. m_recv_buffer \in Seq(Byte) /\ sent \in Seq(Packet_) /\ Len(sent) <= MaxPackets
  BY TypeOKIs DEF Base, Known
<1>2. ~(Len(m_recv_buffer) < HeaderSize) /\ MagicRead /\ ~HugeRead
      /\ ~(Len(m_recv_buffer) < HeaderSize + SizeRead)
  BY Zenon DEF PacketInfo
<1>3. Len(m_recv_buffer) >= HeaderSize
  BY <1>1, <1>2, ConstantFacts
<1>4. SizeRead \in Nat /\ Head(m_recv_buffer)[1] \in 1..Len(sent)
  BY <1>3, ReadIs
<1>5. FrontPacket \in {0, Head(m_recv_buffer)[1]}
  BY Zenon DEF FrontPacket
<1>6. FrontPacket \in 0..MaxPackets /\ FrontPacket <= Len(sent)
  BY <1>1, <1>4, <1>5, ConstantFacts
<1>7. QED
  BY <1>1, <1>2, <1>3, <1>4, <1>6, ConstantFacts

\* A packet is sent.
LEMMA SendBase ==
  ASSUME Base, NEW kind \in Kinds, Send(kind)
  PROVE  Base'
<1> DEFINE r == [bad |-> kind.bad, huge |-> kind.huge, size |-> kind.size,
                 connection |-> connection]
           b == Bytes(Len(sent) + 1, HeaderSize + r.size)
<1>1. /\ sent' = Append(sent, r) /\ wire' = wire \o b /\ Len(sent) < MaxPackets /\ connected
      /\ UNCHANGED <<receiver, connected, open, connection, m_recv_buffer, temp_buffer, pc,
                     history>>
  BY DEF Send
<1>2. r \in Packet_ /\ r.connection = connection /\ connection \in Nat
  BY PacketStreamAssumption, TypeOKIs DEF Packet_, Base
<1> HIDE DEF r
<1>3. /\ sent \in Seq(Packet_) /\ wire \in Seq(Byte) /\ temp_buffer \in Seq(Byte)
      /\ m_recv_buffer \in Seq(Byte)
  BY TypeOKIs DEF Base
<1>4. /\ sent' \in Seq(Packet_) /\ Len(sent') = Len(sent) + 1 /\ sent'[Len(sent) + 1] = r
      /\ \A k \in 1..Len(sent) : sent'[k] = sent[k]
      /\ \A s \in Seq(Byte) : AllSent(s, sent) => AllSent(s, sent')
      /\ \A s \in Seq(Byte), c \in Nat : AllSent(s, sent) /\ AllOf(s, sent, c) => AllOf(s, sent', c)
  BY <1>1, <1>2, <1>3, SendKeeps
<1>5. b \in Seq(Byte) /\ AllSent(b, sent') /\ AllOf(b, sent', connection)
  BY <1>1, <1>2, <1>3, NewSent
<1> HIDE DEF b
<1>6. wire' \in Seq(Byte)
  BY <1>1, <1>3, <1>5
<1>7. TypeOK'
  BY <1>1, <1>4, <1>6, TypeOKIs, Zenon DEF Base, TypeOK, Byte, Packet_, history
<1>8. AllSent(wire', sent') /\ AllOf(wire', sent', connection)
  <2>1. AllSent(wire, sent') /\ AllOf(wire, sent', connection)
    BY <1>2, <1>3, <1>4 DEF Base, Known
  <2>2. QED
    BY <1>1, <1>3, <1>5, <2>1, CatSent
<1>9. Known'
  <2>1. AllSent(m_recv_buffer, sent') /\ AllSent(temp_buffer, sent')
    BY <1>3, <1>4 DEF Base, Known
  <2>2. \A k \in 1..Len(sent') : sent'[k].connection \in 1..connection
    <3> SUFFICES ASSUME NEW k \in 1..Len(sent') PROVE sent'[k].connection \in 1..connection
      OBVIOUS
    <3>1. CASE k \in 1..Len(sent)
      BY <1>4, <3>1 DEF Base, Known
    <3>2. CASE k = Len(sent) + 1
      BY <1>2, <1>4, <3>2 DEF Base, Ends
    <3>3. QED
      BY <1>3, <1>4, <3>1, <3>2
  <2>3. Len(sent') <= MaxPackets
    BY <1>1, <1>3, <1>4, ConstantFacts
  <2>4. \A i \in 1..Len(delivered) : delivered[i] <= Len(sent')
    <3>1. delivered \in Seq(0..MaxPackets)
      BY TypeOKIs DEF Base
    <3>2. \A i \in 1..Len(delivered) : delivered[i] \in 0..MaxPackets
      BY <3>1, ConstantFacts
    <3>3. \A i \in 1..Len(delivered) : delivered[i] <= Len(sent)
      BY DEF Base, Known
    <3>4. QED
      BY <1>3, <1>4, <3>2, <3>3, ConstantFacts
  <2>5. QED
    BY <1>1, <1>8, <2>1, <2>2, <2>3, <2>4, Zenon DEF Known, history
<1>10. Holds' /\ Ends'
  BY <1>1, Zenon DEF Base, Holds, Ends, history
<1>11. QED
  BY <1>7, <1>9, <1>10 DEF Base

\* The loops of P2P see one connection, so no bytes of an earlier one.
LEMMA OneConnection ==
  ASSUME Base, receiver # "tcp"
  PROVE  ~StaleBytes
<1>1. \A k \in 1..Len(sent) : sent[k].connection = connection
  BY DEF Base, Known, Ends
<1>2. temp_buffer \in Seq(Byte)
  BY TypeOKIs DEF Base
<1>3. \A i \in 1..Len(temp_buffer) : temp_buffer[i][1] \in 1..Len(sent)
  BY DEF Base, Known, AllSent, Sent
<1>4. QED
  BY <1>1, <1>2, <1>3 DEF StaleBytes

\* A chunk is received, and put behind what is held.
LEMMA RecvBase ==
  ASSUME Base, Recv \/ AppendChunk
  PROVE  Base'
<1>1. /\ wire \in Seq(Byte) /\ temp_buffer \in Seq(Byte) /\ m_recv_buffer \in Seq(Byte)
      /\ receiver \in Receivers
  BY TypeOKIs DEF Base
<1>2. CASE Recv
  <2>1. PICK n \in 1..Len(wire) :
          /\ n <= ChunkSize[receiver]
          /\ temp_buffer' = SubSeq(wire, 1, n) /\ wire' = SubSeq(wire, n + 1, Len(wire))
          /\ pc' = "append" /\ connected
          /\ UNCHANGED <<receiver, connected, peer, m_recv_buffer, history>>
    BY <1>2, Zenon DEF Recv
  <2>2. n \in 0..Len(wire)
    BY <1>1
  <2>3. temp_buffer' \in Seq(Byte) /\ Len(temp_buffer') = n /\ wire' \in Seq(Byte)
    BY <1>1, <2>1, <2>2, SubIs
  <2>4. /\ AllSent(wire', sent) /\ AllOf(wire', sent, connection) /\ AllSent(temp_buffer', sent)
    BY <1>1, <2>1, <2>2, SubSent DEF Base, Known
  <2>5. TypeOK'
    BY <2>1, <2>3, TypeOKIs, Zenon DEF Base, TypeOK, Byte, peer, history
  <2>6. Known'
    BY <2>1, <2>4, Zenon DEF Base, Known, peer, history
  <2>7. Holds' /\ Ends'
    BY <2>1, <2>3, Zenon DEF Base, Holds, Ends, peer, history
  <2>8. QED
    BY <2>5, <2>6, <2>7 DEF Base
<1>3. CASE AppendChunk
  <2>1. /\ m_recv_buffer' = m_recv_buffer \o temp_buffer /\ temp_buffer' = << >> /\ pc' = "drain"
        /\ raced' = (raced \/ StaleBytes) /\ pc = "append" /\ Fits
        /\ UNCHANGED <<receiver, connected, peer, wire, delivered, dropped>>
    BY <1>3, Zenon DEF AppendChunk
  <2>2. m_recv_buffer' \in Seq(Byte) /\ Len(m_recv_buffer') = Len(m_recv_buffer) + Len(temp_buffer)
    BY <1>1, <2>1
  <2>3. Len(m_recv_buffer') <= BufferSize[receiver]
    BY <1>1, <2>1, <2>2, ConstantFacts DEF Fits
  <2>4. raced' \in BOOLEAN /\ (raced' => receiver = "tcp")
    <3>1. raced \in BOOLEAN /\ StaleBytes \in BOOLEAN
      BY TypeOKIs, Zenon DEF Base, StaleBytes
    <3>2. QED
      BY <2>1, <3>1, OneConnection DEF Base, Ends
  <2>5. AllSent(m_recv_buffer', sent) /\ AllSent(temp_buffer', sent)
    BY <1>1, <2>1, CatSent, EmptyIs DEF Base, Known
  <2>6. TypeOK'
    BY <1>1, <2>1, <2>2, <2>3, <2>4, TypeOKIs, EmptyIs, Zenon DEF Base, TypeOK, Byte, peer
  <2>7. Known'
    BY <2>1, <2>5, Zenon DEF Base, Known, peer
  <2>8. Holds' /\ Ends'
    BY <2>1, <2>4, Zenon DEF Base, Holds, Ends, peer
  <2>9. QED
    BY <2>6, <2>7, <2>8 DEF Base
<1>4. QED
  BY <1>2, <1>3

\* What is dropped, and what ends or begins a connection.
LEMMA DropBase ==
  ASSUME Base, PeerCloses \/ RecvNothing \/ Overflow \/ TakeNothing \/ Disconnect \/ Connect
  PROVE  Base'
<1>1. /\ wire' \in {wire, << >>} /\ m_recv_buffer' \in {m_recv_buffer, << >>}
      /\ temp_buffer' \in {temp_buffer, << >>}
      /\ UNCHANGED <<receiver, sent, delivered, raced>>
      /\ connected' \in BOOLEAN /\ open' \in BOOLEAN /\ dropped' \in BOOLEAN
      /\ pc' \in {pc, "recv", "drain", "ended"}
  BY TypeOKIs, Zenon DEF Base, PeerCloses, RecvNothing, Overflow, TcpOverflow, SessionOverflow,
     ClientOverflow, TakeNothing, Disconnect, Connect, peer, history
<1>2. \/ UNCHANGED connection
      \/ connection' = connection + 1 /\ wire' = << >> /\ receiver = "tcp"
  BY Zenon DEF PeerCloses, RecvNothing, Overflow, TcpOverflow, SessionOverflow,
     ClientOverflow, TakeNothing, Disconnect, Connect, peer
<1>3. /\ wire \in Seq(Byte) /\ temp_buffer \in Seq(Byte) /\ m_recv_buffer \in Seq(Byte)
      /\ receiver \in Receivers /\ connection \in Nat /\ Len(m_recv_buffer) <= BufferSize[receiver]
  BY TypeOKIs DEF Base
<1>4. connection' \in Nat /\ connection' >= connection
  BY <1>2, <1>3
<1>5. /\ wire' \in Seq(Byte) /\ temp_buffer' \in Seq(Byte) /\ m_recv_buffer' \in Seq(Byte)
      /\ Len(m_recv_buffer') <= BufferSize[receiver]
  <2>1. << >> \in Seq(Byte) /\ Len(<< >>) <= BufferSize[receiver]
    BY <1>3, EmptyIs, ConstantFacts
  <2>2. QED
    BY <1>1, <1>3, <2>1, Zenon
<1>6. TypeOK'
  BY <1>1, <1>4, <1>5, TypeOKIs, Zenon DEF Base, TypeOK, Byte
<1>7. Known'
  <2>1. AllSent(wire', sent) /\ AllSent(temp_buffer', sent) /\ AllSent(m_recv_buffer', sent)
    BY <1>1, EmptyIs, Zenon DEF Base, Known
  <2>2. AllOf(wire', sent, connection')
    BY <1>1, <1>2, EmptyIs, Zenon DEF Base, Known
  <2>3. \A k \in 1..Len(sent) : sent[k].connection \in 1..connection'
    BY <1>3, <1>4 DEF Base, Known
  <2>4. QED
    BY <1>1, <2>1, <2>2, <2>3, Zenon DEF Base, Known
<1>8. Holds'
  <2>1. CASE UNCHANGED <<pc, temp_buffer>>
    BY <1>1, <2>1, Zenon DEF Base, Holds
  <2>2. CASE pc' \notin {"append", "consume"} /\ temp_buffer' = << >>
    BY <2>2, Zenon DEF Holds
  <2>3. QED
    BY <2>1, <2>2, Zenon DEF Base, Holds, PeerCloses, RecvNothing, Overflow, TcpOverflow,
       SessionOverflow, ClientOverflow, TakeNothing, Disconnect, Connect
<1>9. Ends'
  <2>1. connection' >= 1
    BY <1>3, <1>4 DEF Base, Ends
  <2>2. /\ receiver # "tcp" => connection' = 1 /\ ~raced
        /\ pc' = "ended" => receiver # "tcp" /\ ~connected'
        /\ receiver # "tcp" => (~connected' => pc' = "ended")
        /\ receiver = "tcp" /\ ~connected' => wire' = << >>
    BY <1>1, <1>2, Zenon DEF Base, Ends, PeerCloses, RecvNothing, Overflow, TcpOverflow,
       SessionOverflow, ClientOverflow, TakeNothing, Disconnect, Connect, peer
  <2>3. QED
    BY <1>1, <2>1, <2>2, Zenon DEF Ends
<1>10. QED
  BY <1>6, <1>7, <1>8, <1>9 DEF Base

\* A packet is taken from the front, and what is behind it moved there.
LEMMA TakeBase ==
  ASSUME Base, TakePacket \/ Consume
  PROVE  Base'
<1>1. /\ temp_buffer \in Seq(Byte) /\ m_recv_buffer \in Seq(Byte) /\ receiver \in Receivers
      /\ delivered \in Seq(0..MaxPackets)
  BY TypeOKIs DEF Base
<1>2. CASE TakePacket
  <2>1. /\ delivered' = Append(delivered, FrontPacket) /\ temp_buffer' = BehindPacket
        /\ pc' = "consume" /\ PacketInfo = "Success" /\ connected
        /\ UNCHANGED <<receiver, connected, peer, wire, m_recv_buffer, dropped, raced>>
    BY <1>2, Zenon DEF TakePacket, Taken
  <2>2. PICK n \in 0..Len(m_recv_buffer) : n = HeaderSize + SizeRead
    BY <2>1, SuccessIs
  <2>3. temp_buffer' = SubSeq(m_recv_buffer, n + 1, Len(m_recv_buffer))
    BY <2>1, <2>2 DEF BehindPacket
  <2>4. temp_buffer' \in Seq(Byte) /\ Len(temp_buffer') = Len(m_recv_buffer) - n
    BY <1>1, <2>2, <2>3, SubIs
  <2>5. AllSent(temp_buffer', sent)
    BY <1>1, <2>2, <2>3, SubSent DEF Base, Known
  <2>6. Len(temp_buffer') <= BufferSize[receiver]
    <3>1. Len(m_recv_buffer) <= BufferSize[receiver]
      BY TypeOKIs DEF Base
    <3>2. QED
      BY <1>1, <2>2, <2>4, <3>1, ConstantFacts
  <2>7. FrontPacket \in 0..MaxPackets /\ FrontPacket <= Len(sent)
    BY <2>1, SuccessIs
  <2>8. /\ delivered' \in Seq(0..MaxPackets)
        /\ \A i \in 1..Len(delivered') : delivered'[i] <= Len(sent)
    <3>1. PICK k \in 0..MaxPackets : k = FrontPacket /\ k <= Len(sent)
      BY <2>7
    <3>2. delivered' = Append(delivered, k)
      BY <2>1, <3>1
    <3>3. /\ delivered' \in Seq(0..MaxPackets) /\ Len(delivered') = Len(delivered) + 1
          /\ delivered'[Len(delivered) + 1] = k
          /\ \A i \in 1..Len(delivered) : delivered'[i] = delivered[i]
      BY <1>1, <3>2
    <3>4. \A i \in 1..Len(delivered) : delivered[i] <= Len(sent)
      BY DEF Base, Known
    <3>5. \A i \in 1..Len(delivered') : i \in 1..Len(delivered) \/ i = Len(delivered) + 1
      BY <1>1, <3>3
    <3>6. QED
      BY <3>1, <3>3, <3>4, <3>5, Zenon
  <2>9. TypeOK'
    BY <2>1, <2>4, <2>8, TypeOKIs, Zenon DEF Base, TypeOK, Byte, peer
  <2>10. Known'
    BY <2>1, <2>5, <2>8, Zenon DEF Base, Known, peer
  <2>11. Holds' /\ Ends'
    BY <2>1, <2>6, Zenon DEF Base, Holds, Ends, peer
  <2>12. QED
    BY <2>9, <2>10, <2>11 DEF Base
<1>3. CASE Consume
  <2>1. /\ m_recv_buffer' = temp_buffer /\ temp_buffer' = << >> /\ pc' = "drain" /\ pc = "consume"
        /\ raced' = (raced \/ StaleBytes)
        /\ UNCHANGED <<receiver, connected, peer, wire, delivered, dropped>>
    BY <1>3, Zenon DEF Consume
  <2>2. raced' \in BOOLEAN /\ (raced' => receiver = "tcp")
    <3>1. raced \in BOOLEAN /\ StaleBytes \in BOOLEAN
      BY TypeOKIs, Zenon DEF Base, StaleBytes
    <3>2. QED
      BY <2>1, <3>1, OneConnection DEF Base, Ends
  <2>3. Len(m_recv_buffer') <= BufferSize[receiver]
    BY <2>1 DEF Base, Holds
  <2>4. TypeOK'
    BY <1>1, <2>1, <2>2, <2>3, TypeOKIs, EmptyIs, Zenon DEF Base, TypeOK, Byte, peer
  <2>5. Known'
    BY <2>1, EmptyIs, Zenon DEF Base, Known, peer
  <2>6. Holds' /\ Ends'
    BY <2>1, <2>2, Zenon DEF Base, Holds, Ends, peer
  <2>7. QED
    BY <2>4, <2>5, <2>6 DEF Base
<1>4. QED
  BY <1>2, <1>3

\* Every step.
LEMMA StepBase ==
  ASSUME Base, [Next]_vars
  PROVE  Base'
<1>1. CASE UNCHANGED vars
  BY <1>1, Zenon DEF vars, peer, history, Base, TypeOK, Known, Holds, Ends
<1>2. CASE \E kind \in Kinds : Send(kind)
  BY <1>2, SendBase
<1>3. CASE Recv \/ AppendChunk
  BY <1>3, RecvBase
<1>4. CASE PeerCloses \/ RecvNothing \/ Overflow \/ TakeNothing \/ Disconnect \/ Connect
  BY <1>4, DropBase
<1>5. CASE TakePacket \/ Consume
  BY <1>5, TakeBase
<1>6. QED
  BY <1>1, <1>2, <1>3, <1>4, <1>5 DEF Next

-----------------------------------------------------------------------------
(* The stream. *)

\* The chunk or the moved bytes are of this connection, or not.
LEMMA StaleIs ==
  ASSUME Base
  PROVE  StaleBytes <=> ~AllOf(temp_buffer, sent, connection)
<1>1. temp_buffer \in Seq(Byte)
  BY TypeOKIs DEF Base
<1>2. DOMAIN temp_buffer = 1..Len(temp_buffer)
  BY <1>1
<1>3. QED
  BY <1>2, Zenon DEF StaleBytes, AllOf

\* What is to come is a sequence of bytes, and begins with the buffer or is what is moved.
LEMMA StreamIs ==
  ASSUME Base
  PROVE  /\ Pending \in Seq(Byte) /\ Stream \in Seq(Byte)
         /\ Len(Stream) = Len(Pending) + Len(wire)
         /\ pc # "consume" =>
              /\ Len(m_recv_buffer) <= Len(Pending)
              /\ \A i \in 1..Len(m_recv_buffer) : /\ i \in 1..Len(Stream)
                                                 /\ Stream[i] = m_recv_buffer[i]
<1>1. wire \in Seq(Byte) /\ temp_buffer \in Seq(Byte) /\ m_recv_buffer \in Seq(Byte)
  BY TypeOKIs DEF Base
<1>2. PICK cat \in Seq(Byte) : /\ cat = m_recv_buffer \o temp_buffer
                               /\ Len(cat) = Len(m_recv_buffer) + Len(temp_buffer)
                               /\ \A i \in 1..Len(m_recv_buffer) : cat[i] = m_recv_buffer[i]
  BY <1>1, CatIs
<1>3. PICK s \in Seq(Byte) : s = Pending /\ s \in {cat, temp_buffer, m_recv_buffer}
                             /\ (pc # "consume" => s \in {cat, m_recv_buffer})
  BY <1>1, <1>2, Zenon DEF Pending
<1>4. ASSUME pc # "consume"
      PROVE  /\ Len(m_recv_buffer) <= Len(s)
             /\ \A i \in 1..Len(m_recv_buffer) : i \in 1..Len(s) /\ s[i] = m_recv_buffer[i]
  <2>1. CASE s = cat
    BY <1>1, <1>2, <2>1
  <2>2. CASE s = m_recv_buffer
    BY <1>1, <2>2
  <2>3. QED
    BY <1>3, <1>4, <2>1, <2>2
<1>5. PICK all \in Seq(Byte) : /\ all = s \o wire /\ Len(all) = Len(s) + Len(wire)
                               /\ \A i \in 1..Len(s) : all[i] = s[i]
  BY <1>1, CatIs
<1>6. Stream = all /\ Pending = s
  BY <1>3, <1>5 DEF Stream
<1>7. ASSUME pc # "consume", NEW i \in 1..Len(m_recv_buffer)
      PROVE  i \in 1..Len(all) /\ all[i] = m_recv_buffer[i]
  BY <1>1, <1>4, <1>5, <1>7
<1>8. QED
  BY <1>4, <1>5, <1>6, <1>7, Zenon

\* A packet that was sent is one.
LEMMA PacketIs ==
  ASSUME NEW p \in Seq(Packet_), NEW k \in 1..Len(p)
  PROVE  p[k].bad \in BOOLEAN /\ p[k].huge \in BOOLEAN /\ p[k].size \in Nat
         /\ p[k].connection \in Nat
<1>1. p[k] \in Packet_
  OBVIOUS
<1>2. PICK r \in Packet_ : r = p[k]
  BY <1>1
<1>3. r.bad \in BOOLEAN /\ r.huge \in BOOLEAN
  BY Zenon DEF Packet_
<1>4. r.size \in Nat /\ r.connection \in Nat
  BY DEF Packet_
<1>5. QED
  BY <1>2, <1>3, <1>4

\* What the header at the front of a piece is read as.
LEMMA FrontRead ==
  ASSUME Base, NEW s \in Seq(Byte), Run(s, sent), Complete(s, sent),
         Len(m_recv_buffer) >= HeaderSize, m_recv_buffer[1][2] = 1,
         \A i \in 1..Len(m_recv_buffer) : i \in 1..Len(s) /\ s[i] = m_recv_buffer[i]
  PROVE  LET k == m_recv_buffer[1][1]
         IN  /\ k \in 1..Len(sent) /\ s[1][1] = k /\ s[1][2] = 1 /\ Len(s) > 0
             /\ LengthByte[1] = k /\ LengthByte[2] = HeaderSize
             /\ SizeRead = sent[k].size /\ (HugeRead <=> sent[k].huge)
             /\ (MagicRead <=> ~sent[k].bad)
<1>1. /\ m_recv_buffer \in Seq(Byte) /\ sent \in Seq(Packet_)
      /\ 1 \in 1..Len(m_recv_buffer) /\ HeaderSize \in 1..Len(m_recv_buffer)
  BY TypeOKIs, ConstantFacts, SMTT(30) DEF Base
<1>2. /\ s[1] = m_recv_buffer[1] /\ s[HeaderSize] = m_recv_buffer[HeaderSize]
      /\ 1 \in 1..Len(s) /\ HeaderSize \in 1..Len(s)
  BY <1>1
<1>3. PICK k \in Nat : k = s[1][1]
  BY <1>2 DEF Byte
<1>4. Len(s) > 0 /\ s[1][2] = 1
  BY <1>2
<1>5. /\ k \in 1..Len(sent) /\ Size(sent, k) \in Nat /\ HeaderSize <= Size(sent, k)
      /\ \A i \in 1..Len(s) : i <= Size(sent, k) => s[i][1] = k /\ s[i][2] = i
  BY <1>1, <1>3, <1>4, RunFront
<1>6. LengthByte[1] = k /\ LengthByte[2] = HeaderSize
  BY <1>2, <1>5 DEF LengthByte
<1>7. Head(m_recv_buffer) = m_recv_buffer[1] /\ m_recv_buffer[1][1] = k
  BY <1>1, <1>2, <1>3
<1>8. SizeRead = sent[k].size /\ (HugeRead <=> sent[k].huge)
  <2>1. sent[k].huge \in BOOLEAN
    BY <1>1, <1>5, PacketIs
  <2>2. SizeRead = sent[k].size
    BY <1>6 DEF SizeRead
  <2>3. HugeRead <=> sent[k].huge
    BY <1>6, <2>1, Zenon DEF HugeRead
  <2>4. QED
    BY <2>2, <2>3
<1>9. MagicRead <=> ~sent[k].bad
  <2>1. sent[k].bad \in BOOLEAN
    BY <1>1, <1>5, PacketIs
  <2>2. QED
    BY <1>7, <2>1, Zenon DEF MagicRead
<1>10. QED
  BY <1>3, <1>4, <1>5, <1>6, <1>7, <1>8, <1>9

\* A packet at the front that the receiver refuses is not taken.
LEMMA BlockedRefuses ==
  ASSUME Base, Blocked
  PROVE  ~(PacketInfo = "Success" /\ Taken)
<1>1. PICK k \in 1..Len(sent) :
        /\ m_recv_buffer[1][1] = k /\ m_recv_buffer[HeaderSize][1] = k
        /\ m_recv_buffer[HeaderSize][2] = HeaderSize /\ ~Legit(k)
        /\ receiver = "tcp" /\ Len(m_recv_buffer) >= HeaderSize
  BY DEF Blocked
<1>2. sent \in Seq(Packet_) /\ Head(m_recv_buffer) = m_recv_buffer[1]
  BY <1>1, ReadIs, TypeOKIs DEF Base
<1>3. sent[k].bad \in BOOLEAN /\ sent[k].huge \in BOOLEAN /\ sent[k].size \in Nat
  BY <1>2, PacketIs
<1>4. LengthByte[1] = k /\ LengthByte[2] = HeaderSize
  BY <1>1 DEF LengthByte
<1>5. SizeRead = sent[k].size
  BY <1>4 DEF SizeRead
<1>6. SUFFICES ASSUME PacketInfo = "Success", Taken PROVE FALSE
  OBVIOUS
<1>7. MagicRead /\ ~HugeRead
  BY <1>6, SuccessIs
<1>8. ~sent[k].bad
  BY <1>1, <1>2, <1>3, <1>7, Zenon DEF MagicRead
<1>9. ~sent[k].huge
  BY <1>3, <1>4, <1>7, Zenon DEF HugeRead
<1>10. sent[k].size <= PayloadLimit
  BY <1>1, <1>5, <1>6 DEF Taken
<1>11. QED
  BY <1>1, <1>8, <1>9, <1>10 DEF Legit

\* A packet is taken: it is the next one of the stream, whole.
LEMMA TakeIs ==
  ASSUME Base, Own, Flows, TakePacket, ~raced
  PROVE  LET k == Stream[1][1]
             n == Size(sent, k)
         IN  /\ Live /\ Flowing /\ Len(Stream) > 0 /\ Stream[1][2] = 1
             /\ n \in 0..Len(Stream) /\ Stream' = SubSeq(Stream, n + 1, Len(Stream))
             /\ k \in 1..Len(sent) /\ sent[k].connection = connection
             /\ delivered' = Append(delivered, k)
             /\ UNCHANGED <<receiver, connected, connection, sent, dropped, raced>>
<1>1. /\ delivered' = Append(delivered, FrontPacket) /\ temp_buffer' = BehindPacket
      /\ pc = "drain" /\ pc' = "consume" /\ PacketInfo = "Success" /\ Taken /\ connected
      /\ UNCHANGED <<receiver, connected, open, connection, sent, wire, m_recv_buffer, dropped, raced>>
  BY Zenon DEF TakePacket, Taken, peer
<1>2. /\ wire \in Seq(Byte) /\ m_recv_buffer \in Seq(Byte) /\ sent \in Seq(Packet_)
  BY TypeOKIs DEF Base
<1>3. Live
  <2>1. temp_buffer = << >>
    BY <1>1 DEF Base, Holds
  <2>2. ~StaleBytes
    BY <2>1, StaleIs, EmptyIs
  <2>3. QED
    BY <1>1, <2>2 DEF Live
<1>4. Flowing
  BY <1>1, <1>3, BlockedRefuses DEF Flows
<1>5. PICK s \in Seq(Byte) :
        /\ s = Stream /\ s = m_recv_buffer \o wire
        /\ \A i \in 1..Len(m_recv_buffer) : i \in 1..Len(s) /\ s[i] = m_recv_buffer[i]
  <2>1. Stream = m_recv_buffer \o wire
    BY <1>1 DEF Stream, Pending
  <2>2. QED
    BY <1>1, <2>1, StreamIs
<1>6. Run(s, sent) /\ Complete(s, sent)
  BY <1>4, <1>5 DEF Flowing
<1>7. /\ Len(m_recv_buffer) >= HeaderSize /\ SizeRead \in Nat
      /\ HeaderSize + SizeRead \in 0..Len(m_recv_buffer) /\ MagicRead
  BY <1>1, SuccessIs
<1>8. Head(m_recv_buffer) = m_recv_buffer[1] /\ m_recv_buffer[1] \in Byte
  BY <1>7, ReadIs
<1>9. m_recv_buffer[1][2] = 1
  BY <1>7, <1>8 DEF MagicRead
<1>10. PICK k \in 1..Len(sent) :
         /\ k = m_recv_buffer[1][1] /\ s[1][1] = k /\ s[1][2] = 1 /\ Len(s) > 0
         /\ SizeRead = sent[k].size
  BY <1>5, <1>6, <1>7, <1>9, FrontRead
<1>11. PICK n \in 0..Len(m_recv_buffer) : n = Size(sent, k) /\ n = HeaderSize + SizeRead
  BY <1>7, <1>10 DEF Size
<1>12. \A i \in 1..n : s[i][1] = k /\ s[i][2] = i /\ i \in 1..Len(s) /\ i \in 1..Len(m_recv_buffer)
  <2>1. \A i \in 1..Len(s) : i <= n => s[i][1] = k /\ s[i][2] = i
    <3>1. \A i \in 1..Len(s) : i <= Size(sent, k) => s[i][1] = k /\ s[i][2] = i
      BY <1>2, <1>6, <1>10, RunFront
    <3>2. QED
      BY <1>11, <3>1
  <2>2. \A i \in 1..n : i \in 1..Len(m_recv_buffer) /\ i <= n
    BY <1>2, <1>11
  <2>3. QED
    BY <1>5, <2>1, <2>2
<1>13. FrontPacket = k
  <2> DEFINE front == SubSeq(m_recv_buffer, 1, n)
             b == Bytes(k, n)
  <2>1. front \in Seq(Byte) /\ Len(front) = n /\ \A i \in 1..n : front[i] = m_recv_buffer[i]
    BY <1>2, <1>11, SubIs
  <2>2. b \in Seq(Byte) /\ Len(b) = n /\ \A i \in 1..n : b[i][1] = k /\ b[i][2] = i
    BY <1>2, <1>11, BytesIs
  <2> HIDE DEF front, b
  <2>3. ASSUME NEW i \in 1..n PROVE front[i] = b[i]
    <3>1. front[i] = s[i] /\ s[i] \in Byte /\ b[i] \in Byte
      BY <1>5, <1>12, <2>1, <2>2
    <3>2. s[i] = <<s[i][1], s[i][2]>> /\ b[i] = <<b[i][1], b[i][2]>>
      BY <3>1, SMTT(30) DEF Byte
    <3>3. QED
      BY <1>12, <2>2, <3>1, <3>2
  <2>4. front = b
    BY <2>1, <2>2, <2>3, SameSeq
  <2>5. QED
    BY <1>8, <1>10, <1>11, <2>4 DEF FrontPacket, front, b
<1>14. Stream' = SubSeq(s, n + 1, Len(s))
  <2>1. temp_buffer' = SubSeq(m_recv_buffer, n + 1, Len(m_recv_buffer))
    BY <1>1, <1>11 DEF BehindPacket
  <2>2. Stream' = temp_buffer' \o wire
    BY <1>1, Zenon DEF Stream, Pending
  <2>3. QED
    BY <1>2, <1>5, <2>1, <2>2, SuffixCat
<1>15. n \in 0..Len(s)
  <2>1. Len(s) = Len(m_recv_buffer) + Len(wire)
    BY <1>2, <1>5, CatIs
  <2>2. QED
    BY <1>2, <1>11, <2>1
<1>16. sent[k].connection = connection
  <2>1. 1 \in 1..Len(m_recv_buffer)
    BY <1>2, <1>7, ConstantFacts
  <2>2. AllOf(m_recv_buffer, sent, connection)
    BY <1>1, <1>3 DEF Own
  <2>3. QED
    BY <1>10, <2>1, <2>2 DEF AllOf
<1>17. QED
  BY <1>1, <1>3, <1>4, <1>5, <1>10, <1>11, <1>13, <1>14, <1>15, <1>16

\* So the stream flows on behind it.
LEMMA TakeFlows ==
  ASSUME Base, Own, Flows, TakePacket
  PROVE  Flows'
<1> SUFFICES ASSUME Live' PROVE Flowing'
  BY DEF Flows
<1>1. ~raced
  BY Zenon DEF Live, TakePacket
<1>2. PICK s \in Seq(Byte) : s = Stream
  BY StreamIs
<1>3. PICK k \in 1..Len(sent) : k = s[1][1]
  BY <1>1, <1>2, TakeIs
<1>4. PICK n \in 0..Len(s) : n = Size(sent, k)
  BY <1>1, <1>2, <1>3, TakeIs
<1>5. /\ Flowing /\ Len(s) > 0 /\ s[1][2] = 1
      /\ Stream' = SubSeq(s, n + 1, Len(s))
      /\ delivered' = Append(delivered, k)
      /\ UNCHANGED <<receiver, connected, connection, sent, dropped, raced>>
  BY <1>1, <1>2, <1>3, <1>4, TakeIs
<1>6. /\ Run(s, sent) /\ Complete(s, sent) /\ Ahead(s, delivered)
      /\ ~dropped => Passed(s, sent, delivered, connection)
  BY <1>2, <1>5 DEF Flowing
<1>7. sent \in Seq(Packet_) /\ delivered \in Seq(0..MaxPackets)
  BY TypeOKIs DEF Base
<1>8. /\ \A i \in 1..Len(s) : i > n => s[i][1] > k
      /\ Len(s) > n => s[n + 1][1] = k + 1 /\ s[n + 1][2] = 1
      /\ Len(s) <= n => k = Len(sent)
  <2>1. /\ \A i \in 1..Len(s) : i > Size(sent, k) => s[i][1] > k
        /\ Len(s) > Size(sent, k) => s[Size(sent, k) + 1][1] = k + 1 /\ s[Size(sent, k) + 1][2] = 1
        /\ Len(s) <= Size(sent, k) => k = Len(sent)
    BY <1>3, <1>5, <1>6, <1>7, RunFront
  <2>2. QED
    BY <1>4, <2>1
<1>9. PICK t \in Seq(Byte) : /\ t = Stream' /\ Len(t) = Len(s) - n
                             /\ \A i \in 1..(Len(s) - n) : t[i] = s[i + n]
  BY <1>4, <1>5, SubIs
<1>10. Run(t, sent) /\ Complete(t, sent)
  BY <1>4, <1>5, <1>6, <1>7, <1>9, RunSuffix
<1>11. PICK d \in Seq(0..MaxPackets) :
         /\ d = delivered' /\ Len(d) = Len(delivered) + 1 /\ d[Len(delivered) + 1] = k
         /\ \A j \in 1..Len(delivered) : d[j] = delivered[j]
  <2>1. k \in 0..MaxPackets
    BY <1>3, <1>7, ConstantFacts DEF Base, Known
  <2>2. /\ delivered' \in Seq(0..MaxPackets) /\ Len(delivered') = Len(delivered) + 1
        /\ delivered'[Len(delivered) + 1] = k
        /\ \A j \in 1..Len(delivered) : delivered'[j] = delivered[j]
    BY <1>5, <1>7, <2>1
  <2>3. QED
    BY <2>2, Zenon
<1>12. \A j \in 1..Len(d) : j \in 1..Len(delivered) \/ j = Len(delivered) + 1
  BY <1>7, <1>11
<1>13. Ahead(t, d)
  <2> SUFFICES ASSUME NEW i \in 1..Len(t), NEW j \in 1..Len(d) PROVE d[j] < t[i][1]
    BY DEF Ahead
  <2>1. i + n \in 1..Len(s) /\ i + n > n /\ t[i] = s[i + n]
    BY <1>4, <1>9
  <2>2. s[i + n][1] > k
    BY <1>8, <2>1
  <2>3. CASE j \in 1..Len(delivered)
    BY <1>6, <1>11, <2>1, <2>3 DEF Ahead
  <2>4. CASE j = Len(delivered) + 1
    <3>1. PICK b \in Byte : b = s[i + n]
      BY <2>1
    <3>2. b[1] \in Nat
      BY DEF Byte
    <3>3. QED
      BY <1>11, <2>1, <2>2, <2>4, <3>1, <3>2
  <2>5. QED
    BY <1>12, <2>3, <2>4
<1>14. Begins(t)
  <2> SUFFICES ASSUME Len(t) > 0 PROVE t[1][2] = 1
    BY DEF Begins
  <2>1. Len(s) > n /\ 1 \in 1..(Len(s) - n)
    BY <1>4, <1>9
  <2>2. t[1] = s[1 + n] /\ 1 + n = n + 1
    BY <1>4, <1>9, <2>1
  <2>3. QED
    BY <1>8, <2>1, <2>2
<1>15. ASSUME ~dropped PROVE Passed(t, sent, d, connection)
  <2> SUFFICES ASSUME NEW l \in 1..Len(sent), sent[l].connection = connection,
                      Len(t) > 0 => l < t[1][1]
               PROVE  \E j \in 1..Len(d) : d[j] = l
    BY DEF Passed
  <2>1. l <= k
    <3>1. CASE Len(t) > 0
      <4>1. Len(s) > n /\ 1 \in 1..(Len(s) - n)
        BY <1>4, <1>9, <3>1
      <4>2. t[1] = s[1 + n] /\ 1 + n = n + 1
        BY <1>4, <1>9, <4>1
      <4>3. QED
        BY <1>8, <3>1, <4>1, <4>2
    <3>2. CASE ~(Len(t) > 0)
      BY <1>4, <1>8, <1>9, <3>2
    <3>3. QED
      BY <3>1, <3>2
  <2>2. CASE l = k
    BY <1>7, <1>11, <2>2, SMTT(30)
  <2>3. CASE l < k
    <3>1. PICK j \in 1..Len(delivered) : delivered[j] = l
      BY <1>3, <1>6, <1>15, <2>3 DEF Passed
    <3>2. j \in 1..Len(d)
      BY <1>7, <1>11
    <3>3. QED
      BY <1>11, <3>1, <3>2
  <2>4. QED
    BY <2>1, <2>2, <2>3
<1>16. QED
  BY <1>5, <1>9, <1>10, <1>11, <1>13, <1>14, <1>15, Zenon DEF Flowing

\* Steps that move bytes along, or end the connection, leave the stream as it is.
LEMMA StreamKept ==
  ASSUME Flows, Live' => Live /\ Stream' = Stream /\ (Blocked => Blocked'),
         UNCHANGED <<receiver, connection, sent, delivered, dropped>>
  PROVE  Flows'
BY Zenon DEF Flows, Flowing

\* A packet that is refused stays refused.
LEMMA LegitKept ==
  ASSUME UNCHANGED receiver, NEW k, sent'[k] = sent[k]
  PROVE  Legit(k)' <=> Legit(k)
BY Zenon DEF Legit

\* A packet that is never taken stays at its front while bytes are only appended.
LEMMA BlockedKept ==
  ASSUME Base, Blocked, UNCHANGED <<receiver, sent, dropped>>, pc' # "consume",
         m_recv_buffer' \in Seq(Byte), Len(m_recv_buffer') >= Len(m_recv_buffer),
         \A i \in 1..Len(m_recv_buffer) : m_recv_buffer'[i] = m_recv_buffer[i]
  PROVE  Blocked'
<1>1. PICK k \in 1..Len(sent) :
        /\ m_recv_buffer[1][1] = k /\ m_recv_buffer[HeaderSize][1] = k
        /\ m_recv_buffer[HeaderSize][2] = HeaderSize /\ ~Legit(k)
        /\ receiver = "tcp" /\ dropped /\ Len(m_recv_buffer) >= HeaderSize
  BY DEF Blocked
<1>2. /\ m_recv_buffer'[1] = m_recv_buffer[1]
      /\ m_recv_buffer'[HeaderSize] = m_recv_buffer[HeaderSize]
      /\ Len(m_recv_buffer') >= HeaderSize
  <2>1. m_recv_buffer \in Seq(Byte)
    BY TypeOKIs DEF Base
  <2>2. 1 \in 1..Len(m_recv_buffer) /\ HeaderSize \in 1..Len(m_recv_buffer)
    BY <1>1, <2>1, ConstantFacts
  <2>3. QED
    BY <1>1, <2>1, <2>2, ConstantFacts
<1>3. ~Legit(k)'
  BY <1>1, LegitKept
<1>4. QED
  BY <1>1, <1>2, <1>3, Zenon DEF Blocked

\* Bytes that move from the wire through the chunk to the buffer keep their order.
LEMMA MoveFlows ==
  ASSUME Base, Own, Flows,
         PeerCloses \/ Recv \/ AppendChunk \/ TakeNothing \/ RecvNothing \/ Disconnect
           \/ UNCHANGED vars
  PROVE  Flows'
<1>1. wire \in Seq(Byte) /\ temp_buffer \in Seq(Byte) /\ m_recv_buffer \in Seq(Byte)
  BY TypeOKIs DEF Base
<1>2. UNCHANGED <<receiver, connection, sent, delivered, dropped>>
  BY Zenon DEF PeerCloses, Recv, AppendChunk, TakeNothing, RecvNothing, Disconnect, vars, peer,
     history
<1>3. CASE RecvNothing \/ Disconnect
  <2>1. ~Live'
    BY <1>3, Zenon DEF RecvNothing, Disconnect, Live
  <2>2. QED
    BY <2>1 DEF Flows
<1>4. CASE PeerCloses \/ TakeNothing \/ UNCHANGED vars
  <2>1. UNCHANGED <<m_recv_buffer, temp_buffer, wire, raced>> /\ (connected' => connected)
    BY <1>4 DEF PeerCloses, TakeNothing, vars, peer, history
  <2>2. UNCHANGED pc \/ (pc = "drain" /\ pc' \in {"recv", "ended"})
    BY <1>4, Zenon DEF PeerCloses, TakeNothing, vars, peer, history
  <2>3. Stream' = Stream
    BY <2>1, <2>2, Zenon DEF Stream, Pending
  <2>4. StaleBytes' <=> StaleBytes
    BY <1>2, <2>1, Zenon DEF StaleBytes
  <2>5. Blocked => Blocked'
    <3>1. Blocked => pc' # "consume"
      BY <2>2, Zenon DEF Blocked
    <3>2. QED
      BY <1>1, <1>2, <2>1, <3>1, BlockedKept
  <2>6. Live' => Live
    BY <2>1, <2>4, Zenon DEF Live
  <2>7. QED
    BY <1>2, <2>3, <2>5, <2>6, StreamKept
<1>5. CASE Recv
  <2>1. PICK n \in 1..Len(wire) :
          /\ temp_buffer' = SubSeq(wire, 1, n) /\ wire' = SubSeq(wire, n + 1, Len(wire))
          /\ pc = "recv" /\ pc' = "append" /\ UNCHANGED <<m_recv_buffer, connected, raced>>
    BY <1>5, Zenon DEF Recv, history
  <2>2. Stream' = (m_recv_buffer \o temp_buffer') \o wire' /\ Stream = m_recv_buffer \o wire
    BY <2>1, Zenon DEF Stream, Pending
  <2>3. Stream' = Stream
    BY <1>1, <2>1, <2>2, MoveKeeps
  <2>4. ~StaleBytes
    BY <2>1, StaleIs, EmptyIs DEF Base, Holds
  <2>5. Live' => Live
    BY <2>1, <2>4, Zenon DEF Live
  <2>6. Blocked => Blocked'
    BY <1>1, <1>2, <2>1, BlockedKept
  <2>7. QED
    BY <1>2, <2>3, <2>5, <2>6, StreamKept
<1>6. CASE AppendChunk
  <2>1. /\ m_recv_buffer' = m_recv_buffer \o temp_buffer /\ pc = "append" /\ pc' = "drain"
        /\ raced' = (raced \/ StaleBytes) /\ UNCHANGED <<wire, connected>>
    BY <1>6, Zenon DEF AppendChunk
  <2>2. Stream' = Stream
    BY <2>1, Zenon DEF Stream, Pending
  <2>3. Live' => Live
    <3>1. raced \in BOOLEAN /\ StaleBytes \in BOOLEAN
      BY TypeOKIs, Zenon DEF Base, StaleBytes
    <3>2. QED
      BY <2>1, <3>1, Zenon DEF Live
  <2>4. /\ m_recv_buffer' \in Seq(Byte) /\ Len(m_recv_buffer') >= Len(m_recv_buffer)
        /\ \A i \in 1..Len(m_recv_buffer) : m_recv_buffer'[i] = m_recv_buffer[i]
    BY <1>1, <2>1
  <2>5. Blocked => Blocked'
    BY <1>2, <2>1, <2>4, BlockedKept
  <2>6. QED
    BY <1>2, <2>2, <2>3, <2>5, StreamKept
<1>7. QED
  BY <1>3, <1>4, <1>5, <1>6

\* A packet is sent: those before it are the same.
LEMMA SendIs ==
  ASSUME Base, NEW kind \in Kinds, Send(kind)
  PROVE  /\ \A k \in 1..Len(sent) : sent'[k] = sent[k] /\ k \in 1..Len(sent')
         /\ UNCHANGED <<receiver, connected, connection, m_recv_buffer, temp_buffer, pc, delivered,
                        dropped, raced>>
         /\ StaleBytes' <=> StaleBytes
         /\ Live' => Live
<1> DEFINE r == [bad |-> kind.bad, huge |-> kind.huge, size |-> kind.size,
                 connection |-> connection]
<1>1. /\ sent' = Append(sent, r)
      /\ UNCHANGED <<receiver, connected, connection, m_recv_buffer, temp_buffer, pc, delivered,
                     dropped, raced>>
  BY DEF Send, history
<1>2. r \in Packet_
  BY PacketStreamAssumption, TypeOKIs DEF Packet_, Base
<1> HIDE DEF r
<1>3. sent \in Seq(Packet_) /\ temp_buffer \in Seq(Byte)
  BY TypeOKIs DEF Base
<1>4. \A k \in 1..Len(sent) : sent'[k] = sent[k] /\ k \in 1..Len(sent')
  BY <1>1, <1>2, <1>3, SendKeeps
<1>6. AllOf(temp_buffer, sent, connection) <=> AllOf(temp_buffer, sent', connection)
  <2>1. \A i \in 1..Len(temp_buffer) : sent'[temp_buffer[i][1]] = sent[temp_buffer[i][1]]
    BY <1>4 DEF Base, Known, AllSent, Sent
  <2>2. QED
    BY <2>1, Zenon DEF AllOf
<1>7. StaleBytes' <=> StaleBytes
  <2>1. Base'
    BY SendBase
  <2>2. StaleBytes' <=> ~AllOf(temp_buffer, sent', connection)
    <3>1. (StaleBytes <=> ~AllOf(temp_buffer, sent, connection))'
      BY <2>1, StaleIs, PTL
    <3>2. QED
      BY <1>1, <3>1, Zenon
  <2>3. QED
    BY <1>6, <2>2, StaleIs
<1>8. Live' => Live
  BY <1>1, <1>7, Zenon DEF Live
<1>9. QED
  BY <1>1, <1>4, <1>7, <1>8

\* A packet is sent behind the others.
LEMMA SendFlows ==
  ASSUME Base, Flows, NEW kind \in Kinds, Send(kind)
  PROVE  Flows'
<1> DEFINE r == [bad |-> kind.bad, huge |-> kind.huge, size |-> kind.size,
                 connection |-> connection]
           b == Bytes(Len(sent) + 1, HeaderSize + r.size)
<1>1. /\ sent' = Append(sent, r) /\ wire' = wire \o b
      /\ UNCHANGED <<receiver, connected, connection, m_recv_buffer, temp_buffer, pc, delivered,
                     dropped, raced>>
  BY DEF Send, history
<1>2. r \in Packet_ /\ r.connection = connection /\ connection \in Nat
  BY PacketStreamAssumption, TypeOKIs DEF Packet_, Base
<1> HIDE DEF r
<1>3. /\ sent \in Seq(Packet_) /\ wire \in Seq(Byte) /\ temp_buffer \in Seq(Byte)
      /\ delivered \in Seq(0..MaxPackets)
  BY TypeOKIs DEF Base
<1>4. /\ sent' \in Seq(Packet_) /\ Len(sent') = Len(sent) + 1
      /\ \A k \in 1..Len(sent) : sent'[k] = sent[k] /\ k \in 1..Len(sent')
  BY <1>1, <1>2, <1>3, SendKeeps
<1>5. b \in Seq(Byte)
  BY <1>2, <1>3, NewSent
<1>8. Live' => Live
  BY SendIs
<1>9. SUFFICES ASSUME Live PROVE Blocked' \/ Flowing'
  BY <1>8, Zenon DEF Flows
<1>10. CASE Blocked
  <2>1. PICK k \in 1..Len(sent) :
          /\ m_recv_buffer[1][1] = k /\ m_recv_buffer[HeaderSize][1] = k
          /\ m_recv_buffer[HeaderSize][2] = HeaderSize /\ ~Legit(k)
    BY <1>10 DEF Blocked
  <2>2. ~Legit(k)' /\ k \in 1..Len(sent')
    BY <1>1, <1>4, <2>1, LegitKept
  <2>3. QED
    BY <1>1, <1>10, <2>1, <2>2, Zenon DEF Blocked
<1>11. CASE Flowing
  <2>1. PICK s \in Seq(Byte) : s = Stream /\ s = Pending \o wire
    BY StreamIs DEF Stream
  <2>2. Pending \in Seq(Byte)
    BY StreamIs
  <2>3. Stream' = Pending \o (wire \o b)
    BY <1>1, Zenon DEF Stream, Pending
  <2>4. Stream' = s \o b
    <3> HIDE DEF b
    <3>1. Pending \o (wire \o b) = (Pending \o wire) \o b
      BY <1>3, <1>5, <2>2, CatCat
    <3>2. QED
      BY <2>1, <2>3, <3>1, Zenon
  <2>5. Run(s, sent) /\ Complete(s, sent) /\ Ahead(s, delivered)
    BY <1>11, <2>1 DEF Flowing
  <2>6. s \o b \in Seq(Byte) /\ Run(s \o b, sent') /\ Complete(s \o b, sent')
    BY <1>1, <1>2, <1>3, <2>5, RunAppend
  <2>7. PICK n \in Nat : n = Len(sent) + 1 /\ \A i \in 1..Len(b) : b[i][1] = n /\ b[i][2] = i
    <3>1. PICK size \in Nat, m \in Nat : size = HeaderSize + r.size /\ m = Len(sent) + 1
      <4>1. HeaderSize + r.size \in Nat /\ Len(sent) + 1 \in Nat
        BY <1>2, <1>3, ConstantFacts DEF Packet_
      <4>2. QED
        BY <4>1, Zenon
    <3>2. /\ Len(Bytes(m, size)) = size
          /\ \A i \in 1..size : Bytes(m, size)[i][1] = m /\ Bytes(m, size)[i][2] = i
      BY BytesIs
    <3>3. b = Bytes(m, size)
      BY <3>1, Zenon
    <3> HIDE DEF b
    <3>4. \A i \in 1..Len(b) : b[i][1] = m /\ b[i][2] = i
      BY <3>2, <3>3
    <3>5. QED
      BY <3>1, <3>4, Zenon
  <2>8. Len(b) > 0
    <3>1. HeaderSize + r.size \in Nat /\ HeaderSize + r.size > 0 /\ Len(sent) + 1 \in Nat
      BY <1>2, <1>3, ConstantFacts DEF Packet_
    <3>2. QED
      BY <3>1, BytesIs
  <2> HIDE DEF b
  <2>9. PICK t \in Seq(Byte) :
          /\ t = s \o b /\ Len(t) = Len(s) + Len(b) /\ \A i \in 1..Len(s) : t[i] = s[i]
          /\ \A i \in 1..Len(t) : i > Len(s) => t[i] = b[i - Len(s)]
    BY <1>5, CatIs
  <2>10. \A i \in 1..Len(t) : \/ i \in 1..Len(s) /\ t[i] = s[i]
                              \/ i > Len(s) /\ t[i][1] = n /\ t[i][2] = i - Len(s)
    BY <1>5, <2>7, <2>9
  <2>11. Ahead(t, delivered)
    <3> SUFFICES ASSUME NEW i \in 1..Len(t), NEW j \in 1..Len(delivered)
                 PROVE  delivered[j] < t[i][1]
      BY DEF Ahead
    <3>1. delivered[j] \in 0..MaxPackets
      BY <1>3, ConstantFacts, SMTT(30)
    <3>2. delivered[j] <= Len(sent)
      BY DEF Base, Known
    <3>3. CASE i \in 1..Len(s) /\ t[i] = s[i]
      BY <2>5, <3>3 DEF Ahead
    <3>4. CASE t[i][1] = n
      BY <1>3, <2>7, <3>1, <3>2, <3>4, ConstantFacts, SMTT(30)
    <3>5. QED
      BY <2>10, <3>3, <3>4
  <2>12. 1 \in 1..Len(t) /\ Len(t) > 0
    BY <1>5, <2>8, <2>9
  <2>13. ASSUME Begins(s) PROVE Begins(t)
    BY <2>10, <2>12, <2>13 DEF Begins
  <2>14. ASSUME Passed(s, sent, delivered, connection)
         PROVE  Passed(t, sent', delivered, connection)
    <3> SUFFICES ASSUME NEW k \in 1..Len(sent'), sent'[k].connection = connection, k < t[1][1]
                 PROVE  \E j \in 1..Len(delivered) : delivered[j] = k
      BY <2>12 DEF Passed
    <3>1. CASE Len(s) > 0
      <4>1. t[1] = s[1] /\ s[1][1] \in 1..Len(sent)
        <5>1. 1 \in 1..Len(s)
          BY <3>1
        <5>2. Sent(s[1], sent)
          BY <2>5, <5>1 DEF Run
        <5>3. QED
          BY <2>9, <5>1, <5>2 DEF Sent
      <4>2. k \in 1..Len(sent) /\ sent[k].connection = connection
        BY <1>3, <1>4, <4>1
      <4>3. QED
        BY <2>14, <4>1, <4>2 DEF Passed
    <3>2. CASE ~(Len(s) > 0)
      <4>1. t[1][1] = n
        BY <2>10, <2>12, <3>2
      <4>2. k \in 1..Len(sent)
        BY <1>3, <1>4, <2>7, <4>1
      <4>3. sent[k].connection = connection
        BY <1>4, <4>2
      <4>4. QED
        BY <2>14, <3>2, <4>2, <4>3 DEF Passed
    <3>3. QED
      BY <3>1, <3>2
  <2>15. QED
    BY <1>1, <1>11, <2>1, <2>4, <2>6, <2>9, <2>11, <2>13, <2>14, Zenon DEF Flowing
<1>12. QED
  BY <1>9, <1>10, <1>11 DEF Flows

\* consume() moves what was behind the packet to the front.
LEMMA ConsumeFlows ==
  ASSUME Base, Flows, Consume
  PROVE  Flows'
<1>1. /\ m_recv_buffer' = temp_buffer /\ pc = "consume" /\ pc' = "drain"
      /\ raced' = (raced \/ StaleBytes)
      /\ UNCHANGED <<receiver, connected, connection, sent, wire, delivered, dropped>>
  BY Zenon DEF Consume, peer
<1>2. Stream' = Stream
  BY <1>1, Zenon DEF Stream, Pending
<1>3. Live' => Live
  <2>1. raced \in BOOLEAN /\ StaleBytes \in BOOLEAN
    BY TypeOKIs, Zenon DEF Base, StaleBytes
  <2>2. QED
    BY <1>1, <2>1, Zenon DEF Live
<1>4. ~Blocked
  BY <1>1 DEF Blocked
<1>5. QED
  BY <1>1, <1>2, <1>3, <1>4, StreamKept

\* A new connection begins with nothing under way, or a chunk of an earlier one is held.
LEMMA ConnectFlows ==
  ASSUME Base, Connect
  PROVE  Flows' /\ (Live' => temp_buffer' = << >>)
<1>1. /\ connection' = connection + 1 /\ wire' = << >> /\ m_recv_buffer' = << >>
      /\ UNCHANGED <<sent, temp_buffer, pc, delivered, dropped, raced, receiver>>
  BY DEF Connect, history
<1>2. connection \in Nat /\ temp_buffer \in Seq(Byte) /\ sent \in Seq(Packet_)
  BY TypeOKIs DEF Base
<1>3. SUFFICES ASSUME Live' PROVE Flowing' /\ temp_buffer' = << >>
  BY DEF Flows
<1>4. AllOf(temp_buffer, sent, connection + 1)
  <2>1. Base'
    BY DropBase
  <2>2. (StaleBytes <=> ~AllOf(temp_buffer, sent, connection))'
    BY <2>1, StaleIs, PTL
  <2>3. ~StaleBytes'
    BY <1>3, Zenon DEF Live
  <2>4. AllOf(temp_buffer', sent', connection')
    BY <2>2, <2>3, Zenon
  <2>5. QED
    BY <1>1, <2>4, Zenon
<1>5. \A k \in 1..Len(sent) : sent[k].connection \in 1..connection
  BY DEF Base, Known
<1>6. temp_buffer = << >>
  <2>1. ASSUME 1 \in 1..Len(temp_buffer) PROVE FALSE
    <3>1. sent[temp_buffer[1][1]].connection = connection + 1
      BY <1>4, <2>1 DEF AllOf
    <3>2. temp_buffer[1][1] \in 1..Len(sent)
      BY <2>1 DEF Base, Known, AllSent, Sent
    <3>3. QED
      BY <1>2, <1>5, <3>1, <3>2
  <2>2. Len(temp_buffer) = 0
    BY <1>2, <2>1
  <2>3. QED
    BY <1>2, <2>2
<1>7. Stream' = << >>
  <2>1. Pending' = << >>
    <3>1. << >> \o << >> = << >>
      OBVIOUS
    <3>2. QED
      BY <1>1, <1>6, <3>1, Zenon DEF Pending
  <2>2. QED
    BY <1>1, <2>1 DEF Stream
<1>8. PICK s : s = << >> /\ Len(s) = 0 /\ s = Stream'
  BY <1>7
<1>9. Run(s, sent) /\ Complete(s, sent) /\ Ahead(s, delivered) /\ Begins(s)
  BY <1>8 DEF Run, Complete, Ahead, Begins
<1>10. Passed(s, sent, delivered, connection + 1)
  <2>1. \A k \in 1..Len(sent) : sent[k].connection # connection + 1
    BY <1>2, <1>5
  <2>2. QED
    BY <2>1 DEF Passed
<1>11. QED
  BY <1>1, <1>6, <1>8, <1>9, <1>10, Zenon DEF Flowing

\* TcpClient throws a chunk away: what it holds begins with a packet that it refuses.
LEMMA TcpOverflowBlocks ==
  ASSUME Base, Flows, Drained, Overflow, receiver = "tcp", ~raced
  PROVE  Live /\ Blocked'
<1>1. /\ pc = "append" /\ ~Fits /\ pc' = "drain" /\ dropped' = TRUE
      /\ UNCHANGED <<receiver, sent, m_recv_buffer>>
  BY Zenon DEF Overflow, TcpOverflow, SessionOverflow, ClientOverflow, peer
<1>2. /\ m_recv_buffer \in Seq(Byte) /\ temp_buffer \in Seq(Byte) /\ sent \in Seq(Packet_)
      /\ dropped \in BOOLEAN
  BY TypeOKIs DEF Base
<1>3. Len(m_recv_buffer) > HeaderSize + PayloadLimit
  <2>1. Len(temp_buffer) <= ChunkSize["tcp"]
    BY <1>1 DEF Base, Holds
  <2>2. PICK c \in Nat, b \in Nat : c = ChunkSize["tcp"] /\ b = BufferSize["tcp"]
                                    /\ HeaderSize + PayloadLimit + c <= b
    <3>1. ChunkSize["tcp"] \in Nat /\ BufferSize["tcp"] \in Nat
      BY ConstantFacts
    <3>2. QED
      BY <3>1, ConstantFacts, Zenon
  <2>3. ~(Len(temp_buffer) <= b - Len(m_recv_buffer))
    BY <1>1, <2>2 DEF Fits
  <2>4. QED
    BY <1>2, <2>1, <2>2, <2>3, ConstantFacts
<1>4. Live
  <2>1. m_recv_buffer # << >>
    BY <1>2, <1>3, ConstantFacts
  <2>2. QED
    BY <1>1, <2>1 DEF Drained, Live
<1>5. CASE Blocked
  <2>1. dropped' = dropped
    BY <1>1, <1>5 DEF Blocked
  <2>2. pc' # "consume"
    BY <1>1
  <2>3. QED
    BY <1>1, <1>2, <1>4, <1>5, <2>1, <2>2, BlockedKept
<1>6. CASE Flowing
  <2>1. PICK s \in Seq(Byte) :
          /\ s = Stream
          /\ \A i \in 1..Len(m_recv_buffer) : i \in 1..Len(s) /\ s[i] = m_recv_buffer[i]
    <3>1. pc # "consume"
      BY <1>1
    <3>2. QED
      BY <3>1, StreamIs
  <2>2. Run(s, sent) /\ Complete(s, sent) /\ Begins(s)
    BY <1>6, <2>1 DEF Flowing
  <2>3. Len(m_recv_buffer) >= HeaderSize /\ 1 \in 1..Len(m_recv_buffer)
        /\ HeaderSize \in 1..Len(m_recv_buffer)
    BY <1>2, <1>3, ConstantFacts
  <2>4. m_recv_buffer[1][2] = 1
    <3>1. 1 \in 1..Len(s) /\ s[1] = m_recv_buffer[1]
      BY <2>1, <2>3
    <3>2. QED
      BY <2>2, <3>1 DEF Begins
  <2>5. PICK k \in 1..Len(sent) :
          /\ k = m_recv_buffer[1][1] /\ LengthByte[1] = k /\ LengthByte[2] = HeaderSize
          /\ SizeRead = sent[k].size /\ (HugeRead <=> sent[k].huge)
          /\ (MagicRead <=> ~sent[k].bad)
    BY <2>1, <2>2, <2>3, <2>4, FrontRead
  <2>6. ASSUME Legit(k) PROVE FALSE
    <3>1. ~sent[k].bad /\ ~sent[k].huge /\ sent[k].size <= PayloadLimit
      BY <2>6, Zenon DEF Legit
    <3>2. sent[k].size \in Nat
      BY <1>2, PacketIs
    <3>3. ~(Len(m_recv_buffer) < HeaderSize) /\ ~(Len(m_recv_buffer) < HeaderSize + SizeRead)
      BY <1>2, <1>3, <2>3, <2>5, <3>1, <3>2, ConstantFacts, SMTT(30)
    <3>4. MagicRead /\ ~HugeRead
      BY <2>5, <3>1, Zenon
    <3>5. PacketInfo = "Success"
      BY <3>3, <3>4, Zenon DEF PacketInfo
    <3>6. QED
      BY <1>1, <1>4, <3>5 DEF Drained
  <2>7. ~Legit(k)'
    BY <1>1, <2>6, LegitKept
  <2>8. m_recv_buffer[HeaderSize][1] = k /\ m_recv_buffer[HeaderSize][2] = HeaderSize
    BY <2>5 DEF LengthByte
  <2>9. QED
    BY <1>1, <1>4, <2>3, <2>5, <2>7, <2>8, Zenon DEF Blocked
<1>7. QED
  BY <1>4, <1>5, <1>6 DEF Flows

\* Bytes are thrown away: the connection ends, or the stream goes on behind them.
LEMMA OverflowFlows ==
  ASSUME Base, Own, Flows, Drained, Overflow
  PROVE  Flows'
<1> SUFFICES ASSUME Live' PROVE Blocked' \/ Flowing'
  BY DEF Flows
<1>1. UNCHANGED <<receiver, connection, sent, wire, delivered, raced>> /\ dropped' = TRUE
  BY Zenon DEF Overflow, peer
<1>2. ~raced
  BY <1>1 DEF Live
<1>3. CASE receiver = "tcp"
  BY <1>2, <1>3, TcpOverflowBlocks
<1>4. CASE receiver # "tcp"
  <2>1. /\ pc = "append" /\ pc' = "recv" /\ m_recv_buffer' = << >> /\ temp_buffer' = << >>
        /\ connected' = connected
    BY <1>4, Zenon DEF Overflow, TcpOverflow, SessionOverflow, ClientOverflow, Live
  <2>2. Live
    BY <1>2, <1>4, <2>1, OneConnection, Zenon DEF Live
  <2>3. Flowing
    BY <1>4, <2>2 DEF Flows, Blocked
  <2>4. wire \in Seq(Byte) /\ sent \in Seq(Packet_)
    BY TypeOKIs DEF Base
  <2>5. PICK h \in Seq(Byte), s \in Seq(Byte), n \in Nat :
          h = Pending /\ s = Stream /\ s = h \o wire /\ n = Len(h)
    <3>1. Pending \in Seq(Byte) /\ Stream \in Seq(Byte) /\ Len(Pending) \in Nat
      BY StreamIs
    <3>2. Stream = Pending \o wire
      BY DEF Stream
    <3>3. QED
      BY <3>1, <3>2, Zenon
  <2>6. Stream' = wire
    <3>1. Stream' = << >> \o wire
      BY <1>1, <2>1, Zenon DEF Stream, Pending
    <3>2. QED
      BY <2>4, <3>1
  <2>7. /\ n \in 0..Len(s) /\ Len(s) = n + Len(wire)
        /\ \A i \in 1..Len(wire) : i + n \in 1..Len(s) /\ s[i + n] = wire[i]
    BY <2>4, <2>5
  <2>8. wire = SubSeq(s, n + 1, Len(s))
    <3>1. PICK t \in Seq(Byte) : /\ t = SubSeq(s, n + 1, Len(s)) /\ Len(t) = Len(s) - n
                                 /\ \A i \in 1..(Len(s) - n) : t[i] = s[i + n]
      BY <2>7, SubIs
    <3>2. Len(wire) = Len(s) - n
      BY <2>4, <2>5, <2>7
    <3>3. QED
      BY <2>4, <2>7, <3>1, <3>2, SameSeq
  <2>9. Run(wire, sent) /\ Complete(wire, sent)
    BY <2>3, <2>4, <2>5, <2>7, <2>8, RunSuffix DEF Flowing
  <2>10. Ahead(wire, delivered)
    BY <2>3, <2>5, <2>7 DEF Flowing, Ahead
  <2>11. QED
    BY <1>1, <1>4, <2>6, <2>9, <2>10, Zenon DEF Flowing
<1>5. QED
  BY <1>3, <1>4

\* Every step keeps what is in flight in order.
LEMMA StepFlows ==
  ASSUME Base, Own, Flows, Drained, [Next]_vars
  PROVE  Flows'
BY MoveFlows, SendFlows, ConsumeFlows, ConnectFlows, OverflowFlows, TakeFlows DEF Next

\* A connection that stands, with no reset racing, is a new one or stood before.
LEMMA LiveBack ==
  ASSUME Base, Flows, Drained, [Next]_vars, Live'
  PROVE  Live \/ Connect
<1>1. CASE \E kind \in Kinds : Send(kind)
  BY <1>1, SendIs
<1>2. CASE PeerCloses \/ UNCHANGED vars
  <2>1. UNCHANGED <<temp_buffer, sent, connection, connected, raced>>
    BY <1>2, Zenon DEF PeerCloses, vars, history, peer
  <2>2. QED
    BY <2>1, Zenon DEF Live, StaleBytes
<1>3. CASE Recv \/ RecvNothing \/ TakeNothing \/ TakePacket
  <2>1. pc \notin {"append", "consume"}
    BY <1>3 DEF Recv, RecvNothing, TakeNothing, TakePacket
  <2>2. ~StaleBytes
    BY <2>1, StaleIs, EmptyIs DEF Base, Holds
  <2>3. UNCHANGED raced /\ (connected' => connected)
    <3>1. UNCHANGED raced
      BY <1>3, Zenon DEF Recv, RecvNothing, TakeNothing, TakePacket, history
    <3>2. connected' = FALSE \/ UNCHANGED connected
      BY <1>3 DEF Recv, RecvNothing, TakeNothing, TakePacket
    <3>3. QED
      BY <3>1, <3>2
  <2>4. QED
    BY <2>2, <2>3, Zenon DEF Live
<1>4. CASE AppendChunk \/ Consume
  <2>1. raced' = (raced \/ StaleBytes) /\ UNCHANGED connected
    BY <1>4, Zenon DEF AppendChunk, Consume
  <2>2. raced \in BOOLEAN /\ StaleBytes \in BOOLEAN
    BY TypeOKIs, Zenon DEF Base, StaleBytes
  <2>3. QED
    BY <2>1, <2>2, Zenon DEF Live
<1>5. CASE Overflow
  <2>1. UNCHANGED raced /\ (connected' => connected)
    <3>1. connected' = FALSE \/ UNCHANGED connected
      BY <1>5 DEF Overflow, TcpOverflow, SessionOverflow, ClientOverflow
    <3>2. QED
      BY <1>5, <3>1 DEF Overflow
  <2>2. connected /\ ~raced
    BY <2>1, Zenon DEF Live
  <2>3. CASE receiver = "tcp"
    BY <1>5, <2>2, <2>3, TcpOverflowBlocks
  <2>4. CASE receiver # "tcp"
    BY <2>2, <2>4, OneConnection, Zenon DEF Live
  <2>5. QED
    BY <2>3, <2>4
<1>6. CASE Disconnect
  BY <1>6, Zenon DEF Disconnect, Live
<1>7. QED
  BY <1>1, <1>2, <1>3, <1>4, <1>5, <1>6, Zenon DEF Next

\* The buffer of this connection holds bytes of this connection.
LEMMA StepOwn ==
  ASSUME Base, Own, Flows, Drained, [Next]_vars
  PROVE  Own'
<1> SUFFICES ASSUME Live', pc' # "consume"
             PROVE  AllOf(m_recv_buffer', sent', connection')
  BY DEF Own
<1>1. /\ temp_buffer \in Seq(Byte) /\ m_recv_buffer \in Seq(Byte) /\ connection \in Nat
      /\ AllSent(m_recv_buffer, sent)
  BY TypeOKIs DEF Base, Known
<1>2. CASE Connect
  <2>1. m_recv_buffer' = << >>
    BY <1>2 DEF Connect
  <2>2. QED
    BY <2>1, EmptyIs
<1>3. CASE ~Connect
  <2>1. Live
    BY <1>3, LiveBack
  <2>2. AllOf(temp_buffer, sent, connection)
    BY <2>1, StaleIs DEF Live
  <2>3. pc # "consume" => AllOf(m_recv_buffer, sent, connection)
    BY <2>1 DEF Own
  <2>4. CASE \E kind \in Kinds : Send(kind)
    <3>1. /\ \A k \in 1..Len(sent) : sent'[k] = sent[k]
          /\ UNCHANGED <<connection, m_recv_buffer, pc>>
      BY <2>4, SendIs
    <3>2. \A i \in 1..Len(m_recv_buffer) : sent'[m_recv_buffer[i][1]] = sent[m_recv_buffer[i][1]]
      BY <1>1, <3>1 DEF AllSent, Sent
    <3>3. AllOf(m_recv_buffer, sent', connection)
      BY <2>3, <3>1, <3>2, Zenon DEF AllOf
    <3>4. QED
      BY <3>1, <3>3, Zenon
  <2>5. CASE AppendChunk
    <3>1. /\ m_recv_buffer' = m_recv_buffer \o temp_buffer /\ pc = "append"
          /\ UNCHANGED <<sent, connection>>
      BY <2>5, Zenon DEF AppendChunk, peer
    <3>2. AllOf(m_recv_buffer \o temp_buffer, sent, connection)
      BY <1>1, <2>2, <2>3, <3>1, CatSent
    <3>3. QED
      BY <3>1, <3>2, Zenon
  <2>6. CASE Consume
    <3>1. m_recv_buffer' = temp_buffer /\ UNCHANGED <<sent, connection>>
      BY <2>6, Zenon DEF Consume, peer
    <3>2. QED
      BY <2>2, <3>1, Zenon
  <2>7. CASE Overflow
    <3>1. /\ pc = "append" /\ UNCHANGED <<sent, connection>>
          /\ m_recv_buffer' = m_recv_buffer \/ m_recv_buffer' = << >>
      BY <2>7, Zenon DEF Overflow, TcpOverflow, SessionOverflow, ClientOverflow, peer
    <3>2. pc # "consume"
      BY <3>1
    <3>3. QED
      BY <2>3, <3>1, <3>2, EmptyIs, Zenon
  <2>8. CASE PeerCloses \/ Recv \/ TakeNothing \/ UNCHANGED vars
    <3>1. UNCHANGED <<sent, connection, m_recv_buffer>> /\ (pc' = pc \/ pc \in {"recv", "drain"})
      BY <2>8, Zenon DEF PeerCloses, Recv, TakeNothing, vars, peer
    <3>2. pc # "consume"
      BY <3>1
    <3>3. QED
      BY <2>3, <3>1, <3>2, Zenon
  <2>9. CASE RecvNothing \/ Disconnect
    BY <2>9, Zenon DEF RecvNothing, Disconnect, Live
  <2>10. CASE TakePacket
    BY <2>10 DEF TakePacket
  <2>11. QED
    BY <1>3, <2>4, <2>5, <2>6, <2>7, <2>8, <2>9, <2>10, Zenon DEF Next
<1>4. QED
  BY <1>2, <1>3

\* What the buffer is read as does not change while it does not.
LEMMA InfoKept ==
  ASSUME Base, UNCHANGED m_recv_buffer, \A k \in 1..Len(sent) : sent'[k] = sent[k]
  PROVE  PacketInfo' = PacketInfo
<1>1. CASE Len(m_recv_buffer) < HeaderSize
  BY <1>1, Zenon DEF PacketInfo
<1>2. CASE ~(Len(m_recv_buffer) < HeaderSize)
  <2>1. m_recv_buffer \in Seq(Byte) /\ AllSent(m_recv_buffer, sent)
    BY TypeOKIs DEF Base, Known
  <2>2. 1 \in 1..Len(m_recv_buffer) /\ HeaderSize \in 1..Len(m_recv_buffer)
        /\ Head(m_recv_buffer) = m_recv_buffer[1]
    BY <1>2, <2>1, ConstantFacts
  <2>3. sent'[Head(m_recv_buffer)[1]] = sent[Head(m_recv_buffer)[1]]
        /\ sent'[LengthByte[1]] = sent[LengthByte[1]]
    BY <2>1, <2>2 DEF AllSent, Sent, LengthByte
  <2>4. LengthByte' = LengthByte
    BY DEF LengthByte
  <2>5. MagicRead' <=> MagicRead
    BY <2>3, Zenon DEF MagicRead
  <2>6. (HugeRead' <=> HugeRead) /\ SizeRead' = SizeRead
    BY <2>3, <2>4, Zenon DEF HugeRead, SizeRead
  <2>7. QED
    BY <2>5, <2>6, Zenon DEF PacketInfo
<1>3. QED
  BY <1>1, <1>2

\* The receiver looks at all it holds before it waits; a reset leaves it nothing.
LEMMA StepDrained ==
  ASSUME Base, Own, Flows, Drained, [Next]_vars
  PROVE  Drained'
<1>1. Base'
  BY StepBase
<1>2. ASSUME receiver' = "tcp", Live', pc' \in {"recv", "append"}
      PROVE  PacketInfo' # "Success"
  <2>1. CASE Connect
    <3>1. Len(m_recv_buffer') < HeaderSize
      BY <2>1, ConstantFacts DEF Connect
    <3>2. QED
      BY <3>1 DEF PacketInfo
  <2>2. CASE ~Connect
    <3>1. Live
      BY <1>2, <2>2, LiveBack
    <3>2. CASE \E kind \in Kinds : Send(kind)
      <4>1. PacketInfo' = PacketInfo /\ receiver' = receiver /\ pc' = pc
        BY <3>2, SendIs, InfoKept
      <4>2. QED
        BY <1>2, <3>1, <4>1 DEF Drained
    <3>3. CASE PeerCloses \/ Recv \/ TakeNothing \/ UNCHANGED vars
      <4>1. /\ UNCHANGED <<receiver, sent, m_recv_buffer>>
            /\ pc' = pc \/ pc = "recv" \/ PacketInfo # "Success"
        BY <3>3, Zenon DEF PeerCloses, Recv, TakeNothing, vars, peer
      <4>2. PacketInfo' = PacketInfo
        BY <4>1, InfoKept
      <4>3. QED
        BY <1>2, <3>1, <4>1, <4>2 DEF Drained
    <3>4. CASE RecvNothing \/ Disconnect
      BY <1>2, <3>4, Zenon DEF RecvNothing, Disconnect, Live
    <3>5. CASE AppendChunk \/ TakePacket \/ Consume \/ Overflow
      <4>1. pc' \in {"drain", "consume"}
        <5>1. receiver = "tcp"
          BY <1>2, <3>5, Zenon DEF AppendChunk, TakePacket, Consume, Overflow
        <5>2. QED
          BY <3>5, <5>1 DEF AppendChunk, TakePacket, Consume, Overflow, TcpOverflow,
             SessionOverflow, ClientOverflow
      <4>2. QED
        BY <1>2, <4>1
    <3>6. QED
      BY <2>2, <3>2, <3>3, <3>4, <3>5, Zenon DEF Next
  <2>3. QED
    BY <2>1, <2>2
<1>3. ASSUME receiver' = "tcp", ~raced', pc' = "append", ~connected' \/ StaleBytes'
      PROVE  m_recv_buffer' = << >>
  <2>1. CASE \E kind \in Kinds : Send(kind)
    <3>1. /\ UNCHANGED <<receiver, connected, m_recv_buffer, pc, raced>>
          /\ StaleBytes' <=> StaleBytes
      BY <2>1, SendIs
    <3>2. QED
      BY <1>3, <3>1 DEF Drained
  <2>2. CASE PeerCloses \/ UNCHANGED vars
    <3>1. UNCHANGED <<receiver, connected, m_recv_buffer, pc, raced, temp_buffer, sent, connection>>
      BY <2>2, Zenon DEF PeerCloses, vars, peer, history
    <3>2. StaleBytes' <=> StaleBytes
      BY <3>1, Zenon DEF StaleBytes
    <3>3. QED
      BY <1>3, <3>1, <3>2 DEF Drained
  <2>3. CASE Recv
    <3>1. PICK n \in 1..Len(wire) :
            /\ temp_buffer' = SubSeq(wire, 1, n) /\ connected'
            /\ UNCHANGED <<sent, connection>>
      BY <2>3, Zenon DEF Recv, peer
    <3>2. wire \in Seq(Byte) /\ AllOf(wire, sent, connection)
      BY TypeOKIs DEF Base, Known
    <3>3. n \in 0..Len(wire)
      BY <3>1, <3>2
    <3>4. AllOf(SubSeq(wire, 1, n), sent, connection)
      BY <3>2, <3>3, SubSent
    <3>5. (StaleBytes <=> ~AllOf(temp_buffer, sent, connection))'
      BY <1>1, StaleIs, PTL
    <3>6. ~StaleBytes'
      BY <3>1, <3>4, <3>5, Zenon
    <3>7. QED
      BY <1>3, <3>1, <3>6
  <2>4. CASE Disconnect \/ Connect
    BY <2>4 DEF Disconnect, Connect
  <2>5. CASE AppendChunk \/ Overflow \/ TakePacket \/ Consume \/ TakeNothing \/ RecvNothing
    <3>1. pc' \in {"drain", "consume", "recv", "ended"}
      BY <2>5 DEF AppendChunk, TakePacket, Consume, Overflow, TcpOverflow,
             SessionOverflow, ClientOverflow, TakeNothing, RecvNothing
    <3>2. QED
      BY <1>3, <3>1
  <2>6. QED
    BY <2>1, <2>2, <2>3, <2>4, <2>5, Zenon DEF Next
<1>4. QED
  BY <1>2, <1>3 DEF Drained

-----------------------------------------------------------------------------
(* What is handed over. *)

\* Only TakePacket hands over, only an overflow drops, and what raced stays so.
LEMMA HistoryStep ==
  ASSUME Base, [Next]_vars
  PROVE  /\ ~raced' => ~raced
         /\ UNCHANGED receiver
         /\ \A k \in 1..Len(sent) : sent'[k] = sent[k] /\ k \in 1..Len(sent')
         /\ TakePacket \/ UNCHANGED delivered
         /\ Overflow \/ UNCHANGED dropped
<1>0. raced \in BOOLEAN /\ StaleBytes \in BOOLEAN
  BY TypeOKIs, Zenon DEF Base, StaleBytes
<1>1. CASE \E kind \in Kinds : Send(kind)
  BY <1>1, SendIs
<1>2. CASE ~\E kind \in Kinds : Send(kind)
  <2>1. UNCHANGED <<receiver, sent>>
    BY <1>2, Zenon DEF Next, PeerCloses, Recv, RecvNothing, AppendChunk, Overflow, TakeNothing,
       TakePacket, Consume, Disconnect, Connect, vars, peer
  <2>2. TakePacket \/ UNCHANGED delivered
    BY <1>2, Zenon DEF Next, PeerCloses, Recv, RecvNothing, AppendChunk, Overflow, TakeNothing,
       Consume, Disconnect, Connect, vars, history
  <2>3. Overflow \/ UNCHANGED dropped
    BY <1>2, Zenon DEF Next, PeerCloses, Recv, RecvNothing, AppendChunk, TakeNothing,
       TakePacket, Consume, Disconnect, Connect, vars, history
  <2>4. raced' = (raced \/ StaleBytes) \/ UNCHANGED raced
    BY <1>2, Zenon DEF Next, PeerCloses, Recv, RecvNothing, AppendChunk, Overflow, TakeNothing,
       TakePacket, Consume, Disconnect, Connect, vars, history
  <2>5. ~raced' => ~raced
    BY <1>0, <2>4, Zenon
  <2>6. QED
    BY <2>1, <2>2, <2>3, <2>5, Zenon
<1>3. QED
  BY <1>1, <1>2

\* The packet that is taken is behind all that were, and they are all that are before it.
LEMMA TakenIs ==
  ASSUME Inv, TakePacket, ~raced
  PROVE  \E k \in 1..Len(sent) :
           /\ delivered' = Append(delivered, k) /\ sent[k].connection = connection
           /\ \A j \in 1..Len(delivered) : delivered[j] < k
           /\ ~dropped => \A l \in 1..(k - 1) : sent[l].connection = connection =>
                            \E j \in 1..Len(delivered) : delivered[j] = l
<1>1. PICK s \in Seq(Byte) : s = Stream
  BY StreamIs DEF Inv
<1>2. PICK k \in 1..Len(sent) : k = s[1][1]
  BY <1>1, TakeIs DEF Inv
<1>3. /\ Flowing /\ Len(s) > 0 /\ sent[k].connection = connection
      /\ delivered' = Append(delivered, k)
  BY <1>1, <1>2, TakeIs DEF Inv
<1>4. 1 \in 1..Len(s)
  BY <1>3
<1>5. \A j \in 1..Len(delivered) : delivered[j] < k
  BY <1>1, <1>2, <1>3, <1>4 DEF Flowing, Ahead
<1>6. ASSUME ~dropped, NEW l \in 1..(k - 1), sent[l].connection = connection
      PROVE  \E j \in 1..Len(delivered) : delivered[j] = l
  <2>1. Passed(s, sent, delivered, connection)
    BY <1>1, <1>3, <1>6 DEF Flowing
  <2>2. l \in 1..Len(sent) /\ l < k
    BY <1>2
  <2>3. QED
    BY <1>2, <1>6, <2>1, <2>2 DEF Passed
<1>7. QED
  BY <1>3, <1>5, <1>6

\* What is delivered is a whole packet that was sent, in the order of sending.
LEMMA StepIntact ==
  ASSUME Inv, [Next]_vars
  PROVE  IntactInOrder'
<1> USE DEF Inv
<1>1. SUFFICES ASSUME ~raced'
               PROVE  \A i \in 1..Len(delivered') :
                        /\ delivered'[i] # 0
                        /\ \A j \in 1..(i - 1) : delivered'[j] < delivered'[i]
  <2>1. delivered' \in Seq(0..MaxPackets)
    BY StepBase DEF Base, TypeOK
  <2>2. DOMAIN delivered' = 1..Len(delivered')
    BY <2>1
  <2>3. QED
    BY <2>2, Zenon DEF IntactInOrder
<1>2. ~raced
  BY <1>1, HistoryStep
<1>3. delivered \in Seq(0..MaxPackets)
  BY TypeOKIs DEF Base
<1>4. \A i \in 1..Len(delivered) :
        /\ delivered[i] # 0
        /\ \A j \in 1..(i - 1) : delivered[j] < delivered[i]
  BY <1>2, <1>3 DEF IntactInOrder
<1>5. CASE UNCHANGED delivered
  BY <1>4, <1>5
<1>6. CASE TakePacket
  <2>1. PICK k \in 1..Len(sent) : /\ delivered' = Append(delivered, k)
                                  /\ \A j \in 1..Len(delivered) : delivered[j] < k
    BY <1>2, <1>6, TakenIs
  <2>2. PICK n \in Nat : n = Len(delivered)
    BY <1>3
  <2>3. PICK d : /\ d = delivered' /\ Len(d) = n + 1 /\ d[n + 1] = k
                 /\ \A j \in 1..n : d[j] = delivered[j]
    <3>1. /\ Len(delivered') = n + 1 /\ delivered'[n + 1] = k
          /\ \A j \in 1..n : delivered'[j] = delivered[j]
      BY <1>3, <2>1, <2>2
    <3>2. QED
      BY <3>1, Zenon
  <2>4. SUFFICES ASSUME NEW i \in 1..(n + 1)
                 PROVE  d[i] # 0 /\ \A j \in 1..(i - 1) : d[j] < d[i]
    BY <2>3
  <2>5. CASE i = n + 1
    BY <2>1, <2>2, <2>3, <2>5
  <2>6. CASE i \in 1..n
    BY <1>4, <2>2, <2>3, <2>6
  <2>7. QED
    BY <2>5, <2>6
<1>7. QED
  BY <1>5, <1>6, HistoryStep

\* No packet of a connection is skipped while nothing is dropped.
LEMMA StepNoGap ==
  ASSUME Inv, [Next]_vars
  PROVE  NoGap'
<1> USE DEF Inv
<1>1. SUFFICES ASSUME ~raced', ~dropped'
               PROVE  \A i \in 1..Len(delivered') : \A k \in 1..delivered'[i] :
                        sent'[k].connection = sent'[delivered'[i]].connection =>
                          \E j \in 1..i : delivered'[j] = k
  <2>1. delivered' \in Seq(0..MaxPackets)
    BY StepBase DEF Base, TypeOK
  <2>2. DOMAIN delivered' = 1..Len(delivered')
    BY <2>1
  <2>3. QED
    BY <2>2, Zenon DEF NoGap
<1>2. ~raced /\ ~dropped
  <2>1. ~raced /\ (Overflow \/ UNCHANGED dropped)
    BY <1>1, HistoryStep
  <2>2. ~Overflow
    BY <1>1 DEF Overflow
  <2>3. QED
    BY <1>1, <2>1, <2>2
<1>3. delivered \in Seq(0..MaxPackets) /\ sent \in Seq(Packet_)
  BY TypeOKIs DEF Base
<1>4. \A i \in 1..Len(delivered) : \A k \in 1..delivered[i] :
        sent[k].connection = sent[delivered[i]].connection =>
          \E j \in 1..i : delivered[j] = k
  BY <1>2, <1>3 DEF NoGap
<1>5. \A k \in 1..Len(sent) : sent'[k] = sent[k]
  BY HistoryStep
<1>6. \A i \in 1..Len(delivered) : /\ delivered[i] \in Nat
                                   /\ \A k \in 1..delivered[i] : /\ k \in 1..Len(sent)
                                                                 /\ delivered[i] \in 1..Len(sent)
  <2>1. \A i \in 1..Len(delivered) : delivered[i] \in 0..MaxPackets
    BY <1>3, ConstantFacts
  <2>2. \A i \in 1..Len(delivered) : delivered[i] <= Len(sent)
    BY DEF Base, Known
  <2>3. QED
    BY <1>3, <2>1, <2>2, ConstantFacts
<1>7. CASE UNCHANGED delivered
  BY <1>4, <1>5, <1>6, <1>7
<1>8. CASE TakePacket
  <2>1. PICK k \in 1..Len(sent) :
          /\ delivered' = Append(delivered, k) /\ sent[k].connection = connection
          /\ \A l \in 1..(k - 1) : sent[l].connection = connection =>
                            \E j \in 1..Len(delivered) : delivered[j] = l
    BY <1>2, <1>8, TakenIs
  <2>2. PICK n \in Nat : n = Len(delivered)
    BY <1>3
  <2>3. PICK d : /\ d = delivered' /\ Len(d) = n + 1 /\ d[n + 1] = k
                 /\ \A j \in 1..n : d[j] = delivered[j]
    <3>1. /\ Len(delivered') = n + 1 /\ delivered'[n + 1] = k
          /\ \A j \in 1..n : delivered'[j] = delivered[j]
      BY <1>3, <2>1, <2>2
    <3>2. QED
      BY <3>1, Zenon
  <2>4. SUFFICES ASSUME NEW i \in 1..(n + 1), NEW l \in 1..d[i],
                        sent'[l].connection = sent'[d[i]].connection
                 PROVE  \E j \in 1..i : d[j] = l
    BY <2>3
  <2>5. CASE i = n + 1
    <3>1. l \in 1..Len(sent) /\ d[i] = k
      BY <1>3, <2>3, <2>5
    <3>2. sent[l].connection = connection
      BY <1>5, <2>1, <2>4, <3>1
    <3>3. CASE l = k
      BY <2>3, <2>5, <3>3
    <3>4. CASE l # k
      <4>1. l \in 1..(k - 1)
        BY <3>1, <3>4
      <4>2. PICK j \in 1..Len(delivered) : delivered[j] = l
        BY <2>1, <3>2, <4>1
      <4>3. j \in 1..i /\ d[j] = l
        BY <2>2, <2>3, <2>5, <4>2
      <4>4. QED
        BY <4>3
    <3>5. QED
      BY <3>3, <3>4
  <2>6. CASE i \in 1..n
    <3>1. d[i] = delivered[i] /\ l \in 1..delivered[i] /\ i \in 1..Len(delivered)
      BY <2>2, <2>3, <2>6
    <3>2. sent[l].connection = sent[delivered[i]].connection
      BY <1>5, <1>6, <2>4, <3>1
    <3>3. PICK j \in 1..i : delivered[j] = l
      BY <1>4, <3>1, <3>2
    <3>4. d[j] = l
      BY <2>3, <2>6, <3>3
    <3>5. QED
      BY <3>4
  <2>7. QED
    BY <2>5, <2>6
<1>9. QED
  BY <1>7, <1>8, HistoryStep

\* The TCP buffer drops bytes only behind a packet that decode refuses.
LEMMA StepTcpOverflows ==
  ASSUME Inv, [Next]_vars
  PROVE  TcpOverflowsOnlyOnRefused'
<1> USE DEF Inv
<1>1. SUFFICES ASSUME receiver' = "tcp", dropped', ~raced'
               PROVE  \E k \in 1..Len(sent') : ~Legit(k)'
  <2>1. sent' \in Seq(Packet_)
    BY StepBase DEF Base, TypeOK, Packet_
  <2>2. DOMAIN sent' = 1..Len(sent')
    BY <2>1
  <2>3. QED
    BY <2>2, Zenon DEF TcpOverflowsOnlyOnRefused
<1>2. ~raced /\ receiver = "tcp"
  BY <1>1, HistoryStep
<1>3. CASE Overflow
  <2>1. Blocked'
    BY <1>2, <1>3, TcpOverflowBlocks
  <2>2. QED
    BY <2>1, Zenon DEF Blocked
<1>4. CASE UNCHANGED dropped
  <2>1. sent \in Seq(Packet_)
    BY TypeOKIs DEF Base
  <2>2. DOMAIN sent = 1..Len(sent)
    BY <2>1
  <2>3. PICK k \in 1..Len(sent) : ~Legit(k)
    BY <1>1, <1>2, <1>4, <2>2 DEF TcpOverflowsOnlyOnRefused
  <2>4. k \in 1..Len(sent') /\ ~Legit(k)'
    BY <2>3, HistoryStep, LegitKept
  <2>5. QED
    BY <2>4, Zenon
<1>5. QED
  BY <1>3, <1>4, HistoryStep

\* It holds at the start, when nothing was sent.
LEMMA InitInv == Init => Inv
<1> SUFFICES ASSUME Init PROVE Inv
  OBVIOUS
<1>1. /\ receiver \in Receivers /\ connected = TRUE /\ open = TRUE /\ connection = 1
      /\ sent = << >> /\ wire = << >> /\ m_recv_buffer = << >> /\ temp_buffer = << >>
      /\ pc = "recv" /\ delivered = << >> /\ dropped = FALSE /\ raced = FALSE
      /\ Len(sent) = 0 /\ Len(delivered) = 0
  BY DEF Init
<1>2. Base
  <2>1. TypeOK
    <3>1. BufferSize[receiver] \in Nat
      BY <1>1, ConstantFacts
    <3>2. Len(m_recv_buffer) <= BufferSize[receiver]
      BY <1>1, <3>1
    <3>3. delivered \in Seq(0..MaxPackets) /\ sent \in Seq(Packet_) /\ wire \in Seq(Byte)
      BY <1>1
    <3>4. temp_buffer \in Seq(Byte) /\ m_recv_buffer \in Seq(Byte) /\ connection \in Nat
      BY <1>1
    <3>5. /\ connected \in BOOLEAN /\ open \in BOOLEAN /\ dropped \in BOOLEAN /\ raced \in BOOLEAN
          /\ pc \in {"recv", "append", "drain", "consume", "ended"}
      BY <1>1
    <3>6. QED
      BY <1>1, <3>2, <3>3, <3>4, <3>5, TypeOKIs, Zenon
  <2>2. Known
    BY <1>1, EmptyIs, ConstantFacts DEF Known
  <2>3. QED
    BY <1>1, <2>1, <2>2 DEF Base, Holds, Ends
<1>3. PICK s : s = Stream /\ Len(s) = 0
  <2>1. Stream = << >>
    BY <1>1 DEF Stream, Pending
  <2>2. QED
    BY <2>1
<1>4. Flowing
  <2>1. Run(s, sent) /\ Complete(s, sent) /\ Ahead(s, delivered) /\ Begins(s)
        /\ Passed(s, sent, delivered, connection)
    BY <1>1, <1>3 DEF Run, Complete, Ahead, Begins, Passed
  <2>2. QED
    BY <1>3, <2>1, Zenon DEF Flowing
<1>5. PacketInfo # "Success"
  <2>1. Len(m_recv_buffer) < HeaderSize
    BY <1>1, ConstantFacts
  <2>2. QED
    BY <2>1 DEF PacketInfo
<1>6. Own /\ Flows /\ Drained
  BY <1>1, <1>4, <1>5, EmptyIs DEF Own, Flows, Drained
<1>7. IntactInOrder /\ NoGap /\ TcpOverflowsOnlyOnRefused
  BY <1>1 DEF IntactInOrder, NoGap, TcpOverflowsOnlyOnRefused
<1>8. QED
  BY <1>2, <1>6, <1>7 DEF Inv

\* And every step keeps it.
LEMMA StepInv == Inv /\ [Next]_vars => Inv'
<1> SUFFICES ASSUME Inv, [Next]_vars PROVE Inv'
  OBVIOUS
<1>1. Base' /\ Own' /\ Flows' /\ Drained'
  BY StepBase, StepOwn, StepFlows, StepDrained DEF Inv
<1>2. IntactInOrder' /\ NoGap' /\ TcpOverflowsOnlyOnRefused'
  BY StepIntact, StepNoGap, StepTcpOverflows
<1>3. QED
  BY <1>1, <1>2 DEF Inv

\* For every size of packets, chunks and buffers: what the three loops (TcpClient,
\* P2pProxySession, P2pProxyClient) hand over is a packet as it was sent, each once and in
\* the order of sending, until a reset races the receiving thread.
THEOREM PacketsAreIntact == Spec => []IntactInOrder
<1>1. Inv => IntactInOrder
  BY DEF Inv
<1>2. QED
  BY <1>1, InitInv, StepInv, PTL DEF Spec

\* Of the packets of a connection those handed over are the first ones, as long as no bytes
\* were thrown away (consume() in PacketBuffer and the loops around it).
THEOREM NoPacketIsSkipped == Spec => []NoGap
<1>1. Inv => NoGap
  BY DEF Inv
<1>2. QED
  BY <1>1, InitInv, StepInv, PTL DEF Spec

\* TcpClient's receive buffer is large enough for every packet that process_packets takes
\* with a chunk behind it: receive_into_buffer throws away only behind what is refused.
THEOREM TcpBufferSuffices == Spec => []TcpOverflowsOnlyOnRefused
<1>1. Inv => TcpOverflowsOnlyOnRefused
  BY DEF Inv
<1>2. QED
  BY <1>1, InitInv, StepInv, PTL DEF Spec
=============================================================================

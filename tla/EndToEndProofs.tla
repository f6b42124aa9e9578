--------------------------- MODULE EndToEndProofs ---------------------------
(***************************************************************************)
(* Proofs about EndToEnd, for any messages, MTUs, paths, routes, buffers   *)
(* and faults of the network: the sender is Packetizer, and the bytes of a *)
(* finished message are those that were sent.                              *)
(***************************************************************************)
EXTENDS EndToEnd, PacketizerProofs

(* The recursion of FlattenSeq, for the first n of t.                      *)
FlatFun(f, t, n) == f = [i \in 1..n |-> IF i = 1 THEN t[i] ELSE f[i - 1] \o t[i]]

(* It has a solution, so FlattenSeq unfolds.                               *)
LEMMA FlatFunExists ==
    ASSUME NEW t, NEW N \in Nat
    PROVE  \E f : FlatFun(f, t, N)
<1> DEFINE S == {n \in Nat : \E f : FlatFun(f, t, n)}
<1>1. 0 \in S
  <2>1. FlatFun([i \in 1..0 |-> <<>>], t, 0)
    BY DEF FlatFun
  <2> QED
    BY <2>1
<1>2. ASSUME NEW n \in S PROVE n + 1 \in S
  <2>1. PICK f : FlatFun(f, t, n)
    OBVIOUS
  <2>2. n \in Nat
    OBVIOUS
  <2>3. PICK x : x = IF n + 1 = 1 THEN t[n + 1] ELSE f[n] \o t[n + 1]
    OBVIOUS
  <2> DEFINE g == [i \in 1..(n + 1) |-> IF i = n + 1 THEN x ELSE f[i]]
             h == [i \in 1..(n + 1) |-> IF i = 1 THEN t[i] ELSE g[i - 1] \o t[i]]
  <2>4. ASSUME NEW i \in 1..(n + 1) PROVE g[i] = h[i]
    <3>1. CASE i = n + 1
      <4>1. g[i] = x
        BY <3>1
      <4>2. i # 1 => n \in 1..(n + 1) /\ n # n + 1
        BY <2>2, <3>1
      <4>3. i # 1 => g[n] = f[n] /\ i - 1 = n
        BY <2>2, <3>1, <4>2
      <4> QED
        BY <2>3, <3>1, <4>1, <4>3
    <3>2. CASE i # n + 1
      <4>1. i \in 1..n
        BY <2>2, <3>2
      <4>2. f[i] = IF i = 1 THEN t[i] ELSE f[i - 1] \o t[i]
        BY <2>1, <4>1 DEF FlatFun
      <4>3. i # 1 => i - 1 \in 1..(n + 1) /\ i - 1 # n + 1
        BY <2>2, <4>1
      <4>4. i # 1 => g[i - 1] = f[i - 1]
        BY <4>3
      <4> QED
        BY <3>2, <4>2, <4>4
    <3> QED
      BY <3>1, <3>2
  <2>5. g = h
    BY <2>4
  <2>6. FlatFun(g, t, n + 1)
    BY <2>5 DEF FlatFun
  <2> QED
    BY <2>2, <2>6
<1> HIDE DEF S
<1>3. S \in SUBSET Nat
  BY DEF S
<1>4. S = Nat
  BY <1>1, <1>2, <1>3, NatInd
<1> QED
  BY <1>4 DEF S

(* The length of a sequence that is given as a function.                   *)
LEMMA LenOfFun ==
    ASSUME NEW n \in Nat, NEW s
    PROVE  Len([i \in 1..n |-> s[i]]) = n
OBVIOUS

(* A function on 1..n.                                                     *)
OfLength(s, n) == s = [i \in 1..n |-> s[i]]

(* t is the sequence s of n sequences, with x after them.                  *)
Extends(t, s, n, x, B) ==
    /\ OfLength(s, n) /\ OfLength(t, n + 1)
    /\ \A i \in 1..n : s[i] \in Seq(B) /\ t[i] = s[i]
    /\ t[n + 1] = x

(* One sequence more, at the end.                                          *)
LEMMA FlattenOneMore ==
    ASSUME NEW B, NEW n \in Nat, NEW s, NEW t, NEW x \in Seq(B),
           Extends(t, s, n, x, B)
    PROVE  /\ FlattenSeq(s) \in Seq(B)
           /\ FlattenSeq(t) = FlattenSeq(s) \o x
           /\ n = 0 => FlattenSeq(s) = <<>>
<1>0. /\ OfLength(s, n) /\ OfLength(t, n + 1)
      /\ \A i \in 1..n : s[i] \in Seq(B) /\ t[i] = s[i]
      /\ t[n + 1] = x
  BY DEF Extends
<1>1. Len(s) = n /\ Len(t) = n + 1 /\ n + 1 # 0
  <2>1. n + 1 \in Nat
    OBVIOUS
  <2>2. Len([i \in 1..n |-> s[i]]) = n /\ Len([i \in 1..(n + 1) |-> t[i]]) = n + 1
    BY <2>1, LenOfFun
  <2> QED
    BY <1>0, <2>2 DEF OfLength
<1>2. PICK f : FlatFun(f, t, n + 1) /\ FlattenSeq(t) = f[n + 1]
  <2> DEFINE F == CHOOSE f : f = [i \in 1..(n + 1) |-> IF i = 1 THEN t[i] ELSE f[i - 1] \o t[i]]
  <2>1. FlatFun(F, t, n + 1)
    <3>1. n + 1 \in Nat
      OBVIOUS
    <3>2. \E f : FlatFun(f, t, n + 1)
      BY <3>1, FlatFunExists
    <3> QED
      BY <3>2 DEF FlatFun
  <2>2. FlattenSeq(t) = F[n + 1]
    BY <1>1 DEF FlattenSeq
  <2> QED
    BY <2>1, <2>2
<1>3. CASE n = 0
  <2>1. s = <<>>
    BY <1>0, <1>3 DEF OfLength
  <2>2. FlattenSeq(s) = <<>>
    BY <1>1, <1>3, <2>1 DEF FlattenSeq
  <2>3. f[1] = t[1]
    BY <1>2, <1>3 DEF FlatFun
  <2>4. FlattenSeq(t) = x /\ <<>> \in Seq(B) /\ <<>> \o x = x
    BY <1>0, <1>2, <1>3, <2>3
  <2> QED
    BY <2>2, <2>4
<1>4. CASE n # 0
  <2>1. PICK g : FlatFun(g, s, n) /\ FlattenSeq(s) = g[n]
    <3> DEFINE G == CHOOSE g : g = [i \in 1..n |-> IF i = 1 THEN s[i] ELSE g[i - 1] \o s[i]]
    <3>1. FlatFun(G, s, n)
      BY FlatFunExists DEF FlatFun
    <3>2. FlattenSeq(s) = G[n]
      BY <1>1, <1>4 DEF FlattenSeq
    <3> QED
      BY <3>1, <3>2
  <2> DEFINE S == {k \in Nat : k \in 1..n => f[k] = g[k] /\ g[k] \in Seq(B)}
  <2>2. 0 \in S
    OBVIOUS
  <2>3. ASSUME NEW k \in S PROVE k + 1 \in S
    <3>1. SUFFICES ASSUME k + 1 \in 1..n PROVE f[k + 1] = g[k + 1] /\ g[k + 1] \in Seq(B)
      OBVIOUS
    <3>2. /\ f[k + 1] = IF k + 1 = 1 THEN t[k + 1] ELSE f[(k + 1) - 1] \o t[k + 1]
          /\ g[k + 1] = IF k + 1 = 1 THEN s[k + 1] ELSE g[(k + 1) - 1] \o s[k + 1]
      <4>1. k + 1 \in 1..n /\ k + 1 \in 1..(n + 1)
        BY <3>1
      <4> QED
        BY <1>2, <2>1, <4>1 DEF FlatFun
    <3>3. (k + 1) - 1 = k /\ (k + 1 # 1 => k \in 1..n)
      BY <3>1
    <3>4. s[k + 1] \in Seq(B) /\ t[k + 1] = s[k + 1]
      BY <1>0, <3>1
    <3> QED
      BY <3>2, <3>3, <3>4
  <2>4. n \in S
    <3> HIDE DEF S
    <3>1. S \in SUBSET Nat
      BY DEF S
    <3> QED
      BY <2>2, <2>3, <3>1, NatInd
  <2>5. f[n] = g[n] /\ g[n] \in Seq(B)
    BY <1>4, <2>4
  <2>6. f[n + 1] = f[n] \o t[n + 1]
    <3>1. n + 1 \in 1..(n + 1) /\ n + 1 # 1 /\ (n + 1) - 1 = n
      BY <1>4
    <3> QED
      BY <1>2, <3>1 DEF FlatFun
  <2> QED
    BY <1>0, <1>2, <1>4, <2>1, <2>5, <2>6
<1> QED
  BY <1>3, <1>4

-----------------------------------------------------------------------------
(* The inductive invariant.                                                *)

(* The first b buffers of message m, and of buffer b of it n bytes more.   *)
Whole(m, b) == FlattenSeq([c \in 1..b |-> BytesOfBuffer(m, c)])

UpTo(m, b, n) == Whole(m, b - 1) \o [i \in 1..n |-> <<<<m, b>>, i - 1>>]

(* What of its message comes before a packet, and what up to its end.      *)
Before(p) == UpTo(p.buf[1], p.buf[2], p.from)
Until(p)  == UpTo(p.buf[1], p.buf[2], p.from + p.len)

(* What the sender has sent of the message at hand, and in how many packets*)
SentBytes ==
    UpTo(message, buffer, IF pc = "loop" THEN ToInt(DataLen) - remainingBytes ELSE 0)

SentPackets == IF pc = "loop" THEN packetCounter ELSE offset

(* The sender between two steps: nothing is sent before the first packet,  *)
(* and what is left of a buffer is counted; after the packet with the last *)
(* bit nothing is left.                                                    *)
SenderCounts ==
    /\ (pc \in {"call", "loop"} /\ message \in DOMAIN Messages) =>
           /\ buffer \in 1..(Len(Buffers) + 1)
           /\ SentPackets = 0 => SentBytes = <<>>
    /\ pc = "loop" =>
           /\ remainingBytes <= ToInt(DataLen)
           /\ remainingBytes < 0 => remainingBytes = ToInt(DataLen)
           /\ remainingBytes > 0 => ~veryLastPacket

(* The packets that are still to be seen in the receiver.                  *)
Known == net \union stored \union {placed[i] : i \in 1..Len(placed)}
             \union (IF place = "place" THEN {cur} ELSE {})

(* A packet, once sent: it has a place in the message of its tick, the     *)
(* first one at its beginning, the one with the last bit at its end.       *)
HasPlace(p) ==
    /\ p.buf \in routed \X Nat /\ p.buf[2] \in DOMAIN Messages[p.buf[1]]
    /\ p.tick = TickOf[p.buf[1]]
    /\ p.seq \in Nat /\ p.from \in Nat /\ p.len \in Nat
    /\ p.seq = 0 => Before(p) = <<>>
    /\ p.last => Until(p) = BytesOfMessage(p.buf[1])

(* It is of a message begun, and of the message at hand the packet sent    *)
(* last ends where the sender is.                                          *)
BehindSender(p) ==
    /\ p.buf[1] <= message
    /\ (p.buf[1] = message /\ pc \in {"call", "loop"}) =>
           /\ p.seq < SentPackets
           /\ p.seq = SentPackets - 1 => Until(p) = SentBytes

(* Packets with consecutive numbers have consecutive bytes.                *)
Consecutive ==
    \A p, q \in Known : (p.tick = q.tick /\ q.seq = p.seq + 1) => Before(q) = Until(p)

(* The receiver: what is placed is numbered in order, the tick it has      *)
(* noted is that of a packet it has placed or is about to, and a finished  *)
(* message ends with the last bit.                                         *)
InOrderPlaced ==
    /\ \E S : placed \in Seq(S)
    /\ expectedSequence = Len(placed)
    /\ \A i \in 1..Len(placed) : placed[i].seq = i - 1

TickPlaced(t) == \E i \in 1..Len(placed) : placed[i].tick = t

TickNoted ==
    /\ place = "place" => cur.seq = expectedSequence
    /\ place = "place" => packetTick = cur.tick \/ TickPlaced(packetTick)
    /\ place = "drain" => TickPlaced(packetTick)

EndsWithLast ==
    (place = "done" /\ ret = "OK" /\ last) =>
        Len(placed) > 0 /\ placed[Len(placed)].last /\ TickPlaced(tick)

BytesPlaced == FlattenSeq([i \in 1..Len(placed) |-> BytesOfPacket(placed[i])])

(* As long as all are of one tick, the bytes placed are the message up to  *)
(* the end of the packet placed last.                                      *)
PlacedIsBeginning ==
    (OneTick /\ placed # <<>>) => BytesPlaced = Until(placed[Len(placed)])

(* All of it.                                                              *)
EEInv ==
    /\ SenderCounts
    /\ routed \subseteq Routable
    /\ \A p \in Known : HasPlace(p) /\ BehindSender(p)
    /\ Consecutive
    /\ InOrderPlaced /\ TickNoted /\ EndsWithLast
    /\ PlacedIsBeginning

-----------------------------------------------------------------------------
(* The bytes of messages.                                                  *)

Bytes == (Nat \X Nat) \X Nat

(* k bytes of buffer b of message m, after the first n.                    *)
Piece(m, b, n, k) == [i \in 1..k |-> <<<<m, b>>, n + i - 1>>]

(* A piece is a sequence of k bytes, or empty.                             *)
LEMMA PieceIsSeq ==
    ASSUME NEW m \in Nat, NEW b \in Nat, NEW n \in Nat, NEW k \in Int
    PROVE  /\ Piece(m, b, n, k) \in Seq(Bytes)
           /\ k \in Nat => Len(Piece(m, b, n, k)) = k
           /\ k <= 0 => Piece(m, b, n, k) = <<>>
<1>1. ASSUME NEW i \in 1..k PROVE <<<<m, b>>, n + i - 1>> \in Bytes
  <2>1. n + i - 1 \in Nat
    OBVIOUS
  <2> QED
    BY <2>1 DEF Bytes
<1>2. CASE k \in Nat
  <2>1. Piece(m, b, n, k) \in [1..k -> Bytes]
    BY <1>1 DEF Piece
  <2>2. Piece(m, b, n, k) \in Seq(Bytes) /\ Len(Piece(m, b, n, k)) = k
    BY <1>2, <2>1
  <2>3. k <= 0 => Piece(m, b, n, k) = <<>>
    BY <1>2, <2>2
  <2> QED
    BY <2>2, <2>3
<1>3. CASE k <= 0
  <2>1. 1..k = {}
    BY <1>3
  <2>2. Piece(m, b, n, k) = <<>>
    BY <2>1 DEF Piece
  <2>3. <<>> \in Seq(Bytes) /\ Len(<<>>) = 0
    OBVIOUS
  <2>4. k \in Nat => k = 0
    BY <1>3
  <2> QED
    BY <2>2, <2>3, <2>4
<1> QED
  BY <1>2, <1>3

(* Two pieces, one after the other, are one.                               *)
LEMMA PiecesJoin ==
    ASSUME NEW m \in Nat, NEW b \in Nat, NEW n \in Nat, NEW k \in Nat
    PROVE  Piece(m, b, 0, n) \o Piece(m, b, n, k) = Piece(m, b, 0, n + k)
<1> DEFINE p == Piece(m, b, 0, n)
           q == Piece(m, b, n, k)
           r == Piece(m, b, 0, n + k)
<1>1. /\ p \in Seq(Bytes) /\ Len(p) = n
      /\ q \in Seq(Bytes) /\ Len(q) = k
      /\ r \in Seq(Bytes) /\ Len(r) = n + k
  <2>1. 0 \in Nat /\ n + k \in Nat /\ n + k \in Int /\ n \in Int /\ k \in Int
    OBVIOUS
  <2>2. p \in Seq(Bytes) /\ Len(p) = n
    BY <2>1, PieceIsSeq
  <2>3. q \in Seq(Bytes) /\ Len(q) = k
    BY <2>1, PieceIsSeq
  <2>4. r \in Seq(Bytes) /\ Len(r) = n + k
    BY <2>1, PieceIsSeq
  <2> QED
    BY <2>2, <2>3, <2>4
<1>2. /\ \A i \in 1..n : p[i] = <<<<m, b>>, 0 + i - 1>>
      /\ \A i \in 1..k : q[i] = <<<<m, b>>, n + i - 1>>
      /\ \A i \in 1..(n + k) : r[i] = <<<<m, b>>, 0 + i - 1>>
  BY DEF Piece
<1> HIDE DEF p, q, r
<1>3. p \o q \in Seq(Bytes) /\ Len(p \o q) = n + k
  BY <1>1
<1>4. ASSUME NEW i \in 1..(n + k) PROVE (p \o q)[i] = r[i]
  <2>1. CASE i <= n
    <3>1. i \in 1..n /\ (p \o q)[i] = p[i]
      BY <1>1, <2>1
    <3> QED
      BY <1>2, <3>1
  <2>2. CASE i > n
    <3>1. i - n \in 1..k /\ (p \o q)[i] = q[i - n]
      BY <1>1, <2>2
    <3>2. q[i - n] = <<<<m, b>>, n + (i - n) - 1>>
      BY <1>2, <3>1
    <3>3. n + (i - n) - 1 = 0 + i - 1
      BY <2>2
    <3> QED
      BY <1>2, <3>1, <3>2, <3>3
  <2>3. i <= n \/ i > n
    OBVIOUS
  <2> QED
    BY <2>1, <2>2, <2>3, Zenon
<1>5. p \o q = r
  BY <1>1, <1>3, <1>4, SeqEqual
<1> QED
  BY <1>5 DEF p, q, r

(* The lengths of the buffers, as ints.                                    *)
LEMMA LengthsAreInts ==
    ASSUME NEW m \in DOMAIN Messages
    PROVE  /\ m \in Nat /\ Len(Messages[m]) \in Nat /\ DOMAIN Messages[m] = 1..Len(Messages[m])
           /\ \A b \in DOMAIN Messages[m] : ToInt(Messages[m][b]) \in Int
<1>1. Messages \in Seq(Seq(0..(2 * Two31 - 1))) /\ Two31 \in Nat
  BY PacketizerAssumption
<1>2. m \in Nat /\ Messages[m] \in Seq(0..(2 * Two31 - 1))
  BY <1>1
<1>3. \A b \in DOMAIN Messages[m] : Messages[m][b] \in Int
  BY <1>1, <1>2
<1> QED
  BY <1>1, <1>2, <1>3 DEF ToInt

(* A buffer is a piece of its message, from the buffer's beginning.        *)
LEMMA BufferIsPiece ==
    ASSUME NEW m \in DOMAIN Messages, NEW b \in DOMAIN Messages[m]
    PROVE  /\ BytesOfBuffer(m, b) = Piece(m, b, 0, ToInt(Messages[m][b]))
           /\ BytesOfBuffer(m, b) \in Seq(Bytes)
<1>1. m \in Nat /\ b \in Nat /\ ToInt(Messages[m][b]) \in Int
  BY LengthsAreInts
<1>2. \A n \in 1..ToInt(Messages[m][b]) : n - 1 = 0 + n - 1
  BY <1>1
<1>3. BytesOfBuffer(m, b) = Piece(m, b, 0, ToInt(Messages[m][b]))
  BY <1>2 DEF BytesOfBuffer, Piece
<1> QED
  BY <1>1, <1>3, PieceIsSeq

(* One buffer more.                                                        *)
LEMMA WholeOneMore ==
    ASSUME NEW m \in DOMAIN Messages, NEW b \in DOMAIN Messages[m]
    PROVE  /\ Whole(m, b - 1) \in Seq(Bytes)
           /\ Whole(m, b) = Whole(m, b - 1) \o BytesOfBuffer(m, b)
           /\ Whole(m, 0) = <<>>
<1>1. b \in 1..Len(Messages[m]) /\ Len(Messages[m]) \in Nat
  BY LengthsAreInts
<1> DEFINE s == [c \in 1..(b - 1) |-> BytesOfBuffer(m, c)]
           t == [c \in 1..((b - 1) + 1) |-> BytesOfBuffer(m, c)]
<1>2. OfLength(s, b - 1) /\ OfLength(t, (b - 1) + 1)
  BY DEF OfLength
<1>3. \A c \in 1..(b - 1) : s[c] \in Seq(Bytes) /\ t[c] = s[c]
  <2>1. ASSUME NEW c \in 1..(b - 1)
        PROVE  c \in DOMAIN Messages[m] /\ c \in 1..((b - 1) + 1)
    BY <1>1, LengthsAreInts
  <2> QED
    BY <2>1, BufferIsPiece
<1>4. t[(b - 1) + 1] = BytesOfBuffer(m, b) /\ (b - 1) + 1 = b
  BY <1>1
<1>5. b - 1 \in Nat /\ BytesOfBuffer(m, b) \in Seq(Bytes)
  BY <1>1, BufferIsPiece
<1>6. s = [c \in 1..(b - 1) |-> BytesOfBuffer(m, c)] /\ t = [c \in 1..b |-> BytesOfBuffer(m, c)]
  BY <1>4
<1>7. Whole(m, 0) = <<>>
  <2>1. [c \in 1..0 |-> BytesOfBuffer(m, c)] = <<>> /\ Len(<<>>) = 0
    OBVIOUS
  <2> QED
    BY <2>1 DEF Whole, FlattenSeq
<1> HIDE DEF s, t
<1>8. FlattenSeq(s) \in Seq(Bytes) /\ FlattenSeq(t) = FlattenSeq(s) \o BytesOfBuffer(m, b)
  <2>1. PICK n, x, u, v : n = b - 1 /\ x = BytesOfBuffer(m, b) /\ u = s /\ v = t
    OBVIOUS
  <2>2. n \in Nat /\ x \in Seq(Bytes)
    BY <1>5, <2>1
  <2>3. Extends(v, u, n, x, Bytes)
    BY <1>2, <1>3, <1>4, <2>1 DEF Extends
  <2>4. FlattenSeq(u) \in Seq(Bytes) /\ FlattenSeq(v) = FlattenSeq(u) \o x
    BY <2>2, <2>3, FlattenOneMore
  <2> QED
    BY <2>1, <2>4
<1> QED
  BY <1>6, <1>7, <1>8 DEF Whole

(* k bytes more of a buffer.                                               *)
LEMMA UpToMore ==
    ASSUME NEW m \in DOMAIN Messages, NEW b \in DOMAIN Messages[m], NEW n \in Nat, NEW k \in Nat
    PROVE  /\ UpTo(m, b, n) \in Seq(Bytes)
           /\ UpTo(m, b, n) \o Piece(m, b, n, k) = UpTo(m, b, n + k)
<1>1. m \in Nat /\ b \in Nat
  BY LengthsAreInts
<1> DEFINE p == Piece(m, b, 0, n)
           q == Piece(m, b, n, k)
           w == Whole(m, b - 1)
<1>2. p \in Seq(Bytes) /\ q \in Seq(Bytes) /\ w \in Seq(Bytes)
  <2>1. 0 \in Nat /\ n \in Int /\ k \in Int
    OBVIOUS
  <2>2. p \in Seq(Bytes)
    BY <1>1, <2>1, PieceIsSeq
  <2>3. q \in Seq(Bytes)
    BY <1>1, <2>1, PieceIsSeq
  <2>4. w \in Seq(Bytes)
    BY WholeOneMore
  <2> QED
    BY <2>2, <2>3, <2>4
<1>3. \A j \in Nat : UpTo(m, b, j) = w \o Piece(m, b, 0, j)
  <2>1. ASSUME NEW j \in Nat PROVE Piece(m, b, 0, j) = [i \in 1..j |-> <<<<m, b>>, i - 1>>]
    <3>1. \A i \in 1..j : 0 + i - 1 = i - 1
      OBVIOUS
    <3> QED
      BY <3>1 DEF Piece
  <2> QED
    BY <2>1 DEF UpTo
<1>4. p \o q = Piece(m, b, 0, n + k)
  BY <1>1, PiecesJoin, ZenonT(40)
<1>5. UpTo(m, b, n) = w \o p /\ UpTo(m, b, n + k) = w \o (p \o q)
  <2>1. n + k \in Nat
    OBVIOUS
  <2> QED
    BY <1>3, <1>4, <2>1
<1> HIDE DEF p, q, w
<1>6. (w \o p) \o q = w \o (p \o q) /\ w \o p \in Seq(Bytes)
  BY <1>2, ConcatAssociative
<1> QED
  BY <1>5, <1>6 DEF q

(* A buffer ends where the next one begins, also one without bytes.        *)
LEMMA UpToEnd ==
    ASSUME NEW m \in DOMAIN Messages, NEW b \in DOMAIN Messages[m], NEW n \in Nat,
           n = ToInt(Messages[m][b]) \/ (n = 0 /\ ToInt(Messages[m][b]) <= 0)
    PROVE  UpTo(m, b, n) = Whole(m, b) /\ UpTo(m, b + 1, 0) = Whole(m, b)
<1>1. m \in Nat /\ b \in Nat /\ ToInt(Messages[m][b]) \in Int
  BY LengthsAreInts
<1> DEFINE w == Whole(m, b - 1)
           l == ToInt(Messages[m][b])
<1>2. w \in Seq(Bytes) /\ Whole(m, b) = w \o Piece(m, b, 0, l)
  BY WholeOneMore, BufferIsPiece
<1>3. UpTo(m, b, n) = w \o Piece(m, b, 0, n)
  <2>1. \A i \in 1..n : 0 + i - 1 = i - 1
    OBVIOUS
  <2> QED
    BY <2>1 DEF Piece, UpTo
<1>4. Piece(m, b, 0, n) = Piece(m, b, 0, l)
  <2>1. CASE n = l
    BY <2>1
  <2>2. CASE n = 0 /\ l <= 0
    BY <1>1, <2>2, PieceIsSeq
  <2> QED
    BY <2>1, <2>2
<1>5. UpTo(m, b + 1, 0) = Whole(m, b) \o <<>>
  <2>1. (b + 1) - 1 = b /\ [i \in 1..0 |-> <<<<m, b + 1>>, i - 1>>] = <<>>
    BY <1>1
  <2> QED
    BY <2>1 DEF UpTo
<1>6. Whole(m, b) \in Seq(Bytes)
  <2>1. Whole(m, b) = w \o BytesOfBuffer(m, b) /\ BytesOfBuffer(m, b) \in Seq(Bytes)
    BY WholeOneMore, BufferIsPiece
  <2>2. PICK v : v = BytesOfBuffer(m, b)
    OBVIOUS
  <2>3. v \in Seq(Bytes) /\ Whole(m, b) = w \o v /\ w \in Seq(Bytes)
    BY <1>2, <2>1, <2>2
  <2> HIDE DEF w
  <2>4. w \o v \in Seq(Bytes)
    BY <2>3
  <2> QED
    BY <2>3, <2>4
<1>7. Whole(m, b) \o <<>> = Whole(m, b)
  BY <1>6
<1> HIDE DEF w, l
<1> QED
  BY <1>2, <1>3, <1>4, <1>5, <1>7, Zenon

(* A message is all of its buffers, and nothing comes before the first.    *)
LEMMA WholeMessage ==
    ASSUME NEW m \in DOMAIN Messages
    PROVE  BytesOfMessage(m) = Whole(m, Len(Messages[m])) /\ UpTo(m, 1, 0) = <<>>
<1>1. BytesOfMessage(m) = Whole(m, Len(Messages[m]))
  BY DEF BytesOfMessage, Whole
<1>2. [c \in 1..0 |-> BytesOfBuffer(m, c)] = <<>> /\ Len(<<>>) = 0
  OBVIOUS
<1>3. Whole(m, 1 - 1) = <<>>
  <2>1. 1 - 1 = 0
    OBVIOUS
  <2> QED
    BY <1>2, <2>1 DEF Whole, FlattenSeq
<1>4. [i \in 1..0 |-> <<<<m, 1>>, i - 1>>] = <<>>
  OBVIOUS
<1> QED
  BY <1>1, <1>3, <1>4 DEF UpTo

-----------------------------------------------------------------------------
(* The sender.                                                             *)


(* In the loop the buffer at hand has a length, and what is sent of it is  *)
(* counted.                                                                *)
LEMMA InTheLoop ==
    ASSUME IndInv, SenderCounts, pc = "loop"
    PROVE  /\ message \in DOMAIN Messages /\ buffer \in DOMAIN Messages[message]
           /\ buffer \in 1..Len(Buffers) /\ Len(Buffers) \in Nat
           /\ ToInt(DataLen) \in Int /\ DataLen = Messages[message][buffer]
           /\ remainingBytes \in Int
           /\ ToInt(DataLen) - remainingBytes \in Nat
           /\ SentBytes = UpTo(message, buffer, ToInt(DataLen) - remainingBytes)
           /\ SentPackets = packetCounter /\ packetCounter \in Nat
<1>1. message \in DOMAIN Messages /\ buffer \in DOMAIN Messages[message]
  BY DEF IndInv, InMessages, Buffers
<1>2. buffer \in 1..Len(Buffers) /\ Len(Buffers) \in Nat /\ ToInt(DataLen) \in Int
  BY <1>1, LengthsAreInts DEF Buffers, DataLen
<1>3. remainingBytes \in Int /\ remainingBytes <= ToInt(DataLen) /\ packetCounter \in Nat
  BY DEF IndInv, TypeOK, SenderCounts
<1>4. ToInt(DataLen) - remainingBytes \in Nat
  BY <1>2, <1>3
<1>5. /\ SentBytes = UpTo(message, buffer, ToInt(DataLen) - remainingBytes)
      /\ SentPackets = packetCounter
  BY DEF SentBytes, SentPackets
<1>6. DataLen = Messages[message][buffer]
  BY DEF DataLen, Buffers
<1> QED
  BY <1>1, <1>2, <1>3, <1>4, <1>5, <1>6

(* A packet sent follows what was sent before it.                          *)
LEMMA PacketFollows ==
    ASSUME IndInv, SenderCounts, SendPacket
    PROVE  /\ SenderCounts'
           /\ pc = "loop" /\ pc' = "loop" /\ message' = message
           /\ message \in DOMAIN Messages /\ buffer \in DOMAIN Messages[message]
           /\ packetCounter \in Nat
           /\ SentPackets = packetCounter /\ SentPackets' = packetCounter + 1
           /\ BytesToWrite \in Nat /\ ToInt(DataLen) - remainingBytes \in Nat
           /\ UpTo(message, buffer, ToInt(DataLen) - remainingBytes) = SentBytes
           /\ UpTo(message, buffer, ToInt(DataLen) - remainingBytes + BytesToWrite) = SentBytes'
           /\ packetCounter = 0 => SentBytes = <<>>
           /\ IsVeryLast => SentBytes' = BytesOfMessage(message)
<1>1. /\ pc = "loop" /\ pc' = "loop" /\ remainingBytes > 0 /\ BytesToWrite >= 0
      /\ UNCHANGED <<message, buffer>>
      /\ packetCounter' = packetCounter + 1
      /\ remainingBytes' = remainingBytes - BytesToWrite
      /\ veryLastPacket' = IsVeryLast
  BY DEF SendPacket, InLoop, callVars
<1>2. /\ message \in DOMAIN Messages /\ buffer \in DOMAIN Messages[message]
      /\ buffer \in 1..Len(Buffers) /\ Len(Buffers) \in Nat
      /\ ToInt(DataLen) \in Int /\ DataLen = Messages[message][buffer]
      /\ remainingBytes \in Int
      /\ ToInt(DataLen) - remainingBytes \in Nat
      /\ SentBytes = UpTo(message, buffer, ToInt(DataLen) - remainingBytes)
      /\ SentPackets = packetCounter /\ packetCounter \in Nat
  BY <1>1, InTheLoop
<1>3. BytesToWrite \in Nat /\ BytesToWrite <= remainingBytes /\ ~veryLastPacket
  <2>1. maxUdpPayload \in Int
    BY DEF IndInv, TypeOK
  <2> QED
    BY <1>1, <1>2, <2>1 DEF BytesToWrite, SenderCounts
<1>4. DataLen' = DataLen /\ Buffers' = Buffers
  BY <1>1 DEF DataLen, Buffers
<1>5. ToInt(DataLen)' = ToInt(DataLen)
  BY <1>4 DEF ToInt
<1>6. ToInt(DataLen)' - remainingBytes' = ToInt(DataLen) - remainingBytes + BytesToWrite
  BY <1>1, <1>2, <1>3, <1>5
<1>7. SentBytes' = UpTo(message, buffer, ToInt(DataLen) - remainingBytes + BytesToWrite)
  BY <1>1, <1>6 DEF SentBytes
<1>8. SentPackets' = packetCounter + 1
  BY <1>1 DEF SentPackets
<1>9. packetCounter = 0 => SentBytes = <<>>
  BY <1>1, <1>2 DEF SenderCounts
<1>10. ASSUME IsVeryLast PROVE BytesToWrite = remainingBytes /\ buffer = Len(Messages[message])
  BY <1>3, <1>10 DEF IsVeryLast, LastBuffer, Buffers
<1>11. ASSUME IsVeryLast PROVE SentBytes' = BytesOfMessage(message)
  <2>1. ToInt(DataLen) - remainingBytes + BytesToWrite = ToInt(DataLen) /\ ToInt(DataLen) \in Nat
    BY <1>2, <1>3, <1>10, <1>11
  <2>2. SentBytes' = Whole(message, buffer)
    BY <1>2, <1>7, <2>1, UpToEnd
  <2> QED
    BY <1>2, <1>10, <1>11, <2>2, WholeMessage
<1>12. SenderCounts'
  <2>1. message' \in DOMAIN Messages /\ buffer' \in 1..(Len(Buffers') + 1)
    BY <1>1, <1>2, <1>4
  <2>2. SentPackets' # 0
    BY <1>2, <1>8
  <2>3. /\ remainingBytes' <= ToInt(DataLen)' /\ remainingBytes' >= 0
    BY <1>1, <1>2, <1>3, <1>5
  <2>4. remainingBytes' > 0 => ~veryLastPacket'
    BY <1>1, <1>2, <1>3, <1>10
  <2>5. remainingBytes' \in Int
    BY <1>1, <1>2, <1>3
  <2> QED
    BY <1>1, <2>1, <2>2, <2>3, <2>4, <2>5 DEF SenderCounts
<1> QED
  BY <1>1, <1>2, <1>3, <1>7, <1>8, <1>9, <1>11, <1>12

(* Any other step of the sender leaves what is sent of the message at hand,*)
(* or begins another message.                                              *)
StaysThere ==
    /\ message' = message
    /\ pc' \in {"call", "loop"} =>
           /\ pc \in {"call", "loop"}
           /\ message \in DOMAIN Messages => SentPackets' = SentPackets /\ SentBytes' = SentBytes

BeginsAnother == message' = message + 1

(* All steps but that of a packet do one of the two.                       *)
LEMMA OthersStay ==
    ASSUME IndInv, SenderCounts, SendNothing \/ UNCHANGED vars
    PROVE  SenderCounts' /\ (StaysThere \/ BeginsAnother)
<1>1. CASE Enter
  <2>1. /\ pc = "call" /\ pc' = "loop" /\ message \in DOMAIN Messages /\ buffer \in DOMAIN Buffers
        /\ remainingBytes' = ToInt(DataLen) /\ packetCounter' = offset /\ veryLastPacket' = FALSE
        /\ UNCHANGED <<message, buffer, offset>>
    BY <1>1 DEF Enter, callVars
  <2>2. buffer \in DOMAIN Messages[message] /\ Messages[message] = Buffers
    BY <2>1 DEF Buffers
  <2>3. ToInt(DataLen) \in Int /\ buffer \in 1..(Len(Buffers) + 1)
    BY <2>1, <2>2, LengthsAreInts DEF DataLen
  <2>4. ToInt(DataLen)' = ToInt(DataLen) /\ Buffers' = Buffers
    BY <2>1 DEF DataLen, Buffers, ToInt
  <2>5. ToInt(DataLen)' - remainingBytes' = 0
    BY <2>1, <2>3, <2>4
  <2>6. SentBytes' = SentBytes /\ SentPackets' = SentPackets
    BY <2>1, <2>5 DEF SentBytes, SentPackets
  <2>7. SenderCounts'
    BY <2>1, <2>3, <2>4, <2>6 DEF SenderCounts
  <2> QED
    BY <2>1, <2>6, <2>7 DEF StaysThere
<1>2. CASE ReducePayload
  <2>1. /\ pc = "loop" /\ pc' = "loop" /\ veryLastPacket' = FALSE
        /\ UNCHANGED <<message, buffer, offset, remainingBytes, packetCounter>>
    BY <1>2 DEF ReducePayload, InLoop, callVars
  <2>2. ToInt(DataLen)' = ToInt(DataLen) /\ Buffers' = Buffers
    BY <2>1 DEF DataLen, Buffers, ToInt
  <2>3. SentBytes' = SentBytes /\ SentPackets' = SentPackets
    BY <2>1, <2>2 DEF SentBytes, SentPackets
  <2>4. SenderCounts'
    BY <2>1, <2>2, <2>3 DEF SenderCounts
  <2> QED
    BY <2>1, <2>3, <2>4 DEF StaysThere
<1>3. CASE SendRefused \/ SendError \/ LeaveMessage
  <2>1. pc' \in {"failed", "done"} /\ message' = message
    BY <1>3 DEF SendRefused, SendError, LeaveMessage, callVars
  <2> QED
    BY <2>1 DEF SenderCounts, StaysThere
<1>4. CASE LeaveBuffer
  <2>1. /\ pc = "loop" /\ pc' = "call" /\ message' = message
        /\ remainingBytes <= 0 /\ ~LastBuffer
        /\ offset' = packetCounter /\ buffer' = buffer + 1
    BY <1>4 DEF LeaveBuffer
  <2>2. /\ message \in DOMAIN Messages /\ buffer \in DOMAIN Messages[message]
        /\ buffer \in 1..Len(Buffers) /\ Len(Buffers) \in Nat
        /\ ToInt(DataLen) \in Int /\ DataLen = Messages[message][buffer]
        /\ remainingBytes \in Int
        /\ ToInt(DataLen) - remainingBytes \in Nat
        /\ SentBytes = UpTo(message, buffer, ToInt(DataLen) - remainingBytes)
        /\ SentPackets = packetCounter
    BY <2>1, InTheLoop
  <2>3. Buffers' = Buffers /\ buffer' \in 1..(Len(Buffers') + 1)
    BY <2>1, <2>2 DEF Buffers
  <2>4. \/ ToInt(DataLen) - remainingBytes = ToInt(DataLen)
        \/ ToInt(DataLen) - remainingBytes = 0 /\ ToInt(DataLen) <= 0
    BY <2>1, <2>2 DEF SenderCounts
  <2>5. SentBytes = UpTo(message, buffer + 1, 0)
    BY <2>2, <2>4, UpToEnd
  <2>6. SentBytes' = SentBytes /\ SentPackets' = SentPackets
    BY <2>1, <2>2, <2>5 DEF SentBytes, SentPackets
  <2>7. SenderCounts'
    BY <2>1, <2>2, <2>3, <2>6 DEF SenderCounts
  <2> QED
    BY <2>1, <2>6, <2>7 DEF StaysThere
<1>5. CASE NextMessage
  <2>1. pc' = "call" /\ message' = message + 1 /\ buffer' = 1 /\ offset' = 0
    BY <1>5 DEF NextMessage
  <2>2. ASSUME message' \in DOMAIN Messages
        PROVE  buffer' \in 1..(Len(Buffers') + 1) /\ SentBytes' = <<>>
    <3>1. Len(Messages[message']) \in Nat
      BY <2>2, LengthsAreInts
    <3>2. UpTo(message', 1, 0) = <<>>
      BY <2>2, WholeMessage
    <3> QED
      BY <2>1, <3>1, <3>2 DEF Buffers, SentBytes
  <2>3. SenderCounts'
    BY <2>1, <2>2 DEF SenderCounts
  <2> QED
    BY <2>1, <2>3 DEF BeginsAnother
<1>6. CASE PathChanges \/ UNCHANGED vars
  <2>1. UNCHANGED <<pc, message, buffer, offset, remainingBytes, packetCounter, veryLastPacket>>
    BY <1>6 DEF PathChanges, vars, callVars, loopVars
  <2>2. ToInt(DataLen)' = ToInt(DataLen) /\ Buffers' = Buffers
    BY <2>1 DEF DataLen, Buffers, ToInt
  <2>3. SentBytes' = SentBytes /\ SentPackets' = SentPackets
    BY <2>1, <2>2 DEF SentBytes, SentPackets
  <2>4. SenderCounts'
    BY <2>1, <2>2, <2>3 DEF SenderCounts
  <2> QED
    BY <2>1, <2>3, <2>4 DEF StaysThere
<1> QED
  BY <1>1, <1>2, <1>3, <1>4, <1>5, <1>6 DEF SendNothing

(* The fields of a packet as it travels.                                   *)
LEMMA WireFields ==
    /\ OnTheWire.seq = packetCounter /\ OnTheWire.last = IsVeryLast
    /\ OnTheWire.buf = <<message, buffer>> /\ OnTheWire.tick = TickOf[message]
    /\ OnTheWire.from = ToInt(DataLen) - remainingBytes /\ OnTheWire.len = BytesToWrite
BY DEF OnTheWire, ThePacket

-----------------------------------------------------------------------------
(* The receiver.                                                           *)


(* What each of its steps does to what the invariant speaks of.            *)
ReadsOne(p) ==
    /\ place = "read"
    /\ net' \subseteq net /\ stored' \subseteq stored \union {p}
    /\ UNCHANGED <<placed, expectedSequence>>
    /\ \/ place' = "place" /\ cur' = p /\ p.seq = expectedSequence /\ packetTick' = p.tick
       \/ place' = "read"
       \/ place' = "done" /\ ret' # "OK"

PlacesIt ==
    /\ place = "place"
    /\ UNCHANGED <<net, stored, packetTick>>
    /\ placed' = Append(placed, cur) /\ expectedSequence' = expectedSequence + 1
    /\ \/ place' \in {"drain", "read"}
       \/ place' = "done" /\ ret' # "OK"
       \/ place' = "done" /\ last' = cur.last /\ tick' = packetTick

Drains(q) ==
    /\ place = "drain"
    /\ UNCHANGED <<net, placed, expectedSequence, packetTick>>
    /\ stored' \subseteq stored /\ cur' = q /\ q.seq = expectedSequence
    /\ place' \in {"place", "overrun"}

LoseOne ==
    /\ net' \subseteq net
    /\ UNCHANGED <<expectedSequence, place, placed, stored, cur, packetTick, ret, last, tick>>

(* A packet read is placed, stored or dropped, or the call ends in an error.*)
LEMMA ReadStep ==
    ASSUME NEW p \in net, \/ Receiver!Truncated(p) \/ Receiver!ReadInOrder(p)
                          \/ Receiver!ReadAgain(p) \/ Receiver!ReadButMapFull(p)
                          \/ Receiver!ReadButNoMemory(p) \/ Receiver!ReadAndStore(p)
    PROVE  ReadsOne(p)
<1>1. ASSUME Receiver!Arrive(p) PROVE place = "read" /\ net' \subseteq net
  BY <1>1 DEF Receiver!Arrive
<1>2. CASE Receiver!Truncated(p)
  BY <1>1, <1>2 DEF Receiver!Truncated, Receiver!ReturnError, Receiver!bufVars, Receiver!mapVars,
                    ReadsOne
<1>3. ASSUME Receiver!ReadPacket(p)
      PROVE  place = "read" /\ net' \subseteq net /\ UNCHANGED <<placed, expectedSequence>>
             /\ packetTick' = p.tick
  BY <1>1, <1>3 DEF Receiver!ReadPacket, Receiver!bufVars
<1>4. CASE Receiver!ReadInOrder(p)
  BY <1>3, <1>4 DEF Receiver!ReadInOrder, Receiver!mapVars, ReadsOne
<1>5. CASE Receiver!ReadAgain(p)
  BY <1>3, <1>5 DEF Receiver!ReadAgain, Receiver!FreeMap, Receiver!ReturnError, ReadsOne
<1>6. CASE Receiver!ReadButMapFull(p)
  BY <1>3, <1>6 DEF Receiver!ReadButMapFull, Receiver!FreeMap, Receiver!ReturnError, ReadsOne
<1>7. CASE Receiver!ReadButNoMemory(p)
  BY <1>3, <1>7 DEF Receiver!ReadButNoMemory, Receiver!FreeMap, Receiver!ReturnError, ReadsOne
<1>8. CASE Receiver!ReadAndStore(p)
  BY <1>3, <1>8 DEF Receiver!ReadAndStore, ReadsOne
<1> QED
  BY <1>2, <1>4, <1>5, <1>6, <1>7, <1>8

(* The packet in hand is placed, and the call goes on, fails, or returns.  *)
LEMMA PlaceStep == Receiver!Place => PlacesIt
<1> SUFFICES ASSUME Receiver!Place PROVE PlacesIt
  OBVIOUS
<1>1. place = "place"
  BY DEF Receiver!Place
<1>2. ASSUME Receiver!Advance
      PROVE  /\ placed' = Append(placed, cur) /\ expectedSequence' = expectedSequence + 1
             /\ UNCHANGED <<net, packetTick>>
  BY <1>2 DEF Receiver!Advance, Receiver!netVars
<1>3. CASE Receiver!PlaceBadFirstBit
  BY <1>1, <1>2, <1>3 DEF Receiver!PlaceBadFirstBit, Receiver!FreeMap, Receiver!ReturnError, PlacesIt
<1>4. CASE Receiver!PlaceThenDrain
  BY <1>1, <1>2, <1>4 DEF Receiver!PlaceThenDrain, Receiver!mapVars, PlacesIt
<1>5. CASE Receiver!PlaceThenReturn
  BY <1>1, <1>2, <1>5 DEF Receiver!PlaceThenReturn, Receiver!mapVars, PlacesIt
<1>6. CASE Receiver!PlaceThenRead
  BY <1>1, <1>2, <1>6 DEF Receiver!PlaceThenRead, Receiver!mapVars, PlacesIt
<1> QED
  BY <1>3, <1>4, <1>5, <1>6 DEF Receiver!Place

(* A stored packet becomes the one in hand.                                *)
LEMMA DrainStep == ASSUME NEW q \in stored, Receiver!Drain(q) PROVE Drains(q)
<1>1. IF q.len <= remainingLen THEN place' = "place" ELSE place' = "overrun"
  BY DEF Receiver!Drain
<1> QED
  BY <1>1 DEF Receiver!Drain, Receiver!netVars, Receiver!bufVars, Drains

ReceiverMoves ==
    \/ \E p \in net : ReadsOne(p)
    \/ PlacesIt
    \/ \E q \in stored : Drains(q)
    \/ LoseOne

(* These are all the steps of the receiver and of the network.             *)
LEMMA ReceiverSteps == Receive \/ Lose => ReceiverMoves /\ UNCHANGED <<vars, routed>>
<1>1. ASSUME Receive PROVE ReceiverMoves /\ UNCHANGED <<vars, routed>>
  BY <1>1, ReadStep, PlaceStep, DrainStep DEF Receive, Receiver!Routine, Receiver!Read, ReceiverMoves
<1>2. ASSUME Lose PROVE ReceiverMoves /\ UNCHANGED <<vars, routed>>
  <2>1. PICK p \in net : Receiver!Lose(p)
    BY <1>2 DEF Lose
  <2>2. net' \subseteq net /\ UNCHANGED <<dups>>
    BY <2>1 DEF Receiver!Lose
  <2>3. UNCHANGED received
    BY <2>1 DEF Receiver!Lose, received, Receiver!bufVars, Receiver!headVars, Receiver!mapVars,
                Receiver!outVars, Receiver!argVars
  <2> QED
    BY <1>2, <2>2, <2>3 DEF Lose, ReceiverMoves, LoseOne, received
<1> QED
  BY <1>1, <1>2

(* What is appended comes last.                                            *)
LEMMA Appended ==
    ASSUME NEW S, placed \in Seq(S), PlacesIt
    PROVE  /\ placed' \in Seq(S \union {cur}) /\ Len(placed) \in Nat
           /\ Len(placed') = Len(placed) + 1 /\ placed'[Len(placed) + 1] = cur
           /\ \A i \in 1..Len(placed) : placed'[i] = placed[i]
<1>1. placed \in Seq(S \union {cur}) /\ placed' = Append(placed, cur)
  BY DEF PlacesIt
<1> QED
  BY <1>1

(* No packet is known that was not known before.                           *)
LEMMA NoneUnknown ==
    ASSUME InOrderPlaced, ReceiverMoves
    PROVE  Known' \subseteq Known
<1>1. CASE \E p \in net : ReadsOne(p)
  BY <1>1 DEF ReadsOne, Known
<1>2. CASE PlacesIt
  <2>1. PICK S : placed \in Seq(S)
    BY DEF InOrderPlaced
  <2>2. {placed'[i] : i \in 1..Len(placed')} \subseteq {placed[i] : i \in 1..Len(placed)} \union {cur}
    <3>1. /\ Len(placed) \in Nat /\ Len(placed') = Len(placed) + 1
          /\ placed'[Len(placed) + 1] = cur /\ \A i \in 1..Len(placed) : placed'[i] = placed[i]
      BY <1>2, <2>1, Appended
    <3>2. \A i \in 1..Len(placed') : i \in 1..Len(placed) \/ i = Len(placed) + 1
      BY <3>1
    <3> QED
      BY <3>1, <3>2
  <2>3. place = "place" /\ place' # "place" /\ UNCHANGED <<net, stored>>
    BY <1>2 DEF PlacesIt
  <2> QED
    BY <2>2, <2>3 DEF Known
<1>3. CASE \E q \in stored : Drains(q)
  BY <1>3 DEF Drains, Known
<1>4. CASE LoseOne
  BY <1>4 DEF LoseOne, Known
<1> QED
  BY <1>1, <1>2, <1>3, <1>4 DEF ReceiverMoves

(* Numbers, ticks and the end.                                             *)
LEMMA ReceiverInOrder ==
    ASSUME InOrderPlaced, TickNoted, EndsWithLast, ReceiverMoves
    PROVE  InOrderPlaced' /\ TickNoted' /\ EndsWithLast'
<1>1. PICK S : placed \in Seq(S)
  BY DEF InOrderPlaced
<1>2. CASE \E p \in net : ReadsOne(p)
  <2>1. PICK p \in net : ReadsOne(p)
    BY <1>2
  <2>2. InOrderPlaced'
    BY <2>1 DEF ReadsOne, InOrderPlaced
  <2>3. TickNoted'
    BY <2>1 DEF ReadsOne, TickNoted
  <2>4. EndsWithLast'
    BY <2>1 DEF ReadsOne, EndsWithLast
  <2> QED
    BY <2>2, <2>3, <2>4
<1>3. CASE PlacesIt
  <2>1. /\ placed' \in Seq(S \union {cur}) /\ Len(placed) \in Nat
        /\ Len(placed') = Len(placed) + 1 /\ placed'[Len(placed) + 1] = cur
        /\ \A i \in 1..Len(placed) : placed'[i] = placed[i]
    BY <1>1, <1>3, Appended
  <2>2. place = "place" /\ expectedSequence' = expectedSequence + 1 /\ packetTick' = packetTick
    BY <1>3 DEF PlacesIt
  <2>3. expectedSequence = Len(placed) /\ cur.seq = expectedSequence
    BY <2>2 DEF InOrderPlaced, TickNoted
  <2>4. ASSUME NEW i \in 1..Len(placed') PROVE placed'[i].seq = i - 1
    <3>1. CASE i \in 1..Len(placed)
      BY <2>1, <3>1 DEF InOrderPlaced
    <3>2. CASE i = Len(placed) + 1
      BY <2>1, <2>3, <3>2
    <3> QED
      BY <2>1, <3>1, <3>2
  <2>5. InOrderPlaced'
    BY <2>1, <2>2, <2>3, <2>4 DEF InOrderPlaced
  <2>6. \E i \in 1..Len(placed') : placed'[i].tick = packetTick
    <3>1. CASE packetTick = cur.tick
      <4>1. Len(placed) + 1 \in 1..Len(placed')
        BY <2>1
      <4> QED
        BY <2>1, <3>1, <4>1
    <3>2. CASE TickPlaced(packetTick)
      <4>1. PICK i \in 1..Len(placed) : placed[i].tick = packetTick
        BY <3>2 DEF TickPlaced
      <4>2. i \in 1..Len(placed')
        BY <2>1
      <4> QED
        BY <2>1, <4>1, <4>2
    <3> QED
      BY <2>2, <3>1, <3>2 DEF TickNoted
  <2>7. TickNoted'
    BY <1>3, <2>2, <2>6 DEF TickNoted, TickPlaced, PlacesIt
  <2>8. EndsWithLast'
    <3>1. SUFFICES ASSUME place' = "done", ret' = "OK", last'
                   PROVE  /\ Len(placed') > 0 /\ placed'[Len(placed')].last
                          /\ \E i \in 1..Len(placed') : placed'[i].tick = tick'
      BY DEF EndsWithLast, TickPlaced
    <3>2. cur.last /\ tick' = packetTick
      BY <1>3, <3>1 DEF PlacesIt
    <3>3. Len(placed') > 0 /\ placed'[Len(placed')] = cur
      BY <2>1
    <3> QED
      BY <2>6, <3>2, <3>3
  <2> QED
    BY <2>5, <2>7, <2>8
<1>4. CASE \E q \in stored : Drains(q)
  BY <1>4 DEF Drains, InOrderPlaced, TickNoted, EndsWithLast, TickPlaced
<1>5. CASE LoseOne
  BY <1>5 DEF LoseOne, InOrderPlaced, TickNoted, EndsWithLast, TickPlaced
<1> QED
  BY <1>2, <1>3, <1>4, <1>5 DEF ReceiverMoves

(* A packet's bytes are those of its message between what comes before it  *)
(* and what up to its end.                                                 *)
LEMMA BytesBetween ==
    ASSUME routed \subseteq Routable, NEW p, HasPlace(p)
    PROVE  /\ BytesOfPacket(p) \in Seq(Bytes) /\ Before(p) \in Seq(Bytes)
           /\ Until(p) = Before(p) \o BytesOfPacket(p)
           /\ p.tick = TickOf[p.buf[1]] /\ p.buf[1] \in routed /\ p.buf[1] \in Routable
<1>1. PICK m, b : m = p.buf[1] /\ b = p.buf[2]
  OBVIOUS
<1>2. p.buf = <<m, b>> /\ m \in routed /\ m \in Routable /\ p.tick = TickOf[m]
  BY <1>1 DEF HasPlace
<1>3. m \in DOMAIN Messages /\ b \in DOMAIN Messages[m]
  BY <1>1, <1>2, EndToEndAssumption DEF HasPlace
<1>4. p.from \in Nat /\ p.len \in Nat
  BY DEF HasPlace
<1>5. PICK from, len : from = p.from /\ len = p.len
  OBVIOUS
<1>6. m \in Nat /\ b \in Nat
  BY <1>3, LengthsAreInts
<1>7. BytesOfPacket(p) \in Seq(Bytes)
  <2>1. from \in Nat /\ len \in Int
    BY <1>4, <1>5
  <2>2. Piece(m, b, from, len) \in Seq(Bytes)
    BY <1>6, <2>1, PieceIsSeq
  <2>3. BytesOfPacket(p) = Piece(m, b, p.from, p.len)
    BY <1>2 DEF BytesOfPacket, Piece
  <2> QED
    BY <1>5, <2>2, <2>3
<1>8. BytesOfPacket(p) = Piece(m, b, p.from, p.len)
  BY <1>2 DEF BytesOfPacket, Piece
<1>9. /\ UpTo(m, b, p.from) \in Seq(Bytes)
      /\ UpTo(m, b, p.from) \o Piece(m, b, p.from, p.len) = UpTo(m, b, p.from + p.len)
  BY <1>3, <1>4, UpToMore
<1> QED
  BY <1>1, <1>2, <1>7, <1>8, <1>9 DEF Before, Until

(* What is placed is the beginning of its message, one packet longer.      *)
LEMMA BeginningGrows ==
    ASSUME routed \subseteq Routable, \A p \in Known : HasPlace(p), Consecutive,
           InOrderPlaced, TickNoted, PlacedIsBeginning, PlacesIt
    PROVE  PlacedIsBeginning'
<1>1. PICK S : placed \in Seq(S)
  BY DEF InOrderPlaced
<1>2. PICK n, q, c : n = Len(placed) /\ q = placed' /\ c = cur
  OBVIOUS
<1>3. /\ n \in Nat /\ Len(q) = n + 1 /\ q[n + 1] = c
      /\ \A i \in 1..n : q[i] = placed[i]
  BY <1>1, <1>2, Appended
<1>4. place = "place" /\ c \in Known /\ c.seq = n
  BY <1>2 DEF PlacesIt, Known, TickNoted, InOrderPlaced
<1>5. HasPlace(c) /\ \A i \in 1..n : placed[i] \in Known /\ HasPlace(placed[i])
  BY <1>2, <1>4 DEF Known
<1> DEFINE s == [i \in 1..n |-> BytesOfPacket(placed[i])]
           t == [i \in 1..(n + 1) |-> BytesOfPacket(q[i])]
<1>6. Extends(t, s, n, BytesOfPacket(c), Bytes)
  <2>1. OfLength(s, n) /\ OfLength(t, n + 1)
    BY DEF OfLength
  <2>2. ASSUME NEW i \in 1..n PROVE s[i] \in Seq(Bytes) /\ t[i] = s[i]
    <3>1. i \in 1..(n + 1) /\ q[i] = placed[i]
      BY <1>3
    <3>2. BytesOfPacket(placed[i]) \in Seq(Bytes)
      BY <1>5, BytesBetween
    <3> QED
      BY <3>1, <3>2
  <2>3. t[n + 1] = BytesOfPacket(c)
    BY <1>3
  <2> QED
    BY <2>1, <2>2, <2>3 DEF Extends
<1>7. BytesPlaced = FlattenSeq(s) /\ BytesPlaced' = FlattenSeq(t)
  BY <1>2, <1>3 DEF BytesPlaced
<1>8. BytesOfPacket(c) \in Seq(Bytes)
  BY <1>5, BytesBetween
<1> HIDE DEF s, t
<1>9. /\ BytesPlaced' = BytesPlaced \o BytesOfPacket(c)
      /\ n = 0 => BytesPlaced = <<>>
  <2>1. PICK x, u, v : x = BytesOfPacket(c) /\ u = s /\ v = t
    OBVIOUS
  <2>2. x \in Seq(Bytes) /\ Extends(v, u, n, x, Bytes)
    BY <1>6, <1>8, <2>1
  <2>3. FlattenSeq(v) = FlattenSeq(u) \o x /\ (n = 0 => FlattenSeq(u) = <<>>)
    BY <1>3, <2>2, FlattenOneMore
  <2> QED
    BY <1>7, <2>1, <2>3
<1>10. Until(c) = Before(c) \o BytesOfPacket(c)
  BY <1>5, BytesBetween
<1>11. SUFFICES ASSUME \A i, j \in 1..(n + 1) : q[i].tick = q[j].tick
                PROVE  BytesPlaced = Before(c)
  BY <1>2, <1>3, <1>9, <1>10 DEF PlacedIsBeginning, OneTick
<1>12. CASE n = 0
  BY <1>4, <1>5, <1>9, <1>12 DEF HasPlace
<1>13. CASE n # 0
  <2>1. n \in 1..n /\ n \in 1..(n + 1) /\ n + 1 \in 1..(n + 1)
    BY <1>3, <1>13
  <2>2. placed[n] = q[n] /\ placed[n].tick = c.tick
    BY <1>3, <1>11, <2>1
  <2>3. placed[n].seq = n - 1 /\ placed[n].seq + 1 = c.seq
    BY <1>2, <1>3, <1>4, <2>1 DEF InOrderPlaced
  <2>4. Before(c) = Until(placed[n])
    BY <1>4, <1>5, <2>1, <2>2, <2>3 DEF Consecutive
  <2>5. OneTick
    <3>1. \A i \in 1..n : i \in 1..(n + 1) /\ placed[i] = q[i]
      BY <1>3
    <3> QED
      BY <1>2, <1>11, <3>1 DEF OneTick
  <2>6. placed # <<>>
    BY <1>2, <1>13
  <2>7. BytesPlaced = Until(placed[n])
    BY <1>2, <2>5, <2>6 DEF PlacedIsBeginning
  <2> QED
    BY <2>4, <2>7
<1> QED
  BY <1>12, <1>13

-----------------------------------------------------------------------------
(* Both, and the network between them.                                     *)

(* The sender goes on: what is known of the packets sent stays so.         *)
LEMMA QuietInd ==
    ASSUME IndInv, EEInv, SendNothing \/ UNCHANGED allVars
    PROVE  EEInv'
<1>1. UNCHANGED <<routed, net, received>> /\ (SendNothing \/ UNCHANGED vars)
  BY DEF SendNothing, allVars
<1>2. UNCHANGED <<stored, placed, place, cur, expectedSequence, packetTick, ret, last, tick>>
  BY <1>1 DEF received
<1>3. SenderCounts' /\ (StaysThere \/ BeginsAnother)
  BY <1>1, OthersStay DEF EEInv
<1>4. Known' = Known
  BY <1>1, <1>2 DEF Known
<1>5. ASSUME NEW p \in Known PROVE HasPlace(p)' /\ BehindSender(p)'
  <2>1. HasPlace(p) /\ BehindSender(p)
    BY DEF EEInv
  <2>2. p.buf[1] \in DOMAIN Messages /\ p.buf[1] \in Nat /\ message \in Nat
    <3>1. p.buf[1] \in DOMAIN Messages
      BY <2>1, EndToEndAssumption DEF HasPlace, EEInv
    <3> QED
      BY <3>1, LengthsAreInts DEF IndInv, TypeOK
  <2>3. HasPlace(p)'
    BY <1>1, <2>1 DEF HasPlace
  <2>4. CASE StaysThere
    BY <2>1, <2>2, <2>3, <2>4 DEF StaysThere, BehindSender
  <2>5. CASE BeginsAnother
    <3>1. p.buf[1] <= message' /\ p.buf[1] # message'
      BY <2>1, <2>2, <2>5 DEF BeginsAnother, BehindSender
    <3> QED
      BY <2>3, <3>1 DEF BehindSender
  <2> QED
    BY <1>3, <2>4, <2>5
<1>6. Consecutive'
  BY <1>4 DEF EEInv, Consecutive
<1>7. InOrderPlaced' /\ TickNoted' /\ EndsWithLast' /\ PlacedIsBeginning'
  BY <1>2 DEF EEInv, InOrderPlaced, TickNoted, EndsWithLast, PlacedIsBeginning, TickPlaced,
              OneTick, BytesPlaced
<1> QED
  BY <1>1, <1>3, <1>4, <1>5, <1>6, <1>7 DEF EEInv

(* A packet sent: its number is the next, and it begins where the one      *)
(* before it of the same message ends.                                     *)
LEMMA EmitInd ==
    ASSUME IndInv, EEInv, Emit
    PROVE  EEInv'
<1>1. PICK w : w = OnTheWire
  OBVIOUS
<1>2. /\ SendPacket /\ UNCHANGED <<routed, received>>
      /\ net' \subseteq net \union {w} /\ (message \notin routed => net' = net)
  BY <1>1 DEF Emit
<1>3. UNCHANGED <<stored, placed, place, cur, expectedSequence, packetTick, ret, last, tick>>
  BY <1>2 DEF received
<1>4. PICK from, len : from = ToInt(DataLen) - remainingBytes /\ len = BytesToWrite
  OBVIOUS
<1>5. /\ SenderCounts'
      /\ pc = "loop" /\ pc' = "loop" /\ message' = message
      /\ message \in DOMAIN Messages /\ buffer \in DOMAIN Messages[message]
      /\ packetCounter \in Nat
      /\ SentPackets = packetCounter /\ SentPackets' = packetCounter + 1
      /\ len \in Nat /\ from \in Nat
      /\ UpTo(message, buffer, from) = SentBytes
      /\ UpTo(message, buffer, from + len) = SentBytes'
      /\ packetCounter = 0 => SentBytes = <<>>
      /\ IsVeryLast => SentBytes' = BytesOfMessage(message)
  BY <1>2, <1>4, PacketFollows DEF EEInv
<1>6. /\ w.seq = packetCounter /\ w.last = IsVeryLast
      /\ w.buf = <<message, buffer>> /\ w.tick = TickOf[message]
      /\ w.from = from /\ w.len = len
  BY <1>1, <1>4, WireFields
<1>7. Before(w) = SentBytes /\ Until(w) = SentBytes' /\ w.buf[1] = message /\ w.buf[2] = buffer
  BY <1>5, <1>6 DEF Before, Until
<1>8. Known' \subseteq Known \union {w} /\ (message \notin routed => Known' = Known)
  BY <1>2, <1>3 DEF Known
<1>9. message \in Nat /\ buffer \in Nat
  BY <1>5, LengthsAreInts
<1>10. ASSUME message \in routed PROVE HasPlace(w)'
  <2>1. w.buf \in routed' \X Nat
    BY <1>2, <1>6, <1>9, <1>10
  <2> QED
    BY <1>5, <1>6, <1>7, <2>1 DEF HasPlace
<1>11. BehindSender(w)'
  BY <1>5, <1>6, <1>7, <1>9 DEF BehindSender
<1>12. ASSUME NEW p \in Known PROVE HasPlace(p)' /\ BehindSender(p)'
  <2>1. HasPlace(p) /\ BehindSender(p)
    BY DEF EEInv
  <2>2. HasPlace(p)'
    BY <1>2, <2>1 DEF HasPlace
  <2>3. BehindSender(p)'
    BY <1>5, <2>1 DEF BehindSender, HasPlace
  <2> QED
    BY <2>2, <2>3
<1>13. ASSUME NEW p \in Known, p.tick = w.tick, message \in routed
       PROVE  p.seq \in Nat /\ p.seq < packetCounter
              /\ (p.seq = packetCounter - 1 => Until(p) = SentBytes)
  <2>1. HasPlace(p) /\ BehindSender(p) /\ routed \subseteq Routable
    BY DEF EEInv
  <2>2. p.buf[1] = message
    BY <1>6, <1>13, <2>1, BytesBetween, EndToEndAssumption
  <2> QED
    BY <1>5, <2>1, <2>2 DEF HasPlace, BehindSender
<1>14. Consecutive'
  <2>1. SUFFICES ASSUME NEW p \in Known', NEW q \in Known', p.tick = q.tick, q.seq = p.seq + 1
                 PROVE  Before(q) = Until(p)
    BY DEF Consecutive
  <2>2. CASE p \in Known /\ q \in Known
    BY <2>1, <2>2 DEF EEInv, Consecutive
  <2>3. CASE p \in Known /\ q = w /\ message \in routed
    BY <1>5, <1>6, <1>7, <1>13, <2>1, <2>3
  <2>4. CASE p = w /\ q \in Known /\ message \in routed
    BY <1>5, <1>6, <1>13, <2>1, <2>4
  <2>5. CASE p = w /\ q = w
    BY <1>5, <1>6, <2>1, <2>5
  <2> QED
    BY <1>8, <2>2, <2>3, <2>4, <2>5
<1>15. InOrderPlaced' /\ TickNoted' /\ EndsWithLast' /\ PlacedIsBeginning'
  BY <1>3 DEF EEInv, InOrderPlaced, TickNoted, EndsWithLast, PlacedIsBeginning, TickPlaced,
              OneTick, BytesPlaced
<1>16. \A p \in Known' : HasPlace(p)' /\ BehindSender(p)'
  BY <1>8, <1>10, <1>11, <1>12
<1> QED
  BY <1>2, <1>5, <1>14, <1>15, <1>16 DEF EEInv

(* A step of the receiver or of the network.                               *)
LEMMA ReceiverInd ==
    ASSUME IndInv, EEInv, Receive \/ Lose
    PROVE  EEInv'
<1>1. ReceiverMoves /\ UNCHANGED <<vars, routed>>
  BY ReceiverSteps
<1>2. Known' \subseteq Known
  BY <1>1, NoneUnknown DEF EEInv
<1>3. UNCHANGED <<pc, message, buffer, offset, remainingBytes, packetCounter, veryLastPacket>>
  BY <1>1 DEF vars, callVars, loopVars
<1>4. ToInt(DataLen)' = ToInt(DataLen) /\ Buffers' = Buffers
  BY <1>3 DEF DataLen, Buffers, ToInt
<1>5. SentBytes' = SentBytes /\ SentPackets' = SentPackets
  BY <1>3, <1>4 DEF SentBytes, SentPackets
<1>6. SenderCounts'
  BY <1>3, <1>4, <1>5 DEF SenderCounts, EEInv
<1>7. ASSUME NEW p \in Known' PROVE HasPlace(p)' /\ BehindSender(p)'
  BY <1>1, <1>2, <1>3, <1>5 DEF EEInv, HasPlace, BehindSender
<1>8. Consecutive'
  BY <1>2 DEF EEInv, Consecutive
<1>9. InOrderPlaced' /\ TickNoted' /\ EndsWithLast'
  BY <1>1, ReceiverInOrder DEF EEInv
<1>10. PlacedIsBeginning'
  <2>1. CASE PlacesIt
    BY <2>1, BeginningGrows DEF EEInv
  <2>2. CASE placed' = placed
    BY <2>2 DEF EEInv, PlacedIsBeginning, OneTick, BytesPlaced
  <2> QED
    BY <1>1, <2>1, <2>2 DEF ReceiverMoves, ReadsOne, Drains, LoseOne
<1> QED
  BY <1>1, <1>6, <1>7, <1>8, <1>9, <1>10 DEF EEInv

(* The sender of the chain is Packetizer: what is proved of its packets    *)
(* holds here.                                                             *)
THEOREM SenderIsPacketizer == EESpec => Spec
<1>1. EEInit => Init
  BY DEF EEInit
<1>2. [EENext]_allVars => [Next]_vars
  <2>1. EENext => [Next]_vars
    BY DEF EENext, Emit, SendNothing, Receive, Lose, Next, Sender
  <2>2. UNCHANGED allVars => UNCHANGED vars
    BY DEF allVars
  <2> QED
    BY <2>1, <2>2
<1> QED
  BY <1>1, <1>2, PTL DEF EESpec, Spec

(* The inductive invariant holds throughout.                               *)
LEMMA ChainInd == EESpec => []EEInv
<1>1. EEInit => EEInv
  <2> SUFFICES ASSUME EEInit PROVE EEInv
    OBVIOUS
  <2>1. /\ net = {} /\ stored = {} /\ placed = <<>> /\ place = "read" /\ expectedSequence = 0
        /\ routed \subseteq Routable
    BY DEF EEInit, Receiver!InitCall
  <2>2. Known = {}
    BY <2>1 DEF Known
  <2>3. pc = "call" /\ message = 1 /\ buffer = 1 /\ offset = 0
    BY DEF EEInit, Init
  <2>4. SenderCounts
    <3>1. ASSUME message \in DOMAIN Messages
          PROVE  buffer \in 1..(Len(Buffers) + 1) /\ SentBytes = <<>>
      <4>1. Len(Messages[message]) \in Nat /\ UpTo(message, 1, 0) = <<>>
        BY <3>1, LengthsAreInts, WholeMessage
      <4> QED
        BY <2>3, <4>1 DEF Buffers, SentBytes
    <3> QED
      BY <2>3, <3>1 DEF SenderCounts
  <2>5. InOrderPlaced /\ TickNoted /\ EndsWithLast /\ PlacedIsBeginning
    <3>1. placed \in Seq({}) /\ Len(placed) = 0
      BY <2>1
    <3> QED
      BY <2>1, <3>1 DEF InOrderPlaced, TickNoted, EndsWithLast, PlacedIsBeginning
  <2> QED
    BY <2>1, <2>2, <2>4, <2>5 DEF EEInv, Consecutive
<1>2. IndInv /\ EEInv /\ [EENext]_allVars => EEInv'
  BY QuietInd, EmitInd, ReceiverInd DEF EENext
<1>3. EESpec => []IndInv
  BY SenderIsPacketizer, Inductive, PTL
<1> QED
  BY <1>1, <1>2, <1>3, PTL DEF EESpec

(* For any messages, MTUs, paths and routes, any buffer of the receiver,   *)
(* any number of losses and duplicates and any reordering: what the        *)
(* receiver reports as a finished message is byte for byte the message     *)
(* sent under that tick, unless it has mixed in another tick's packets.    *)
THEOREM ChainDelivers == EESpec => []DeliversWhatWasSent
<1>1. EEInv => DeliversWhatWasSent
  <2> SUFFICES ASSUME EEInv, place = "done", ret = "OK", last, OneTick
               PROVE  \E m \in routed :
                          /\ TickOf[m] = tick
                          /\ FlattenSeq([i \in 1..Len(placed) |-> BytesOfPacket(placed[i])])
                                 = BytesOfMessage(m)
    BY DEF DeliversWhatWasSent
  <2>1. Len(placed) > 0 /\ placed[Len(placed)].last /\ TickPlaced(tick)
    BY DEF EEInv, EndsWithLast
  <2>2. PICK n : n = Len(placed)
    OBVIOUS
  <2>3. n \in Nat /\ n \in 1..Len(placed)
    <3>1. n \in Nat
      BY <2>2 DEF EEInv, InOrderPlaced
    <3> QED
      BY <2>1, <2>2, <3>1
  <2>4. PICK p : p = placed[n]
    OBVIOUS
  <2>5. p \in Known /\ HasPlace(p)
    BY <2>3, <2>4 DEF EEInv, Known
  <2>6. p.tick = tick
    BY <2>1, <2>3, <2>4 DEF TickPlaced, OneTick
  <2>7. BytesPlaced = Until(p)
    <3>1. placed # <<>>
      BY <2>1
    <3> QED
      BY <2>2, <2>4, <3>1 DEF EEInv, PlacedIsBeginning
  <2>8. Until(p) = BytesOfMessage(p.buf[1])
    BY <2>1, <2>2, <2>4, <2>5 DEF HasPlace
  <2>9. p.buf[1] \in routed /\ TickOf[p.buf[1]] = tick
    BY <2>5, <2>6 DEF HasPlace
  <2> QED
    BY <2>7, <2>8, <2>9 DEF BytesPlaced
<1> QED
  BY <1>1, ChainInd, PTL
=============================================================================

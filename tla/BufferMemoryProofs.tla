------------------------- MODULE BufferMemoryProofs -------------------------
(***************************************************************************)
(* Proofs about BufferMemory, for any messages, buffers, readers and faults*)
(* of the network: what is in the buffer is where the routine believes it  *)
(* to be, in one call or two, and room for all packets is enough.          *)
(***************************************************************************)
EXTENDS BufferMemory, AssemblerProofs, WellFoundedInduction, SequenceTheorems

(* Numbers, and the recursion of BytesUpTo.                                *)

(* Any set of numbers that is not empty has a least one.                   *)
LEMMA LeastNumber ==
    ASSUME NEW T, T \subseteq Nat, T # {}
    PROVE  \E m \in T : \A k \in T : m <= k
<1>1. PICK m \in T : \A k \in T : <<k, m>> \notin {ss \in Nat \X Nat : ss[1] < ss[2]}
  BY NatLessThanWellFounded, WFMin DEF OpToRel
<1>2. \A k \in T : ~(k < m)
  BY <1>1
<1> QED
  BY <1>2

(* Induction over the numbers, for a set of them.                          *)
LEMMA NatInd ==
    ASSUME NEW S \in SUBSET Nat, 0 \in S, \A n \in S : n + 1 \in S
    PROVE  S = Nat
<1> DEFINE T == Nat \ S
<1>1. SUFFICES ASSUME T # {} PROVE FALSE
  OBVIOUS
<1>2. PICK m \in T : \A k \in T : m <= k
  BY <1>1, LeastNumber
<1>3. m # 0 /\ m \in Nat /\ m \notin S
  OBVIOUS
<1>4. m - 1 \in S
  BY <1>2, <1>3
<1> QED
  BY <1>3, <1>4

(* Multiples are in the order of their factors.                            *)
LEMMA Multiples ==
    ASSUME NEW a \in Nat, NEW b \in Nat, NEW s \in Nat, a <= b
    PROVE  a * s <= b * s /\ a * s \in Nat /\ (a + 1) * s = a * s + s
OBVIOUS

(* The recursion of BytesUpTo, for the first n of s.                       *)
SumFun(f, s, n) == f = [i \in 0..n |-> IF i = 0 THEN 0 ELSE f[i - 1] + s[i].len]

(* It has a solution, so BytesUpTo unfolds.                                *)
LEMMA SumFunExists ==
    ASSUME NEW s, NEW N \in Nat
    PROVE  \E f : SumFun(f, s, N)
<1> DEFINE S == {n \in Nat : \E f : SumFun(f, s, n)}
<1>1. 0 \in S
  <2> DEFINE f == [i \in 0..0 |-> 0]
  <2>1. f = [i \in 0..0 |-> IF i = 0 THEN 0 ELSE f[i - 1] + s[i].len]
    OBVIOUS
  <2>2. SumFun(f, s, 0)
    BY <2>1 DEF SumFun
  <2> QED
    BY <2>2
<1>2. ASSUME NEW n \in S PROVE n + 1 \in S
  <2>1. PICK f : SumFun(f, s, n)
    OBVIOUS
  <2>2. n \in Nat
    OBVIOUS
  <2>3. PICK x : x = f[n] + s[n + 1].len
    OBVIOUS
  <2> DEFINE g == [i \in 0..(n + 1) |-> IF i = n + 1 THEN x ELSE f[i]]
             h == [i \in 0..(n + 1) |-> IF i = 0 THEN 0 ELSE g[i - 1] + s[i].len]
  <2>4. ASSUME NEW i \in 0..(n + 1) PROVE g[i] = h[i]
    <3>1. CASE i = n + 1
      <4>1. g[i] = x /\ i # 0
        BY <2>2, <3>1
      <4>2. n \in 0..(n + 1) /\ n # n + 1 /\ i - 1 = n
        BY <2>2, <3>1
      <4>3. g[n] = f[n]
        BY <4>2
      <4> QED
        BY <2>3, <3>1, <4>1, <4>2, <4>3
    <3>2. CASE i # n + 1
      <4>1. i \in 0..n
        BY <2>2, <3>2
      <4>2. f[i] = IF i = 0 THEN 0 ELSE f[i - 1] + s[i].len
        BY <2>1, <4>1 DEF SumFun
      <4>3. i # 0 => i - 1 \in 0..(n + 1) /\ i - 1 # n + 1
        BY <2>2, <4>1
      <4>4. i # 0 => g[i - 1] = f[i - 1]
        BY <4>3
      <4> QED
        BY <3>2, <4>2, <4>4
    <3> QED
      BY <3>1, <3>2
  <2>5. g = h
    BY <2>4
  <2>6. SumFun(g, s, n + 1)
    BY <2>5 DEF SumFun
  <2> QED
    BY <2>2, <2>6
<1> HIDE DEF S
<1>3. S \in SUBSET Nat
  BY DEF S
<1>4. S = Nat
  BY <1>1, <1>2, <1>3, NatInd
<1> QED
  BY <1>4 DEF S

(* A sequence of packets with lengths.                                     *)
Measured(s) == (\E S : s \in Seq(S)) /\ \A i \in 1..Len(s) : s[i].len \in Nat

(* Each packet ends where the next one begins.                             *)
LEMMA Sums ==
    ASSUME NEW s, Measured(s)
    PROVE  /\ Len(s) \in Nat
           /\ BytesUpTo(s)[0] = 0
           /\ \A n \in 1..Len(s) : BytesUpTo(s)[n] = BytesUpTo(s)[n - 1] + s[n].len
           /\ \A n \in 0..Len(s) : BytesUpTo(s)[n] \in Nat
<1> DEFINE N == Len(s)
<1>1. N \in Nat
  BY DEF Measured
<1>2. SumFun(BytesUpTo(s), s, N)
  <2> DEFINE F == CHOOSE f : f = [n \in 0..N |-> IF n = 0 THEN 0 ELSE f[n - 1] + s[n].len]
  <2>1. \E f : SumFun(f, s, N)
    BY <1>1, SumFunExists
  <2>2. SumFun(F, s, N)
    BY <2>1 DEF SumFun
  <2>3. BytesUpTo(s) = F
    BY DEF BytesUpTo
  <2> QED
    BY <2>2, <2>3
<1>3. PICK B : B = BytesUpTo(s)
  OBVIOUS
<1>4. \A n \in 0..N : B[n] = IF n = 0 THEN 0 ELSE B[n - 1] + s[n].len
  BY <1>2, <1>3 DEF SumFun
<1>5. B[0] = 0 /\ \A n \in 1..N : B[n] = B[n - 1] + s[n].len
  BY <1>1, <1>4
<1> DEFINE S == {n \in Nat : n <= N => B[n] \in Nat}
<1>6. 0 \in S
  BY <1>5
<1>7. ASSUME NEW n \in S PROVE n + 1 \in S
  <2>1. SUFFICES ASSUME n + 1 <= N PROVE B[n + 1] \in Nat
    OBVIOUS
  <2>2. n + 1 \in 1..N /\ B[n] \in Nat /\ (n + 1) - 1 = n
    BY <1>1, <2>1
  <2>3. s[n + 1].len \in Nat
    BY <2>2 DEF Measured
  <2>4. B[n + 1] = B[n] + s[n + 1].len
    BY <1>5, <2>2
  <2> QED
    BY <2>2, <2>3, <2>4
<1>8. S = Nat
  <2> HIDE DEF S
  <2>1. S \in SUBSET Nat
    BY DEF S
  <2> QED
    BY <1>6, <1>7, <2>1, NatInd
<1>9. \A n \in 0..N : B[n] \in Nat
  BY <1>1, <1>8
<1> QED
  BY <1>1, <1>3, <1>5, <1>9

(* A packet more at the end leaves the others where they are.              *)
LEMMA SumOneMore ==
    ASSUME NEW s, Measured(s), NEW x, x.len \in Nat
    PROVE  /\ Measured(Append(s, x))
           /\ Len(Append(s, x)) = Len(s) + 1
           /\ \A n \in 0..Len(s) : BytesUpTo(Append(s, x))[n] = BytesUpTo(s)[n]
           /\ BytesUpTo(Append(s, x))[Len(s) + 1] = BytesUpTo(s)[Len(s)] + x.len
<1>1. PICK t : t = Append(s, x)
  OBVIOUS
<1>2. PICK N : N = Len(s) /\ N \in Nat
  BY Sums
<1>3. PICK S : s \in Seq(S)
  BY DEF Measured
<1>4. s \in Seq(S \union {x}) /\ x \in S \union {x}
  BY <1>3
<1>5. /\ t \in Seq(S \union {x}) /\ Len(t) = N + 1
      /\ t[N + 1] = x /\ \A i \in 1..N : t[i] = s[i]
  BY <1>1, <1>2, <1>4
<1>6. Measured(t)
  <2>1. \A i \in 1..Len(t) : t[i].len \in Nat
    BY <1>2, <1>5 DEF Measured
  <2> QED
    BY <1>5, <2>1 DEF Measured
<1>7. PICK B : B = BytesUpTo(s) /\ B[0] = 0 /\ \A n \in 1..N : B[n] = B[n - 1] + s[n].len
  <2>1. BytesUpTo(s)[0] = 0 /\ \A n \in 1..Len(s) : BytesUpTo(s)[n] = BytesUpTo(s)[n - 1] + s[n].len
    BY Sums
  <2> QED
    BY <1>2, <2>1
<1>8. PICK C : C = BytesUpTo(t) /\ C[0] = 0 /\ \A n \in 1..(N + 1) : C[n] = C[n - 1] + t[n].len
  <2>1. BytesUpTo(t)[0] = 0 /\ \A n \in 1..Len(t) : BytesUpTo(t)[n] = BytesUpTo(t)[n - 1] + t[n].len
    BY <1>6, Sums
  <2> QED
    BY <1>5, <2>1
<1> DEFINE T == {n \in Nat : n <= N => C[n] = B[n]}
<1>9. 0 \in T
  BY <1>7, <1>8
<1>10. ASSUME NEW n \in T PROVE n + 1 \in T
  <2>1. SUFFICES ASSUME n + 1 <= N PROVE C[n + 1] = B[n + 1]
    OBVIOUS
  <2>2. n + 1 \in 1..N /\ n + 1 \in 1..(N + 1) /\ C[n] = B[n] /\ (n + 1) - 1 = n
    BY <1>2, <2>1
  <2>3. C[n + 1] = C[n] + t[n + 1].len /\ B[n + 1] = B[n] + s[n + 1].len
    BY <1>7, <1>8, <2>2
  <2> QED
    BY <1>5, <2>2, <2>3
<1>11. T = Nat
  <2> HIDE DEF T
  <2>1. T \in SUBSET Nat
    BY DEF T
  <2> QED
    BY <1>9, <1>10, <2>1, NatInd
<1>12. \A n \in 0..N : C[n] = B[n]
  BY <1>2, <1>11
<1>13. C[N + 1] = B[N] + x.len
  <2>1. N + 1 \in 1..(N + 1) /\ (N + 1) - 1 = N /\ N \in 0..N
    BY <1>2
  <2>2. C[N + 1] = C[N] + t[N + 1].len
    BY <1>8, <2>1
  <2> QED
    BY <1>5, <1>12, <2>1, <2>2
<1> QED
  BY <1>1, <1>2, <1>5, <1>6, <1>7, <1>8, <1>12, <1>13

(* A packet's data are before the end of what is placed.                   *)
LEMMA SumsGrow ==
    ASSUME NEW s, Measured(s), NEW n \in 1..Len(s)
    PROVE  BytesUpTo(s)[n - 1] + s[n].len <= BytesUpTo(s)[Len(s)]
<1>1. PICK N : N = Len(s) /\ N \in Nat
  BY Sums
<1>2. PICK B : /\ B = BytesUpTo(s)
               /\ \A i \in 1..N : B[i] = B[i - 1] + s[i].len
               /\ \A i \in 0..N : B[i] \in Nat
  BY <1>1, Sums
<1> DEFINE T == {k \in Nat : (n + k) \in n..N => B[n] <= B[n + k]}
<1>3. 0 \in T
  BY <1>1, <1>2
<1>4. ASSUME NEW k \in T PROVE k + 1 \in T
  <2>1. SUFFICES ASSUME n + (k + 1) <= N PROVE B[n] <= B[n + (k + 1)]
    OBVIOUS
  <2>2. PICK m : m = n + k /\ m + 1 = n + (k + 1) /\ m \in 0..N /\ m + 1 \in 1..N /\ m \in n..N
    BY <1>1, <2>1
  <2>3. B[n] <= B[m]
    BY <2>2
  <2>4. B[m + 1] = B[m] + s[m + 1].len
    <3>1. (m + 1) - 1 = m
      BY <2>2
    <3> QED
      BY <1>2, <2>2, <3>1
  <2>5. s[m + 1].len \in Nat /\ B[n] \in Nat /\ B[m] \in Nat
    <3>1. n \in 0..N
      BY <1>1
    <3> QED
      BY <1>1, <1>2, <2>2, <3>1 DEF Measured
  <2>6. PICK u, v, x, y : u = B[n] /\ v = B[m] /\ x = s[m + 1].len /\ y = B[m + 1]
    OBVIOUS
  <2>7. u \in Nat /\ v \in Nat /\ x \in Nat /\ u <= v /\ y = v + x
    BY <2>3, <2>4, <2>5, <2>6
  <2>8. u <= y
    BY <2>7
  <2> QED
    BY <2>2, <2>6, <2>8
<1>5. T = Nat
  <2> HIDE DEF T
  <2>1. T \in SUBSET Nat
    BY DEF T
  <2> QED
    BY <1>3, <1>4, <2>1, NatInd
<1>6. B[n] <= B[N]
  <2>1. N - n \in Nat /\ n + (N - n) = N /\ N \in n..N
    BY <1>1
  <2> QED
    BY <1>5, <2>1
<1> QED
  BY <1>1, <1>2, <1>6

-----------------------------------------------------------------------------
(* The inductive invariant.                                                *)

(* The fast routine counts the header with the data.                       *)
HeaderRoom == IF reader = "fast" THEN HeaderBytes ELSE 0

Byte == (Ticks \union {NoTick}) \X Int \X Nat

(* A packet as the routine has it: what was sent, but for the length that  *)
(* the fast routine gives those it received directly.                      *)
Held(q) ==
    /\ q.tick \in Ticks
    /\ q.seq \in 0..(NumPackets[q.tick] - 1)
    /\ q.last \in BOOLEAN /\ (q.last <=> q.seq = NumPackets[q.tick] - 1)
    /\ q.len \in Nat /\ q.len <= Payload + HeaderRoom
    /\ IF q.seq \in direct THEN HeaderBytes <= q.len ELSE q.len \in 1..Payload
    /\ reader # "fast" => q \in Sent

(* The variables' types.                                                   *)
Typed ==
    /\ GBTypeOK
    /\ reader \in Readers /\ (reader = "fast" => noCopy)
    /\ net \subseteq Sent
    /\ veryFirstRead \in BOOLEAN /\ firstReadForBuf \in BOOLEAN /\ last \in BOOLEAN
    /\ bufLen \in Nat /\ remainingLen \in Nat /\ totalBytesRead \in Nat
    /\ maxPacketBytes \in 0..Payload
    /\ memory \in Seq(Byte)

(* The packets: those placed are numbered in order, that in hand is next,  *)
(* and those stored come later, each with its bytes.                       *)
InOrder ==
    /\ \E S : placed \in Seq(S)
    /\ expectedSequence = Len(placed)
    /\ \A i \in 1..Len(placed) : placed[i].seq = i - 1 /\ Held(placed[i])
    /\ pc = "place" => cur.seq = expectedSequence /\ Held(cur) /\ packetTick \in Ticks
    /\ pc = "drain" => packetTick \in Ticks

Early ==
    /\ \A q \in stored : Held(q)
    /\ \A q, r \in stored : q.seq = r.seq => q = r
    /\ (pc \in {"read", "place"} \/ Returned) => \A q \in stored : q.seq > expectedSequence
    /\ pc = "drain" => \A q \in stored : q.seq >= expectedSequence
    /\ DOMAIN saved = {q.seq : q \in stored}
    /\ \A q \in stored : saved[q.seq] \in Seq(Byte) /\ Len(saved[q.seq]) = q.len

Directs ==
    /\ \A s \in direct : \/ s \in 0..(expectedSequence - 1)
                         \/ s = expectedSequence /\ pc \in {"place", "overrun"}
                         \/ \E q \in stored : q.seq = s
    /\ 0 \notin direct
    /\ reader # "fast" => direct = {}

(* The room: the buffer ends where the room left does, and what is placed  *)
(* begins at its beginning.                                                *)
Room ==
    /\ totalBytesRead + remainingLen = bufLen
    /\ PlacedBytes \in Nat
    /\ stage = "start" => InitCall /\ memory = <<>>
    /\ stage \in {"start", "calling"} => ~userBuf
    /\ noCopy /\ stage \in {"start", "calling"} => totalBytes = 0
    /\ stage \in {"start", "calling"} => PutDataAt = PlacedBytes
    /\ stage = "calling" => Len(memory) = totalBytes + bufLen
    /\ (stage = "calling" /\ ~noCopy) =>
           /\ dataBufLen = Len(memory) /\ remaningBytes = bufLen
           /\ veryFirstRead => dataBufLen \in InitialLens
    /\ stage # "start" => PlacedBytes <= Len(memory)
    /\ pc = "place" => cur.len <= remainingLen
    /\ (reader = "fast" /\ placed # <<>>) => totalBytesRead > 0

(* The second call: it takes no packet for the message's first and so never*)
(* finds the buffer too short to go on.                                    *)
Calls ==
    /\ pc \in {"read", "drain"} => ~firstReadForBuf
    /\ (pc = "place" /\ firstReadForBuf) => expectedSequence = 0
    /\ ~veryFirstRead =>
           /\ expectedSequence > 0
           /\ maxPacketBytes = 0
           /\ Returned => last

(* The bytes at hand.                                                      *)
HasData(bytes, at, q) ==
    \A k \in 1..DataIn(q) : bytes[at + k] = <<q.tick, q.seq, k>>

Intact ==
    /\ pc # "overrun" => \A n \in 1..Len(placed) : HasData(memory, StartOf(n), placed[n])
    /\ pc = "place" => HasData(memory, PutDataAt, cur)
    /\ \A q \in stored : HasData(saved[q.seq], 0, q)

(* What is returned.                                                       *)
Codes == ret \in {"OK"} \union DOMAIN ErrorValue

Ends ==
    /\ Returned => /\ placed # <<>>
                   /\ last <=> placed[Len(placed)].last
                   /\ tick \in Ticks
    /\ Filled => Returned /\ last /\ reader # "fast" /\ totalBytes = PlacedBytes

(* The room that the packets placed have taken.                            *)
Sized ==
    /\ PlacedBytes <= Len(placed) * (Payload + HeaderRoom)
    /\ (pc = "read" /\ placed # <<>>) => \E t \in Ticks : Len(placed) < NumPackets[t]

BMInv ==
    /\ Typed /\ InOrder /\ Early /\ Directs
    /\ Room /\ Calls /\ Intact /\ Ends /\ Sized /\ AmpleRoomSuffices

-----------------------------------------------------------------------------
(* The bytes of the buffer.                                                *)

(* n bytes of data.                                                        *)
LEMMA DataIsBytes ==
    ASSUME NEW p, p.tick \in Ticks, p.seq \in Int, NEW n \in Nat
    PROVE  DataOf(p, n) \in Seq(Byte) /\ Len(DataOf(p, n)) = n
<1>1. \A k \in 1..n : <<p.tick, p.seq, k>> \in Byte
  BY DEF Byte
<1>2. DataOf(p, n) \in [1..n -> Byte]
  BY <1>1 DEF DataOf
<1> QED
  BY <1>2

(* n bytes of nothing.                                                     *)
LEMMA JunkIsBytes ==
    ASSUME NEW n \in Nat
    PROVE  [k \in 1..n |-> Junk] \in Seq(Byte) /\ Len([k \in 1..n |-> Junk]) = n
<1>1. Junk \in Byte
  BY DEF Junk, Byte
<1>2. [k \in 1..n |-> Junk] \in [1..n -> Byte]
  BY <1>1
<1> QED
  BY <1>2

(* A copy leaves what is before it, and is found where it was put.         *)
LEMMA CopiedKeeps ==
    ASSUME NEW S, NEW mem \in Seq(S), NEW at \in Nat, NEW bytes \in Seq(S)
    PROVE  /\ Copied(mem, at, bytes) \in Seq(S)
           /\ Len(Copied(mem, at, bytes)) = Len(mem)
           /\ \A j \in 1..Len(mem) : j <= at => Copied(mem, at, bytes)[j] = mem[j]
           /\ \A k \in 1..Len(bytes) :
                  at + k <= Len(mem) => Copied(mem, at, bytes)[at + k] = bytes[k]
<1>1. DOMAIN mem = 1..Len(mem) /\ DOMAIN bytes = 1..Len(bytes) /\ Len(mem) \in Nat /\ Len(bytes) \in Nat
  OBVIOUS
<1>2. PICK c : c = Copied(mem, at, bytes)
  OBVIOUS
<1>3. c = [j \in 1..Len(mem) |-> IF j - at \in 1..Len(bytes) THEN bytes[j - at] ELSE mem[j]]
  BY <1>1, <1>2 DEF Copied
<1>4. ASSUME NEW j \in 1..Len(mem) PROVE c[j] \in S
  BY <1>3
<1>5. c \in [1..Len(mem) -> S]
  BY <1>3, <1>4
<1>6. c \in Seq(S) /\ Len(c) = Len(mem)
  BY <1>1, <1>5
<1>7. ASSUME NEW j \in 1..Len(mem), j <= at PROVE c[j] = mem[j]
  <2>1. j - at \notin 1..Len(bytes)
    BY <1>7
  <2> QED
    BY <1>3, <2>1
<1>8. ASSUME NEW k \in 1..Len(bytes), at + k <= Len(mem) PROVE c[at + k] = bytes[k]
  <2>1. at + k \in 1..Len(mem) /\ (at + k) - at = k
    BY <1>1, <1>8
  <2> QED
    BY <1>3, <2>1
<1> QED
  BY <1>2, <1>6, <1>7, <1>8

(* What is placed is left alone, and so is the length of the buffer.       *)
KeepsData == \A j \in 1..PlacedBytes : memory'[j] = memory[j]

KeepsPlaced == memory' \in Seq(Byte) /\ Len(memory') = Len(memory) /\ KeepsData

(* Whatever is copied behind it.                                           *)
LEMMA CopyKeepsPlaced ==
    ASSUME BMInv, stage = "calling", NEW bytes \in Seq(Byte),
           memory' = Copied(memory, PutDataAt, bytes)
    PROVE  /\ KeepsPlaced
           /\ \A k \in 1..Len(bytes) :
                  PutDataAt + k <= Len(memory) => memory'[PutDataAt + k] = bytes[k]
<1>1. memory \in Seq(Byte) /\ PutDataAt = PlacedBytes /\ PutDataAt \in Nat /\ PlacedBytes <= Len(memory)
  BY DEF BMInv, Typed, Room
<1>2. PICK at : at = PutDataAt
  OBVIOUS
<1>3. at \in Nat /\ memory' = Copied(memory, at, bytes)
  BY <1>1, <1>2
<1>4. /\ memory' \in Seq(Byte) /\ Len(memory') = Len(memory)
      /\ \A j \in 1..Len(memory) : j <= at => memory'[j] = memory[j]
      /\ \A k \in 1..Len(bytes) : at + k <= Len(memory) => memory'[at + k] = bytes[k]
  BY <1>1, <1>3, CopiedKeeps
<1>5. \A j \in 1..PlacedBytes : j \in 1..Len(memory) /\ j <= at
  BY <1>1, <1>2
<1>6. KeepsPlaced
  BY <1>4, <1>5 DEF KeepsPlaced, KeepsData
<1> QED
  BY <1>2, <1>4, <1>6

(* A packet held stays what it is as long as it is not made a direct one.  *)
SameWay(q) == q.seq \in direct' <=> q.seq \in direct

LEMMA HeldStays ==
    ASSUME NEW q, Held(q), SameWay(q), reader' = reader
    PROVE  Held(q)' /\ DataIn(q)' = DataIn(q)
BY DEF Held, SameWay, HeaderRoom, DataIn

(* The packets placed, and where they begin, for BytesUpTo.                *)
LEMMA PlacedMeasured ==
    ASSUME InOrder
    PROVE  /\ Measured(placed) /\ Len(placed) \in Nat
           /\ \A n \in 1..Len(placed) : StartOf(n) \in Nat
           /\ \A n \in 1..Len(placed) : /\ placed[n].len \in Nat
                                        /\ StartOf(n) + placed[n].len <= PlacedBytes
           /\ PlacedBytes \in Nat
<1>1. Measured(placed)
  BY DEF InOrder, Held, Measured
<1>2. Len(placed) \in Nat /\ \A n \in 0..Len(placed) : BytesUpTo(placed)[n] \in Nat
  BY <1>1, Sums
<1>3. \A n \in 1..Len(placed) : n - 1 \in 0..Len(placed)
  BY <1>2
<1>4. \A n \in 1..Len(placed) : StartOf(n) \in Nat
  BY <1>2, <1>3 DEF StartOf
<1>5. \A n \in 1..Len(placed) : StartOf(n) + placed[n].len <= PlacedBytes
  BY <1>1, SumsGrow DEF StartOf, PlacedBytes
<1>6. PlacedBytes \in Nat
  <2>1. Len(placed) \in 0..Len(placed)
    BY <1>2
  <2> QED
    BY <1>2, <2>1 DEF PlacedBytes
<1>7. \A n \in 1..Len(placed) : placed[n].len \in Nat
  BY <1>1 DEF Measured
<1> QED
  BY <1>1, <1>2, <1>4, <1>5, <1>6, <1>7

(* A packet has no more data than it is long.                              *)
LEMMA DataInLen ==
    ASSUME NEW q, Held(q)
    PROVE  DataIn(q) \in Nat /\ DataIn(q) <= q.len /\ q.len \in Nat
<1>1. HeaderBytes \in Nat
  BY AssemblerAssumption
<1> QED
  BY <1>1 DEF Held, DataIn

(* The data of what is placed stay in the buffer.                          *)
LEMMA DataStays ==
    ASSUME BMInv, pc # "overrun", KeepsData, placed' = placed, reader' = reader,
           \A n \in 1..Len(placed) : SameWay(placed[n])
    PROVE  /\ \A n \in 1..Len(placed) : Held(placed[n])'
           /\ \A n \in 1..Len(placed) : HasData(memory, StartOf(n), placed[n])'
<1>1. InOrder
  BY DEF BMInv
<1> SUFFICES ASSUME NEW n \in 1..Len(placed)
             PROVE  Held(placed[n])' /\ HasData(memory, StartOf(n), placed[n])'
  OBVIOUS
<1>2. PICK q : q = placed[n] /\ q = placed'[n]
  OBVIOUS
<1>3. Held(q) /\ SameWay(q)
  BY <1>1, <1>2 DEF InOrder
<1>4. Held(q)' /\ DataIn(q)' = DataIn(q)
  BY <1>3, HeldStays
<1>5. Held(placed[n])'
  BY <1>2, <1>4 DEF Held
<1>6. PICK at : at = StartOf(n) /\ at = StartOf(n)' /\ at \in Nat /\ at + q.len <= PlacedBytes
  BY <1>1, <1>2, PlacedMeasured DEF StartOf
<1>7. DataIn(q) \in Nat /\ DataIn(q) <= q.len /\ q.len \in Nat /\ PlacedBytes \in Nat
  BY <1>1, <1>3, DataInLen, PlacedMeasured
<1>8. ASSUME NEW k \in 1..DataIn(q) PROVE memory'[at + k] = <<q.tick, q.seq, k>>
  <2>1. at + k \in 1..PlacedBytes
    BY <1>6, <1>7
  <2>2. memory[at + k] = <<q.tick, q.seq, k>>
    BY <1>2, <1>6 DEF BMInv, Intact, HasData
  <2> QED
    BY <2>1, <2>2 DEF KeepsData
<1>9. HasData(memory, StartOf(n), placed[n])'
  <2>1. DataIn(placed[n])' = DataIn(q)
    BY <1>2, <1>4 DEF DataIn
  <2> QED
    BY <1>2, <1>6, <1>8, <2>1 DEF HasData
<1> QED
  BY <1>5, <1>9

LEMMA PlacedStays ==
    ASSUME BMInv, pc # "overrun", KeepsPlaced, placed' = placed, reader' = reader,
           \A n \in 1..Len(placed) : SameWay(placed[n])
    PROVE  /\ \A n \in 1..Len(placed) : Held(placed[n])'
           /\ \A n \in 1..Len(placed) : HasData(memory, StartOf(n), placed[n])'
<1>1. KeepsData
  BY DEF KeepsPlaced
<1> QED
  BY <1>1, DataStays

-----------------------------------------------------------------------------
(* Receiving a packet.                                                     *)

(* The constants.                                                          *)
LEMMA Sizes ==
    /\ Payload \in Nat \ {0} /\ HeaderBytes \in Nat /\ Two32 \in Nat \ {0}
    /\ \A t \in Ticks : NumPackets[t] \in Nat \ {0}
    /\ HeaderRoom \in Nat
<1>1. Payload \in Nat \ {0} /\ HeaderBytes \in Nat /\ Two32 \in Nat \ {0}
  BY AssemblerAssumption
<1>2. \A t \in Ticks : NumPackets[t] \in Nat \ {0}
  BY AssemblerAssumption
<1> QED
  BY <1>1, <1>2 DEF HeaderRoom

(* A packet sent.                                                          *)
LEMMA SentTyped ==
    ASSUME NEW p \in Sent
    PROVE  /\ p.tick \in Ticks /\ p.seq \in Nat /\ p.seq \in Int
           /\ p.seq \in 0..(NumPackets[p.tick] - 1)
           /\ p.last \in BOOLEAN /\ (p.last <=> p.seq = NumPackets[p.tick] - 1)
           /\ p.len \in 1..Payload /\ p.len \in Nat
<1>1. /\ p.tick \in Ticks /\ p.seq \in 0..(NumPackets[p.tick] - 1)
      /\ p.last \in BOOLEAN /\ (p.last <=> p.seq = NumPackets[p.tick] - 1)
      /\ p.len \in 1..Payload
  BY SentFields
<1>2. p.seq \in Nat /\ p.seq \in Int /\ p.len \in Nat
  BY <1>1, Sizes
<1> QED
  BY <1>1, <1>2

(* The same packet, with another length.                                   *)
LEMMA HandedFields ==
    ASSUME NEW p \in Sent, NEW q, q = Handed(p)
    PROVE  /\ q.tick = p.tick /\ q.seq = p.seq /\ q.last = p.last
           /\ q.len = NBytes(p)
           /\ NBytes(p) = p.len => q = p
<1>1. p = Packet(p.tick, p.seq)
  BY SentFields
<1> QED
  BY <1>1 DEF Handed, Packet

(* How long it is taken to be, and how much data it has then.              *)
LEMMA NBytesFit ==
    ASSUME BMInv, NEW p \in Sent, Fits(p)
    PROVE  /\ NBytes(p) \in Nat /\ DataBytes(p) \in Nat
           /\ DataBytes(p) <= NBytes(p)
           /\ NBytes(p) <= remainingLen
           /\ NBytes(p) <= Payload + HeaderRoom
           /\ Directly => HeaderBytes <= NBytes(p) /\ DataBytes(p) = NBytes(p) - HeaderBytes
           /\ ~Directly => NBytes(p) = p.len /\ DataBytes(p) = p.len
<1>1. remainingLen \in Nat /\ reader \in Readers
  BY DEF BMInv, Typed
<1>2. p.len \in 1..Payload /\ Payload \in Nat /\ HeaderBytes \in Nat /\ HeaderRoom \in Nat
  BY SentTyped, Sizes
<1>3. CASE Directly
  <2>1. NBytes(p) = Smaller(p.len + HeaderBytes, remainingLen) /\ DataBytes(p) = NBytes(p) - HeaderBytes
    BY <1>3 DEF NBytes, DataBytes
  <2>2. HeaderBytes <= remainingLen
    BY <1>3 DEF Fits, Directly, ThroughArray
  <2>3. HeaderRoom = HeaderBytes
    BY <1>3 DEF HeaderRoom, Directly
  <2>4. NBytes(p) = p.len + HeaderBytes \/ NBytes(p) = remainingLen
    BY <2>1 DEF Smaller
  <2>5. NBytes(p) <= p.len + HeaderBytes /\ NBytes(p) <= remainingLen
    BY <1>1, <1>2, <2>1 DEF Smaller
  <2> QED
    BY <1>1, <1>2, <1>3, <2>1, <2>2, <2>3, <2>4, <2>5
<1>4. CASE ~Directly
  <2>1. NBytes(p) = p.len /\ DataBytes(p) = p.len
    BY <1>4 DEF NBytes, DataBytes
  <2>2. p.len <= remainingLen
    BY <1>1, <1>2, <1>4 DEF Fits
  <2> QED
    BY <1>2, <1>4, <2>1, <2>2
<1> QED
  BY <1>3, <1>4

(* The data are put behind what is placed, and fit there.                  *)
LEMMA ReceiveKeeps ==
    ASSUME BMInv, NEW p \in net, Receive(p)
    PROVE  /\ p \in Sent /\ pc = "read" /\ stage = "calling" /\ net' \subseteq Sent
           /\ KeepsPlaced
           /\ PutDataAt \in Nat /\ PutDataAt + NBytes(p) <= Len(memory)
           /\ \A k \in 1..DataBytes(p) : memory'[PutDataAt + k] = <<p.tick, p.seq, k>>
<1>1. net \subseteq Sent /\ memory \in Seq(Byte) /\ remainingLen \in Nat
      /\ totalBytes \in Nat /\ totalBytesRead \in Nat /\ bufLen \in Nat
  BY DEF BMInv, Typed, GBTypeOK
<1>2. /\ p \in Sent /\ pc = "read" /\ stage = "calling" /\ net' \subseteq Sent /\ Fits(p)
      /\ memory' = After(p)
  BY <1>1 DEF Receive, Arrive
<1>3. Len(memory) = PutDataAt + remainingLen /\ PutDataAt \in Nat
  BY <1>1, <1>2 DEF BMInv, Room, PutDataAt
<1>4. NBytes(p) \in Nat /\ DataBytes(p) \in Nat /\ DataBytes(p) <= NBytes(p) /\ NBytes(p) <= remainingLen
  BY <1>2, NBytesFit
<1> DEFINE data == DataOf(p, DataBytes(p))
           more == IF ThroughArray THEN HeaderBytes ELSE 0
           junk == [k \in 1..more |-> Junk]
           bytes == data \o junk
<1>5. data \in Seq(Byte) /\ Len(data) = DataBytes(p)
  BY <1>2, <1>4, SentTyped, DataIsBytes
<1>6. junk \in Seq(Byte)
  <2>1. more \in Nat
    BY Sizes
  <2> HIDE DEF more
  <2> QED
    BY <2>1, JunkIsBytes
<1>7. memory' = Copied(memory, PutDataAt, bytes)
  BY <1>2 DEF After
<1> HIDE DEF data, junk, more
<1>8. bytes \in Seq(Byte) /\ \A k \in 1..DataBytes(p) : k \in 1..Len(bytes) /\ bytes[k] = data[k]
  BY <1>4, <1>5, <1>6
<1> HIDE DEF bytes
<1>9. /\ KeepsPlaced
      /\ \A k \in 1..Len(bytes) :
             PutDataAt + k <= Len(memory) => memory'[PutDataAt + k] = bytes[k]
  BY <1>2, <1>7, <1>8, CopyKeepsPlaced
<1>10. ASSUME NEW k \in 1..DataBytes(p) PROVE memory'[PutDataAt + k] = <<p.tick, p.seq, k>>
  <2>1. PutDataAt + k <= Len(memory)
    <3>1. k <= remainingLen /\ k \in Nat
      BY <1>1, <1>4
    <3> QED
      BY <1>1, <1>3, <3>1
  <2>2. data[k] = <<p.tick, p.seq, k>>
    BY DEF data, DataOf
  <2> QED
    BY <1>8, <1>9, <2>1, <2>2
<1>11. PutDataAt + NBytes(p) <= Len(memory)
  BY <1>1, <1>3, <1>4
<1> QED
  BY <1>2, <1>3, <1>9, <1>10, <1>11

(* A packet whose number is new is held as it came.                        *)
LEMMA NewIsHeld ==
    ASSUME BMInv, NEW p \in net, Receive(p), NowDirect(p), p.seq \notin direct,
           NEW q, q = Handed(p)
    PROVE  /\ q.tick = p.tick /\ q.seq = p.seq /\ q.last = p.last /\ q.len = NBytes(p)
           /\ Held(q)'
           /\ DataIn(q)' = DataBytes(p)
<1>1. p \in Sent /\ Fits(p) /\ reader' = reader
  BY ReceiveKeeps DEF Receive
<1>2. /\ q.tick = p.tick /\ q.seq = p.seq /\ q.last = p.last /\ q.len = NBytes(p)
      /\ NBytes(p) = p.len => q = p
  BY <1>1, HandedFields
<1>3. /\ NBytes(p) \in Nat /\ NBytes(p) <= Payload + HeaderRoom
      /\ Directly => HeaderBytes <= NBytes(p) /\ DataBytes(p) = NBytes(p) - HeaderBytes
      /\ ~Directly => NBytes(p) = p.len /\ DataBytes(p) = p.len
  BY <1>1, NBytesFit
<1>4. Directly => reader = "fast"
  BY DEF Directly
<1>5. q.seq \in direct' <=> Directly
  BY <1>2 DEF NowDirect
<1>6. HeaderRoom' = HeaderRoom
  BY <1>1 DEF HeaderRoom
<1>7. Held(q)'
  BY <1>1, <1>2, <1>3, <1>4, <1>5, <1>6, SentTyped DEF Held
<1>8. DataIn(q)' = DataBytes(p)
  BY <1>2, <1>3, <1>5 DEF DataIn
<1> QED
  BY <1>2, <1>7, <1>8

(* It is not one of those held.                                            *)
LEMMA NewIsNew ==
    ASSUME BMInv, NEW p \in net, Receive(p), p.seq >= expectedSequence, p.seq \notin DOMAIN saved
    PROVE  /\ p.seq \notin direct
           /\ \A n \in 1..Len(placed) : placed[n].seq # p.seq
           /\ \A r \in stored : r.seq # p.seq
<1>1. p.seq \in Nat /\ pc = "read" /\ expectedSequence \in Nat
  BY ReceiveKeeps, SentTyped, PlacedMeasured DEF BMInv, InOrder
<1>2. \A r \in stored : r.seq # p.seq
  BY DEF BMInv, Early
<1>3. p.seq \notin direct
  BY <1>1, <1>2 DEF BMInv, Directs
<1>4. \A n \in 1..Len(placed) : placed[n].seq # p.seq
  BY <1>1 DEF BMInv, InOrder
<1> QED
  BY <1>2, <1>3, <1>4

(* Room for all packets is room for the next one, header included.         *)
LEMMA RoomForMore ==
    ASSUME AmpleRoom, NEW t \in Ticks, NEW n \in Nat, n < NumPackets[t], NEW b \in Nat, NEW r \in Nat,
           b <= n * (Payload + HeaderRoom), Len(memory) = b + r
    PROVE  Payload + HeaderBytes <= r
<1>1. Payload \in Nat /\ HeaderBytes \in Nat /\ NumPackets[t] \in Nat
  BY Sizes
<1>2. PICK M : M = Len(memory) /\ M = b + r /\ M \in Nat
  OBVIOUS
<1>3. PICK N : N = NumPackets[t] /\ N \in Nat
  BY <1>1
<1>4. n + 1 \in Nat /\ n + 1 <= N
  BY <1>3
<1>5. N * Payload + HeaderBytes * (IF reader = "fast" THEN N ELSE 1) <= M
  BY <1>2, <1>3 DEF AmpleRoom
<1>6. CASE reader = "fast"
  <2>1. b <= n * (Payload + HeaderBytes) /\ N * Payload + HeaderBytes * N <= M
    BY <1>5, <1>6 DEF HeaderRoom
  <2>2. PICK X : X = Payload + HeaderBytes /\ X \in Nat /\ N * Payload + HeaderBytes * N = N * X
    BY <1>1, <1>3
  <2>3. (n + 1) * X <= N * X /\ (n + 1) * X = n * X + X /\ n * X \in Nat /\ N * X \in Nat
    <3>1. (n + 1) * X <= N * X
      BY <1>3, <1>4, <2>2, Multiples
    <3>2. n <= n + 1
      BY <1>4
    <3>3. n * X \in Nat /\ (n + 1) * X = n * X + X
      BY <1>4, <2>2, <3>2, Multiples
    <3>4. N <= N
      BY <1>3
    <3>5. N * X \in Nat
      BY <1>3, <2>2, <3>4, Multiples
    <3> QED
      BY <3>1, <3>3, <3>5
  <2>4. PICK x, y : x = n * X /\ y = N * X /\ x \in Nat /\ y \in Nat
    BY <2>3
  <2>5. b <= x /\ x + X <= y /\ y <= M
    BY <2>1, <2>2, <2>3, <2>4
  <2> QED
    BY <1>1, <1>2, <2>2, <2>4, <2>5
<1>7. CASE reader # "fast"
  <2>1. b <= n * Payload /\ N * Payload + HeaderBytes <= M
    <3>1. HeaderRoom = 0 /\ Payload + 0 = Payload /\ HeaderBytes * 1 = HeaderBytes
      BY <1>1, <1>7 DEF HeaderRoom
    <3> QED
      BY <1>5, <1>7, <3>1
  <2>2. (n + 1) * Payload <= N * Payload
    BY <1>1, <1>3, <1>4, Multiples
  <2>3. n <= n + 1 /\ N <= N
    BY <1>3, <1>4
  <2>4. n * Payload \in Nat /\ (n + 1) * Payload = n * Payload + Payload
    BY <1>1, <1>4, <2>3, Multiples
  <2>5. N * Payload \in Nat
    BY <1>1, <1>3, <2>3, Multiples
  <2>6. PICK x, y : x = n * Payload /\ y = N * Payload /\ x \in Nat /\ y \in Nat
    BY <2>4, <2>5
  <2>7. b <= x /\ x + Payload <= y /\ y + HeaderBytes <= M
    BY <2>1, <2>2, <2>4, <2>6
  <2> QED
    BY <1>1, <1>2, <2>6, <2>7
<1> QED
  BY <1>6, <1>7

(* So it is for the packet after those that are placed.                    *)
LEMMA RoomForNext ==
    ASSUME BMInv, AmpleRoom, stage = "calling", NEW t \in Ticks, Len(placed) < NumPackets[t]
    PROVE  Payload + HeaderBytes <= remainingLen
<1>1. Len(placed) \in Nat /\ PlacedBytes \in Nat /\ remainingLen \in Nat
  BY PlacedMeasured DEF BMInv, Typed
<1>2. Len(memory) = PlacedBytes + remainingLen
  <2>1. /\ totalBytes \in Nat /\ totalBytesRead \in Nat /\ remainingLen \in Nat
        /\ PutDataAt = PlacedBytes /\ Len(memory) = totalBytes + bufLen
        /\ totalBytesRead + remainingLen = bufLen
    BY DEF BMInv, Typed, GBTypeOK, Room
  <2> QED
    BY <2>1 DEF PutDataAt
<1>3. PICK n, b, r : n = Len(placed) /\ b = PlacedBytes /\ r = remainingLen
  OBVIOUS
<1>4. /\ n \in Nat /\ b \in Nat /\ r \in Nat /\ n < NumPackets[t]
      /\ b <= n * (Payload + HeaderRoom) /\ Len(memory) = b + r
  BY <1>1, <1>2, <1>3 DEF BMInv, Sized
<1>5. Payload + HeaderBytes <= r
  BY <1>4, RoomForMore
<1> QED
  BY <1>3, <1>5

(* In recvmsg there is a packet to come: what arrives then fits.           *)
LEMMA AmpleFits ==
    ASSUME BMInv, AmpleRoom, stage = "calling", pc = "read", NEW p \in net
    PROVE  Fits(p)
<1>1. p \in Sent /\ remainingLen \in Nat /\ reader \in Readers
  BY DEF BMInv, Typed
<1>2. p.tick \in Ticks /\ p.len \in 1..Payload /\ Payload \in Nat /\ HeaderBytes \in Nat
      /\ NumPackets[p.tick] \in Nat \ {0}
  BY <1>1, SentTyped, Sizes
<1>3. \E t \in Ticks : Len(placed) < NumPackets[t]
  <2>1. CASE placed = <<>>
    <3>1. Len(placed) < NumPackets[p.tick]
      BY <1>2, <2>1
    <3> QED
      BY <1>2, <3>1
  <2>2. CASE placed # <<>>
    BY <2>2 DEF BMInv, Sized
  <2> QED
    BY <2>1, <2>2
<1>4. Payload + HeaderBytes <= remainingLen
  BY <1>3, RoomForNext
<1>5. p.len <= remainingLen /\ p.len + HeaderBytes <= remainingLen /\ HeaderBytes <= remainingLen
  BY <1>1, <1>2, <1>4
<1>6. reader \in {"recvmsg", "recvfrom", "fast"}
  BY <1>1, BufferMemoryAssumption
<1> QED
  BY <1>5, <1>6 DEF Fits, ThroughArray, Directly

(* What every step of the routine in recvmsg leaves as it is.              *)
ReadFrame ==
    /\ pc = "read" /\ stage = "calling"
    /\ KeepsPlaced
    /\ net' \subseteq Sent
    /\ firstReadForBuf' \in BOOLEAN
    /\ UNCHANGED <<bufVars, argVars, reader, callerVars, maxPacketBytes, last, tick>>

(* So much of the invariant is kept by all of them.                        *)
LEMMA ReadFrameKeeps ==
    ASSUME BMInv, ReadFrame
    PROVE  /\ Typed'
           /\ PlacedBytes' = PlacedBytes /\ PutDataAt' = PutDataAt
           /\ PlacedBytes' <= Len(placed') * (Payload + HeaderRoom')
           /\ (AmpleRoom' => AmpleRoom)
           /\ ~Filled'
           /\ Len(memory') = Len(memory)
<1>1. Typed'
  BY DEF ReadFrame, KeepsPlaced, BMInv, Typed, GBTypeOK, bufVars, argVars, callerVars, copyVars
<1>2. PlacedBytes' = PlacedBytes /\ PutDataAt' = PutDataAt
  BY DEF ReadFrame, PlacedBytes, PutDataAt, bufVars, callerVars, copyVars
<1>3. PlacedBytes' <= Len(placed') * (Payload + HeaderRoom')
  BY <1>2 DEF ReadFrame, BMInv, Sized, bufVars, HeaderRoom
<1>4. AmpleRoom' => AmpleRoom
  BY DEF ReadFrame, KeepsPlaced, AmpleRoom
<1>5. ~Filled'
  BY DEF ReadFrame, Filled, callerVars
<1> QED
  BY <1>1, <1>2, <1>3, <1>4, <1>5 DEF KeepsPlaced, ReadFrame

(* The room is accounted for as before.                                    *)
LEMMA ReadFrameRoom ==
    ASSUME BMInv, ReadFrame, pc' = "place" => cur'.len <= remainingLen
    PROVE  Room'
<1>1. PlacedBytes' = PlacedBytes /\ PutDataAt' = PutDataAt /\ Len(memory') = Len(memory)
  BY ReadFrameKeeps
<1> QED
  BY <1>1 DEF BMInv, Room, ReadFrame, bufVars, argVars, callerVars, copyVars

(* The routine fails, or is not followed further.                          *)
LEMMA FailStep ==
    ASSUME BMInv, ReadFrame, UNCHANGED <<stored, saved, direct>>,
           (pc' = "done" /\ ret' # "OK") \/ pc' = "overrun",
           AmpleRoom => pc' = "done" /\ ret' \notin {"BUF_TOO_SMALL", "TRUNCATED_MSG"}
    PROVE  BMInv'
<1>1. pc' \notin {"read", "place", "drain"} /\ ~Returned'
  BY DEF Returned
<1>2. /\ Typed' /\ ~Filled' /\ (AmpleRoom' => AmpleRoom)
      /\ PlacedBytes' <= Len(placed') * (Payload + HeaderRoom')
  BY ReadFrameKeeps
<1>3. placed' = placed /\ reader' = reader /\ expectedSequence' = expectedSequence
  BY DEF ReadFrame, bufVars
<1>4. \A q : Held(q) => Held(q)' /\ DataIn(q)' = DataIn(q)
  <2> SUFFICES ASSUME NEW q, Held(q) PROVE Held(q)' /\ DataIn(q)' = DataIn(q)
    OBVIOUS
  <2>1. SameWay(q)
    BY DEF SameWay
  <2> QED
    BY <1>3, <2>1, HeldStays
<1>5. /\ \A n \in 1..Len(placed) : Held(placed[n])'
      /\ \A n \in 1..Len(placed) : HasData(memory, StartOf(n), placed[n])'
  <2>1. \A n \in 1..Len(placed) : SameWay(placed[n])
    BY DEF SameWay
  <2>2. pc # "overrun" /\ KeepsPlaced
    BY DEF ReadFrame
  <2> QED
    BY <1>3, <2>1, <2>2, PlacedStays
<1>6. InOrder'
  BY <1>1, <1>3, <1>5 DEF BMInv, InOrder
<1>7. Early'
  <2>1. \A q \in stored : Held(q)'
    BY <1>4 DEF BMInv, Early
  <2> QED
    BY <1>1, <2>1 DEF BMInv, Early
<1>8. Directs'
  BY <1>3 DEF BMInv, Directs, ReadFrame
<1>9. Room'
  BY <1>1, ReadFrameRoom
<1>10. Calls'
  BY <1>1, <1>3 DEF BMInv, Calls, ReadFrame, argVars
<1>11. Intact'
  <2>1. \A q \in stored : HasData(saved[q.seq], 0, q)'
    <3> SUFFICES ASSUME NEW q \in stored PROVE HasData(saved[q.seq], 0, q)'
      OBVIOUS
    <3>1. DataIn(q)' = DataIn(q)
      BY <1>4 DEF BMInv, Early
    <3>2. HasData(saved[q.seq], 0, q)
      BY DEF BMInv, Intact
    <3> QED
      BY <3>1, <3>2 DEF HasData
  <2> QED
    BY <1>1, <1>3, <1>5, <2>1 DEF Intact
<1>12. Ends' /\ Sized'
  BY <1>1, <1>2 DEF Ends, Sized
<1>13. AmpleRoomSuffices'
  BY <1>1, <1>2 DEF AmpleRoomSuffices, Returned
<1> QED
  BY <1>2, <1>6, <1>7, <1>8, <1>9, <1>10, <1>11, <1>12, <1>13 DEF BMInv

(* The routine goes on waiting, with nothing more in the map.              *)
LEMMA WaitStep ==
    ASSUME BMInv, ReadFrame, UNCHANGED <<stored, saved, direct, pc, firstReadForBuf>>
    PROVE  BMInv'
<1>1. pc = "read" /\ pc' = "read" /\ ~Returned'
  BY DEF ReadFrame, Returned
<1>2. /\ Typed' /\ ~Filled' /\ (AmpleRoom' => AmpleRoom)
      /\ PlacedBytes' <= Len(placed') * (Payload + HeaderRoom')
  BY ReadFrameKeeps
<1>3. placed' = placed /\ reader' = reader /\ expectedSequence' = expectedSequence
  BY DEF ReadFrame, bufVars
<1>4. \A q : Held(q) => Held(q)' /\ DataIn(q)' = DataIn(q)
  <2> SUFFICES ASSUME NEW q, Held(q) PROVE Held(q)' /\ DataIn(q)' = DataIn(q)
    OBVIOUS
  <2>1. SameWay(q)
    BY DEF SameWay
  <2> QED
    BY <1>3, <2>1, HeldStays
<1>5. /\ \A n \in 1..Len(placed) : Held(placed[n])'
      /\ \A n \in 1..Len(placed) : HasData(memory, StartOf(n), placed[n])'
  <2>1. \A n \in 1..Len(placed) : SameWay(placed[n])
    BY DEF SameWay
  <2>2. pc # "overrun" /\ KeepsPlaced
    BY DEF ReadFrame
  <2> QED
    BY <1>3, <2>1, <2>2, PlacedStays
<1>6. InOrder'
  BY <1>1, <1>3, <1>5 DEF BMInv, InOrder
<1>7. Early'
  <2>1. \A q \in stored : Held(q)'
    BY <1>4 DEF BMInv, Early
  <2> QED
    BY <1>1, <1>3, <2>1 DEF BMInv, Early
<1>8. Directs'
  BY <1>1, <1>3 DEF BMInv, Directs
<1>9. Room'
  BY <1>1, ReadFrameRoom
<1>10. Calls'
  BY <1>1, <1>3 DEF BMInv, Calls, ReadFrame, argVars
<1>11. Intact'
  <2>1. \A q \in stored : HasData(saved[q.seq], 0, q)'
    <3> SUFFICES ASSUME NEW q \in stored PROVE HasData(saved[q.seq], 0, q)'
      OBVIOUS
    <3>1. DataIn(q)' = DataIn(q)
      BY <1>4 DEF BMInv, Early
    <3>2. HasData(saved[q.seq], 0, q)
      BY DEF BMInv, Intact
    <3> QED
      BY <3>1, <3>2 DEF HasData
  <2> QED
    BY <1>1, <1>3, <1>5, <2>1 DEF Intact
<1>12. Ends' /\ Sized'
  BY <1>1, <1>2, <1>3 DEF BMInv, Ends, Sized
<1>13. AmpleRoomSuffices'
  BY <1>1 DEF AmpleRoomSuffices
<1> QED
  BY <1>2, <1>6, <1>7, <1>8, <1>9, <1>10, <1>11, <1>12, <1>13 DEF BMInv

(* A packet more does not change how those held came.                      *)
LEMMA OthersSameWay ==
    ASSUME BMInv, NEW p \in net, Receive(p), NowDirect(p),
           p.seq >= expectedSequence, p.seq \notin DOMAIN saved
    PROVE  /\ \A n \in 1..Len(placed) : SameWay(placed[n])
           /\ \A r \in stored : Held(r)' /\ DataIn(r)' = DataIn(r)
           /\ \A r \in stored : HasData(saved[r.seq], 0, r)
<1>1. /\ p.seq \notin direct
      /\ \A n \in 1..Len(placed) : placed[n].seq # p.seq
      /\ \A r \in stored : r.seq # p.seq
  BY NewIsNew
<1>2. direct' = direct \/ direct' = direct \union {p.seq}
  BY DEF NowDirect
<1>3. \A n \in 1..Len(placed) : SameWay(placed[n])
  BY <1>1, <1>2 DEF SameWay
<1>4. ASSUME NEW r \in stored PROVE Held(r)' /\ DataIn(r)' = DataIn(r)
  <2>1. SameWay(r) /\ Held(r) /\ reader' = reader
    BY <1>1, <1>2 DEF SameWay, BMInv, Early, Receive
  <2> QED
    BY <2>1, HeldStays
<1>5. \A r \in stored : HasData(saved[r.seq], 0, r)
  BY DEF BMInv, Intact
<1> QED
  BY <1>3, <1>4, <1>5

(* The next packet in order is in hand.                                    *)
LEMMA ReadInOrderStep ==
    ASSUME BMInv, NEW p \in net, BMReadInOrder(p)
    PROVE  BMInv'
<1>1. Receive(p) /\ NowDirect(p) /\ p.seq = expectedSequence
      /\ pc' = "place" /\ stored' = stored /\ saved' = saved /\ UNCHANGED outVars
  BY DEF BMReadInOrder, mapVars
<1>2. /\ p \in Sent /\ pc = "read" /\ stage = "calling" /\ net' \subseteq Sent /\ KeepsPlaced
      /\ \A k \in 1..DataBytes(p) : memory'[PutDataAt + k] = <<p.tick, p.seq, k>>
  BY <1>1, ReceiveKeeps
<1>3. Fits(p) /\ packetTick' = p.tick /\ placed' = placed /\ reader' = reader
      /\ expectedSequence' = expectedSequence
  BY <1>1 DEF Receive, bufVars
<1>4. NBytes(p) <= remainingLen
  BY <1>2, <1>3, NBytesFit
<1>5. p.tick \in Ticks /\ p.seq \in Nat
  BY <1>2, SentTyped
<1>6. firstReadForBuf' \in BOOLEAN /\ (firstReadForBuf' => p.seq = 0)
  BY <1>1, <1>2 DEF Receive, BMInv, Typed, Calls
<1>7. ReadFrame
  BY <1>1, <1>2, <1>6 DEF ReadFrame, Receive, outVars
<1>8. p.seq \notin DOMAIN saved /\ p.seq >= expectedSequence
  BY <1>1, <1>2, <1>5 DEF BMInv, Early
<1>9. p.seq \notin direct
  BY <1>1, <1>8, NewIsNew
<1>10. PICK q : q = Handed(p) /\ q = cur'
  BY DEF BMReadInOrder
<1>11. /\ q.tick = p.tick /\ q.seq = p.seq /\ q.len = NBytes(p)
       /\ Held(q)' /\ DataIn(q)' = DataBytes(p)
  BY <1>1, <1>9, <1>10, NewIsHeld
<1>12. /\ \A n \in 1..Len(placed) : SameWay(placed[n])
       /\ \A r \in stored : Held(r)' /\ DataIn(r)' = DataIn(r)
       /\ \A r \in stored : HasData(saved[r.seq], 0, r)
  BY <1>1, <1>8, OthersSameWay
<1>13. /\ Typed' /\ ~Filled' /\ PutDataAt' = PutDataAt
       /\ PlacedBytes' <= Len(placed') * (Payload + HeaderRoom')
  BY <1>7, ReadFrameKeeps
<1>14. /\ \A n \in 1..Len(placed) : Held(placed[n])'
       /\ \A n \in 1..Len(placed) : HasData(memory, StartOf(n), placed[n])'
  BY <1>2, <1>3, <1>12, PlacedStays
<1>15. InOrder'
  <2>1. Held(cur)'
    BY <1>10, <1>11 DEF Held
  <2> QED
    BY <1>1, <1>3, <1>5, <1>10, <1>11, <1>14, <2>1 DEF BMInv, InOrder
<1>16. Early'
  BY <1>1, <1>2, <1>3, <1>12 DEF BMInv, Early, Returned
<1>17. Directs'
  <2>1. direct' = direct \/ (direct' = direct \union {p.seq} /\ Directly)
    BY <1>1 DEF NowDirect
  <2>2. Directly => p.seq # 0 /\ reader = "fast"
    BY <1>1 DEF Directly, BMInv, InOrder
  <2> QED
    BY <1>1, <1>2, <1>3, <2>1, <2>2 DEF BMInv, Directs
<1>18. Room'
  BY <1>4, <1>7, <1>10, <1>11, ReadFrameRoom
<1>19. Calls'
  BY <1>1, <1>3, <1>6, <1>7 DEF BMInv, Calls, ReadFrame, argVars, Returned
<1>20. Intact'
  <2>1. HasData(memory, PutDataAt, cur)'
    <3>1. DataIn(cur)' = DataBytes(p)
      BY <1>10, <1>11 DEF DataIn
    <3> QED
      BY <1>2, <1>10, <1>11, <1>13, <3>1 DEF HasData
  <2>2. \A r \in stored : HasData(saved[r.seq], 0, r)'
    BY <1>1, <1>12 DEF HasData
  <2> QED
    BY <1>1, <1>3, <1>14, <2>1, <2>2 DEF Intact
<1>21. Ends' /\ Sized' /\ AmpleRoomSuffices'
  BY <1>1, <1>13 DEF Ends, Sized, AmpleRoomSuffices, Returned
<1> QED
  BY <1>13, <1>15, <1>16, <1>17, <1>18, <1>19, <1>20, <1>21 DEF BMInv

(* n elements of a sequence, after the first a.                            *)
LEMMA SubSeqFrom ==
    ASSUME NEW S, NEW s \in Seq(S), NEW a \in Nat, NEW n \in Nat, a + n <= Len(s)
    PROVE  /\ SubSeq(s, a + 1, a + n) \in Seq(S)
           /\ Len(SubSeq(s, a + 1, a + n)) = n
           /\ \A k \in 1..n : SubSeq(s, a + 1, a + n)[k] = s[a + k]
<1>1. PICK b : b = a + 1 /\ b \in Nat /\ b >= 1
  OBVIOUS
<1>2. PICK c : c = a + n /\ c \in Nat /\ c <= Len(s) /\ c - b + 1 = n
  BY <1>1
<1>3. SubSeq(s, b, c) = [i \in 1..n |-> s[i + b - 1]]
  BY <1>1, <1>2
<1>4. \A k \in 1..n : k + b - 1 = a + k /\ a + k \in 1..Len(s)
  BY <1>1, <1>2
<1>5. \A k \in 1..n : SubSeq(s, b, c)[k] = s[a + k] /\ s[a + k] \in S
  BY <1>3, <1>4
<1>6. SubSeq(s, b, c) \in [1..n -> S]
  BY <1>3, <1>5
<1>7. SubSeq(s, b, c) \in Seq(S) /\ Len(SubSeq(s, b, c)) = n
  <2>1. PICK f : f = SubSeq(s, b, c)
    OBVIOUS
  <2>2. f \in [1..n -> S]
    BY <1>6, <2>1
  <2>3. f \in Seq(S) /\ Len(f) = n
    BY <2>2
  <2> QED
    BY <2>1, <2>3
<1> QED
  BY <1>1, <1>2, <1>5, <1>7

(* A packet that comes early is kept with its bytes.                       *)
LEMMA StoreStep ==
    ASSUME BMInv, NEW p \in net, BMReadAndStore(p)
    PROVE  BMInv'
<1>1. Receive(p) /\ p.seq > expectedSequence /\ pc' = pc /\ UNCHANGED outVars
  BY DEF BMReadAndStore
<1>2. /\ p \in Sent /\ pc = "read" /\ stage = "calling" /\ net' \subseteq Sent /\ KeepsPlaced
      /\ PutDataAt \in Nat /\ PutDataAt + NBytes(p) <= Len(memory)
      /\ \A k \in 1..DataBytes(p) : memory'[PutDataAt + k] = <<p.tick, p.seq, k>>
  BY <1>1, ReceiveKeeps
<1>3. Fits(p) /\ placed' = placed /\ reader' = reader /\ expectedSequence' = expectedSequence
  BY <1>1 DEF Receive, bufVars
<1>4. NBytes(p) \in Nat /\ DataBytes(p) \in Nat /\ DataBytes(p) <= NBytes(p)
  BY <1>2, <1>3, NBytesFit
<1>5. p.tick \in Ticks /\ p.seq \in Nat /\ p.seq # 0 /\ p.seq >= expectedSequence
      /\ expectedSequence \in Nat
  <2>1. p.tick \in Ticks /\ p.seq \in Nat /\ expectedSequence \in Nat
    BY <1>2, SentTyped, PlacedMeasured DEF BMInv, InOrder
  <2> QED
    BY <1>1, <2>1
<1>6. firstReadForBuf' = firstReadForBuf
  BY <1>1, <1>5 DEF Receive
<1>7. ReadFrame
  BY <1>1, <1>2, <1>6 DEF ReadFrame, Receive, outVars, BMInv, Typed
<1>8. CASE p.seq \in DOMAIN saved
  <2>1. UNCHANGED <<stored, saved, direct>>
    BY <1>8 DEF BMReadAndStore
  <2> QED
    BY <1>1, <1>6, <1>7, <2>1, WaitStep
<1>9. CASE p.seq \notin DOMAIN saved
  <2>1. PICK q, b : q = Handed(p) /\ b = SavedBytes(p)
    OBVIOUS
  <2>2. /\ stored' = stored \union {q} /\ NowDirect(p)
        /\ saved' = [n \in DOMAIN saved \union {p.seq} |-> IF n = p.seq THEN b ELSE saved[n]]
    BY <1>9, <2>1 DEF BMReadAndStore
  <2>3. p.seq \notin direct /\ \A r \in stored : r.seq # p.seq
    BY <1>1, <1>5, <1>9, NewIsNew
  <2>4. /\ q.tick = p.tick /\ q.seq = p.seq /\ q.len = NBytes(p)
        /\ Held(q)' /\ DataIn(q)' = DataBytes(p)
    BY <1>1, <2>1, <2>2, <2>3, NewIsHeld
  <2>5. /\ \A n \in 1..Len(placed) : SameWay(placed[n])
        /\ \A r \in stored : Held(r)' /\ DataIn(r)' = DataIn(r)
        /\ \A r \in stored : HasData(saved[r.seq], 0, r)
    BY <1>1, <1>5, <1>9, <2>2, OthersSameWay
  <2>6. /\ Typed' /\ ~Filled'
        /\ PlacedBytes' <= Len(placed') * (Payload + HeaderRoom')
    BY <1>7, ReadFrameKeeps
  <2>7. /\ \A n \in 1..Len(placed) : Held(placed[n])'
        /\ \A n \in 1..Len(placed) : HasData(memory, StartOf(n), placed[n])'
    BY <1>2, <1>3, <2>5, PlacedStays
  <2>8. /\ b \in Seq(Byte) /\ Len(b) = NBytes(p)
        /\ \A k \in 1..NBytes(p) : b[k] = memory'[PutDataAt + k]
    <3>1. memory' \in Seq(Byte) /\ PutDataAt + NBytes(p) <= Len(memory')
      BY <1>2 DEF KeepsPlaced
    <3>2. PICK m, at, n : m = memory' /\ at = PutDataAt /\ n = NBytes(p)
      OBVIOUS
    <3>3. m \in Seq(Byte) /\ at \in Nat /\ n \in Nat /\ at + n <= Len(m)
      BY <1>2, <1>4, <3>1, <3>2
    <3>4. b = SubSeq(m, at + 1, at + n)
      BY <2>1, <3>2 DEF SavedBytes
    <3>5. b \in Seq(Byte) /\ Len(b) = n /\ \A k \in 1..n : b[k] = m[at + k]
      BY <3>3, <3>4, SubSeqFrom
    <3> QED
      BY <3>2, <3>5
  <2>9. /\ saved'[p.seq] = b
        /\ \A r \in stored : saved'[r.seq] = saved[r.seq]
        /\ DOMAIN saved' = DOMAIN saved \union {p.seq}
    BY <2>2, <2>3 DEF BMInv, Early
  <2>10. InOrder'
    BY <1>1, <1>2, <1>3, <2>7 DEF BMInv, InOrder
  <2>11. Early'
    <3>1. \A r \in stored' : Held(r)'
      BY <2>2, <2>4, <2>5
    <3>2. \A r, s \in stored' : r.seq = s.seq => r = s
      BY <2>2, <2>3, <2>4 DEF BMInv, Early
    <3>3. \A r \in stored' : r.seq > expectedSequence
      BY <1>1, <1>2, <2>2, <2>4 DEF BMInv, Early
    <3>4. DOMAIN saved' = {r.seq : r \in stored'}
      BY <2>2, <2>4, <2>9 DEF BMInv, Early
    <3>5. \A r \in stored' : saved'[r.seq] \in Seq(Byte) /\ Len(saved'[r.seq]) = r.len
      BY <2>2, <2>4, <2>8, <2>9 DEF BMInv, Early
    <3> QED
      BY <1>1, <1>2, <1>3, <3>1, <3>2, <3>3, <3>4, <3>5 DEF Early, Returned
  <2>12. Directs'
    <3>1. direct' = direct \/ (direct' = direct \union {p.seq} /\ Directly)
      BY <2>2 DEF NowDirect
    <3>2. Directly => reader = "fast"
      BY DEF Directly
    <3> QED
      BY <1>1, <1>2, <1>3, <1>5, <2>2, <2>4, <3>1, <3>2 DEF BMInv, Directs
  <2>13. Room'
    BY <1>1, <1>2, <1>7, ReadFrameRoom
  <2>14. Calls'
    BY <1>1, <1>2, <1>3, <1>6, <1>7 DEF BMInv, Calls, ReadFrame, argVars, Returned
  <2>15. Intact'
    <3>1. HasData(saved[q.seq], 0, q)'
      <4>1. ASSUME NEW k \in 1..DataBytes(p) PROVE b[0 + k] = <<q.tick, q.seq, k>>
        <5>1. k \in 1..NBytes(p) /\ 0 + k = k
          BY <1>4
        <5> QED
          BY <1>2, <2>4, <2>8, <5>1
      <4>2. saved'[q.seq] = b
        BY <2>4, <2>9
      <4> QED
        BY <2>4, <4>1, <4>2 DEF HasData
    <3>2. \A r \in stored : HasData(saved[r.seq], 0, r)'
      BY <2>5, <2>9 DEF HasData
    <3> QED
      BY <1>1, <1>2, <1>3, <2>2, <2>7, <3>1, <3>2 DEF Intact
  <2>16. Ends' /\ Sized' /\ AmpleRoomSuffices'
    BY <1>1, <1>2, <1>3, <2>6 DEF BMInv, Ends, Sized, AmpleRoomSuffices, Returned
  <2> QED
    BY <2>6, <2>10, <2>11, <2>12, <2>13, <2>14, <2>15, <2>16 DEF BMInv
<1> QED
  BY <1>8, <1>9

-----------------------------------------------------------------------------
(* The rest of BMRead, and what the network does.                          *)

(* A datagram that is received, whatever the routine makes of it then.     *)
LEMMA ReceivedFrame ==
    ASSUME BMInv, NEW p \in net, Receive(p), UNCHANGED <<last, tick>>
    PROVE  ReadFrame
<1>1. pc = "read" /\ stage = "calling" /\ net' \subseteq Sent /\ KeepsPlaced
  BY ReceiveKeeps
<1>2. firstReadForBuf' \in BOOLEAN
  BY DEF Receive, BMInv, Typed
<1> QED
  BY <1>1, <1>2 DEF ReadFrame, Receive

(* One that is not, with the buffer's end perhaps overwritten.             *)
LEMMA RefusedFrame ==
    ASSUME BMInv, NEW p \in net, Refuse(p), KeepsPlaced, UNCHANGED <<last, tick>>
    PROVE  ReadFrame /\ ~AmpleRoom
<1>1. pc = "read" /\ stage = "calling" /\ net' \subseteq Sent /\ ~Fits(p)
  BY DEF Refuse, Arrive, BMInv, Typed
<1>2. ~AmpleRoom
  BY <1>1, AmpleFits
<1>3. UNCHANGED <<bufVars, headVars, argVars, reader, callerVars>>
  BY DEF Refuse
<1>4. firstReadForBuf' \in BOOLEAN /\ maxPacketBytes' = maxPacketBytes
  BY <1>3 DEF headVars, BMInv, Typed
<1> QED
  BY <1>1, <1>2, <1>3, <1>4 DEF ReadFrame

(* The buffer is not touched.                                              *)
LEMMA UntouchedKeeps ==
    ASSUME BMInv, memory' = memory
    PROVE  KeepsPlaced
BY DEF BMInv, Typed, KeepsPlaced, KeepsData

(* Refusing a datagram keeps the invariant.                                *)
LEMMA RefuseStep ==
    ASSUME BMInv, NEW p \in net, RecvMsgTruncated(p) \/ RecvFromTooSmall(p) \/ HeaderCut(p)
    PROVE  BMInv'
<1>1. Refuse(p)
  BY DEF RecvMsgTruncated, RecvFromTooSmall, HeaderCut
<1>2. UNCHANGED <<last, tick>>
  BY DEF RecvMsgTruncated, RecvFromTooSmall, HeaderCut, ReturnError, outVars
<1>3. (pc' = "done" /\ ret' # "OK") \/ pc' = "overrun"
  BY DEF RecvMsgTruncated, RecvFromTooSmall, HeaderCut, ReturnError
<1>4. KeepsPlaced
  <2>1. CASE RecvMsgTruncated(p)
    <3>1. PICK n, bytes : n = remainingLen /\ bytes = DataOf(p, n)
      OBVIOUS
    <3>2. n \in Nat /\ p \in Sent /\ stage = "calling"
      BY <1>1, <3>1 DEF BMInv, Typed, Refuse
    <3>3. bytes \in Seq(Byte)
      BY <3>1, <3>2, SentTyped, DataIsBytes
    <3>4. memory' = Copied(memory, PutDataAt, bytes)
      BY <2>1, <3>1 DEF RecvMsgTruncated
    <3> QED
      BY <3>2, <3>3, <3>4, CopyKeepsPlaced
  <2>2. CASE RecvFromTooSmall(p) \/ HeaderCut(p)
    BY <2>2, UntouchedKeeps DEF RecvFromTooSmall, HeaderCut
  <2> QED
    BY <2>1, <2>2
<1>5. ReadFrame /\ ~AmpleRoom
  BY <1>1, <1>2, <1>4, RefusedFrame
<1>6. UNCHANGED <<stored, saved, direct>>
  BY <1>1 DEF Refuse, mapVars
<1> QED
  BY <1>3, <1>5, <1>6, FailStep

(* So does giving up after it was received.                                *)
LEMMA GiveUpStep ==
    ASSUME BMInv, NEW p \in net, GiveUp(p, "OUT_OF_ORDER") \/ GiveUp(p, "OUT_OF_MEM")
    PROVE  BMInv'
<1>1. Receive(p) /\ UNCHANGED <<stored, saved, direct>> /\ UNCHANGED <<last, tick>>
      /\ pc' = "done" /\ ret' \in {"OUT_OF_ORDER", "OUT_OF_MEM"}
  BY DEF GiveUp, FreeMap, ReturnError
<1>2. ReadFrame
  BY <1>1, ReceivedFrame
<1> QED
  BY <1>1, <1>2, FailStep

(* All of BMRead.                                                          *)
LEMMA ReadStep == BMInv /\ BMRead => BMInv'
<1> SUFFICES ASSUME BMInv, BMRead PROVE BMInv'
  OBVIOUS
<1>1. PICK p \in net : \/ RecvMsgTruncated(p) \/ RecvFromTooSmall(p) \/ HeaderCut(p)
                       \/ BMReadInOrder(p) \/ BMReadAgain(p)
                       \/ BMReadButMapFull(p) \/ BMReadButNoMemory(p)
                       \/ BMReadAndStore(p)
  BY DEF BMRead
<1>2. CASE RecvMsgTruncated(p) \/ RecvFromTooSmall(p) \/ HeaderCut(p)
  BY <1>2, RefuseStep
<1>3. CASE BMReadInOrder(p)
  BY <1>3, ReadInOrderStep
<1>4. CASE BMReadAgain(p) \/ BMReadButMapFull(p) \/ BMReadButNoMemory(p)
  <2>1. GiveUp(p, "OUT_OF_ORDER") \/ GiveUp(p, "OUT_OF_MEM")
    BY <1>4 DEF BMReadAgain, BMReadButMapFull, BMReadButNoMemory
  <2> QED
    BY <2>1, GiveUpStep
<1>5. CASE BMReadAndStore(p)
  BY <1>5, StoreStep
<1> QED
  BY <1>1, <1>2, <1>3, <1>4, <1>5

(* What the network loses, and a receive that fails.                       *)
LEMMA TroubleStep == BMInv /\ Trouble => BMInv'
<1> SUFFICES ASSUME BMInv, Trouble PROVE BMInv'
  OBVIOUS
<1>1. stage = "calling" /\ KeepsPlaced /\ UNCHANGED <<saved, direct, reader, callerVars>>
  BY UntouchedKeeps DEF Trouble, memVars
<1>2. CASE RecvFails
  <2>1. ReadFrame
    BY <1>1, <1>2 DEF RecvFails, ReturnError, ReadFrame, netVars, headVars, BMInv, Typed
  <2>2. stored' = stored /\ pc' = "done" /\ ret' = "RECV_MSG"
    BY <1>2 DEF RecvFails, ReturnError, mapVars
  <2> QED
    BY <1>1, <2>1, <2>2, FailStep
<1>3. CASE \E p \in net : Lose(p)
  <2>1. ReadFrame
    BY <1>1, <1>3 DEF Lose, ReadFrame, headVars, outVars, BMInv, Typed
  <2>2. UNCHANGED <<stored, pc, firstReadForBuf>>
    BY <1>3 DEF Lose, mapVars, headVars
  <2> QED
    BY <1>1, <2>1, <2>2, WaitStep
<1> QED
  BY <1>2, <1>3 DEF Trouble

-----------------------------------------------------------------------------
(* Placing the packet in hand.                                             *)

(* What all of Place do.                                                   *)
LEMMA PlaceParts ==
    ASSUME BMInv, BMPlace
    PROVE  /\ pc = "place" /\ stage = "calling" /\ Advance
           /\ UNCHANGED <<memVars, callerVars, stored>>
           /\ \/ pc' = "done" /\ ret' = "BAD_FIRST_LAST_BIT" /\ UNCHANGED <<last, tick>>
              \/ pc' = "drain" /\ UNCHANGED <<ret, last, tick>>
              \/ /\ ~NextIsStored /\ pc' = "done" /\ ret' = "OK"
                 /\ last' = cur.last /\ tick' = packetTick
                 /\ cur.last \/ (stored = {} /\ remainingLen' < maxPacketBytes')
              \/ ~NextIsStored /\ pc' = "read" /\ ~cur.last /\ UNCHANGED <<ret, last, tick>>
<1>1. pc = "place" /\ stage = "calling" /\ UNCHANGED <<memVars, callerVars>>
  BY DEF BMPlace, Place
<1>2. CASE PlaceBadFirstBit
  BY <1>1, <1>2 DEF PlaceBadFirstBit, FreeMap, ReturnError
<1>3. CASE PlaceThenDrain
  BY <1>1, <1>3 DEF PlaceThenDrain, mapVars, outVars
<1>4. CASE PlaceThenReturn
  BY <1>1, <1>4 DEF PlaceThenReturn, TooLittleRoom, mapVars
<1>5. CASE PlaceThenRead
  BY <1>1, <1>5 DEF PlaceThenRead, mapVars, outVars
<1> QED
  BY <1>2, <1>3, <1>4, <1>5 DEF BMPlace, Place

(* The packet in hand, while it is placed.                                 *)
LEMMA InHandFacts ==
    ASSUME BMInv, pc = "place"
    PROVE  /\ Held(cur) /\ cur.seq = expectedSequence /\ packetTick \in Ticks
           /\ cur.tick \in Ticks /\ cur.last \in BOOLEAN /\ cur.len \in Nat
           /\ cur.seq \in 0..(NumPackets[cur.tick] - 1)
           /\ cur.last <=> cur.seq = NumPackets[cur.tick] - 1
           /\ cur.len <= Payload + HeaderRoom /\ cur.len <= remainingLen
           /\ cur.seq = 0 => cur.len \in 1..Payload
<1>1. Held(cur) /\ cur.seq = expectedSequence /\ packetTick \in Ticks /\ cur.len <= remainingLen
  BY DEF BMInv, InOrder, Room
<1>2. 0 \notin direct
  BY DEF BMInv, Directs
<1> QED
  BY <1>1, <1>2 DEF Held

(* The sequence placed is one longer.                                      *)
LEMMA AdvancePlaced ==
    ASSUME BMInv, pc = "place", Advance
    PROVE  /\ \E S : placed' \in Seq(S)
           /\ Len(placed) \in Nat /\ Len(placed') = Len(placed) + 1
           /\ \A n \in 1..Len(placed) : placed'[n] = placed[n]
           /\ placed'[Len(placed) + 1] = cur
           /\ PlacedBytes \in Nat /\ PlacedBytes' = PlacedBytes + cur.len
           /\ \A n \in 1..Len(placed) : StartOf(n)' = StartOf(n)
           /\ \A n : n = Len(placed) + 1 => StartOf(n)' = PlacedBytes
<1>1. PICK t, s : t = placed' /\ s = placed /\ t = Append(s, cur)
  BY DEF Advance
<1>2. PICK S, x : s \in Seq(S) /\ x = cur
  BY <1>1 DEF BMInv, InOrder
<1>3. s \in Seq(S \union {x}) /\ x \in S \union {x}
  BY <1>2
<1>4. /\ t \in Seq(S \union {x}) /\ Len(s) \in Nat /\ Len(t) = Len(s) + 1
      /\ t[Len(s) + 1] = x /\ \A i \in 1..Len(s) : t[i] = s[i]
  BY <1>1, <1>2, <1>3
<1>5. Measured(s) /\ x.len \in Nat /\ PlacedBytes \in Nat
  BY <1>1, <1>2, PlacedMeasured, InHandFacts DEF BMInv
<1>6. /\ \A n \in 0..Len(s) : BytesUpTo(Append(s, x))[n] = BytesUpTo(s)[n]
      /\ BytesUpTo(Append(s, x))[Len(s) + 1] = BytesUpTo(s)[Len(s)] + x.len
  BY <1>5, SumOneMore
<1>7. /\ \A n \in 0..Len(s) : BytesUpTo(t)[n] = BytesUpTo(s)[n]
      /\ BytesUpTo(t)[Len(s) + 1] = BytesUpTo(s)[Len(s)] + x.len
  BY <1>1, <1>2, <1>6
<1>8. PlacedBytes' = PlacedBytes + cur.len
  BY <1>1, <1>2, <1>4, <1>7 DEF PlacedBytes
<1>9. \A n \in 1..Len(placed) : StartOf(n)' = StartOf(n)
  <2>1. \A n \in 1..Len(s) : n - 1 \in 0..Len(s)
    BY <1>4
  <2> QED
    BY <1>1, <1>7, <2>1 DEF StartOf
<1>10. ASSUME NEW n, n = Len(placed) + 1 PROVE StartOf(n)' = PlacedBytes
  <2>1. n - 1 = Len(s) /\ Len(s) \in 0..Len(s)
    BY <1>1, <1>4, <1>10
  <2> QED
    BY <1>1, <1>7, <2>1 DEF StartOf, PlacedBytes
<1> QED
  BY <1>1, <1>2, <1>4, <1>5, <1>8, <1>9, <1>10

(* Placing keeps the invariant.                                            *)
LEMMA PlaceStep == BMInv /\ BMPlace => BMInv'
<1> SUFFICES ASSUME BMInv, BMPlace PROVE BMInv'
  OBVIOUS
<1>1. /\ pc = "place" /\ stage = "calling" /\ Advance
      /\ UNCHANGED <<memVars, callerVars, stored>>
      /\ \/ pc' = "done" /\ ret' = "BAD_FIRST_LAST_BIT" /\ UNCHANGED <<last, tick>>
         \/ pc' = "drain" /\ UNCHANGED <<ret, last, tick>>
         \/ /\ ~NextIsStored /\ pc' = "done" /\ ret' = "OK"
            /\ last' = cur.last /\ tick' = packetTick
            /\ cur.last \/ (stored = {} /\ remainingLen' < maxPacketBytes')
         \/ ~NextIsStored /\ pc' = "read" /\ ~cur.last /\ UNCHANGED <<ret, last, tick>>
  BY PlaceParts
<1>2. /\ Held(cur) /\ cur.seq = expectedSequence /\ packetTick \in Ticks
      /\ cur.tick \in Ticks /\ cur.last \in BOOLEAN /\ cur.len \in Nat
      /\ cur.seq \in 0..(NumPackets[cur.tick] - 1)
      /\ cur.last <=> cur.seq = NumPackets[cur.tick] - 1
      /\ cur.len <= Payload + HeaderRoom /\ cur.len <= remainingLen
      /\ cur.seq = 0 => cur.len \in 1..Payload
  BY <1>1, InHandFacts
<1>3. /\ \E S : placed' \in Seq(S)
      /\ Len(placed) \in Nat /\ Len(placed') = Len(placed) + 1
      /\ \A n \in 1..Len(placed) : placed'[n] = placed[n]
      /\ placed'[Len(placed) + 1] = cur
      /\ PlacedBytes \in Nat /\ PlacedBytes' = PlacedBytes + cur.len
      /\ \A n \in 1..Len(placed) : StartOf(n)' = StartOf(n)
      /\ \A n : n = Len(placed) + 1 => StartOf(n)' = PlacedBytes
  BY <1>1, AdvancePlaced
<1>4. /\ remainingLen' = remainingLen - cur.len
      /\ totalBytesRead' = totalBytesRead + cur.len
      /\ expectedSequence' = expectedSequence + 1
      /\ maxPacketBytes' = IF firstReadForBuf THEN cur.len ELSE maxPacketBytes
      /\ firstReadForBuf' = FALSE
      /\ UNCHANGED <<netVars, argVars, packetTick, cur>>
  BY <1>1 DEF Advance
<1>5. /\ remainingLen \in Nat /\ totalBytesRead \in Nat /\ maxPacketBytes \in 0..Payload
      /\ expectedSequence \in Nat /\ expectedSequence = Len(placed) /\ Payload \in Nat
      /\ firstReadForBuf \in BOOLEAN /\ bufLen \in Nat /\ totalBytes \in Nat
      /\ totalBytesRead + remainingLen = bufLen
      /\ Len(memory) = totalBytes + bufLen /\ PutDataAt = PlacedBytes
      /\ firstReadForBuf => expectedSequence = 0
      /\ ~veryFirstRead => expectedSequence > 0 /\ maxPacketBytes = 0
  BY <1>1, <1>3, Sizes DEF BMInv, Typed, GBTypeOK, InOrder, Room, Calls
<1>6. /\ remainingLen' \in Nat /\ totalBytesRead' \in Nat
      /\ totalBytesRead' + remainingLen' = bufLen
      /\ PutDataAt' = PlacedBytes' /\ PlacedBytes' \in Nat
      /\ Len(memory) = PlacedBytes' + remainingLen'
      /\ PlacedBytes' <= Len(memory)
  <2>1. PICK c : c = cur.len /\ c \in Nat /\ c <= remainingLen
    BY <1>2
  <2>2. PICK r, s, u, v : r = remainingLen' /\ s = totalBytesRead' /\ u = PlacedBytes' /\ v = totalBytes'
    OBVIOUS
  <2>3. r = remainingLen - c /\ s = totalBytesRead + c /\ u = PlacedBytes + c /\ v = totalBytes
    BY <1>1, <1>3, <1>4, <2>1, <2>2 DEF callerVars, copyVars
  <2>4. PICK M, b : M = Len(memory) /\ b = PlacedBytes
    OBVIOUS
  <2>5. /\ remainingLen \in Nat /\ totalBytesRead \in Nat /\ totalBytes \in Nat /\ bufLen \in Nat
        /\ b \in Nat
        /\ totalBytesRead + remainingLen = bufLen
        /\ M = totalBytes + bufLen /\ totalBytes + totalBytesRead = b
    BY <1>3, <1>5, <2>4 DEF PutDataAt
  <2>6. r \in Nat /\ s \in Nat /\ s + r = bufLen
    BY <2>1, <2>3, <2>5
  <2>7. v + s = u /\ u \in Nat /\ M = u + r /\ u <= M
    BY <2>1, <2>3, <2>4, <2>5
  <2> QED
    BY <2>2, <2>4, <2>6, <2>7 DEF PutDataAt
<1>7. maxPacketBytes' \in 0..Payload /\ (~veryFirstRead => maxPacketBytes' = 0)
  BY <1>2, <1>4, <1>5
<1>8. Typed'
  <2>1. last' \in BOOLEAN
    BY <1>1, <1>2 DEF BMInv, Typed
  <2> QED
    BY <1>1, <1>4, <1>6, <1>7, <2>1
       DEF BMInv, Typed, GBTypeOK, netVars, argVars, memVars, callerVars, copyVars
<1>9. \A q : Held(q) => Held(q)' /\ DataIn(q)' = DataIn(q)
  <2> SUFFICES ASSUME NEW q, Held(q) PROVE Held(q)' /\ DataIn(q)' = DataIn(q)
    OBVIOUS
  <2>1. SameWay(q) /\ reader' = reader
    BY <1>1 DEF SameWay, memVars
  <2> QED
    BY <2>1, HeldStays
<1>10. InOrder'
  <2> SUFFICES ASSUME NEW n \in 1..(Len(placed) + 1)
               PROVE  placed'[n].seq = n - 1 /\ Held(placed[n])'
    BY <1>1, <1>2, <1>3, <1>4, <1>5 DEF InOrder
  <2>1. PICK q : q = placed'[n]
    OBVIOUS
  <2>2. q.seq = n - 1 /\ Held(q)
    <3>1. CASE n \in 1..Len(placed)
      BY <1>3, <2>1, <3>1 DEF BMInv, InOrder
    <3>2. CASE n = Len(placed) + 1
      BY <1>2, <1>3, <1>5, <2>1, <3>2
    <3> QED
      BY <1>3, <3>1, <3>2
  <2>3. Held(q)'
    BY <1>9, <2>2
  <2> QED
    BY <2>1, <2>2, <2>3 DEF Held
<1>11. \A q \in stored : q.seq \in Nat /\ q.seq >= expectedSequence + 1
  <2>1. \A q \in stored : q.seq \in Nat /\ q.seq > expectedSequence
    BY <1>1, Sizes DEF BMInv, Early, Held
  <2> QED
    BY <1>5, <2>1
<1>12. ~NextIsStored => \A q \in stored : q.seq > expectedSequence + 1
  <2> SUFFICES ASSUME ~NextIsStored, NEW q \in stored PROVE q.seq # expectedSequence + 1
    BY <1>5, <1>11
  <2>1. q.seq = expectedSequence + 1 => \A r \in stored : q.seq <= r.seq
    BY <1>11
  <2> QED
    BY <2>1 DEF NextIsStored
<1>13. Early'
  <2>1. \A q \in stored : Held(q)'
    BY <1>9 DEF BMInv, Early
  <2>2. saved' = saved /\ stored' = stored
    BY <1>1 DEF memVars
  <2>3. pc' \in {"read", "place"} \/ Returned' => ~NextIsStored
    BY <1>1 DEF Returned
  <2> QED
    BY <1>4, <1>11, <1>12, <2>1, <2>2, <2>3 DEF BMInv, Early
<1>14. Directs'
  <2>1. direct' = direct /\ stored' = stored /\ reader' = reader
    BY <1>1 DEF memVars
  <2>2. \A s \in direct : s \in 0..(expectedSequence' - 1) \/ \E q \in stored : q.seq = s
    BY <1>1, <1>4, <1>5 DEF BMInv, Directs
  <2> QED
    BY <2>1, <2>2 DEF BMInv, Directs
<1>15. Room'
  <2>1. (reader = "fast" /\ placed' # <<>>) => totalBytesRead' > 0
    <3>1. CASE placed = <<>>
      <4>1. cur.len > 0
        BY <1>2, <1>5, <3>1
      <4> QED
        BY <1>2, <1>4, <1>5, <4>1
    <3>2. CASE placed # <<>>
      BY <1>2, <1>4, <1>5, <3>2 DEF BMInv, Room
    <3> QED
      BY <3>1, <3>2
  <2> QED
    BY <1>1, <1>4, <1>5, <1>6, <2>1 DEF BMInv, Room, argVars, memVars, callerVars, copyVars
<1>16. Calls'
  <2>1. (Returned' /\ ~veryFirstRead) => last'
    BY <1>1, <1>6, <1>7 DEF Returned
  <2>2. expectedSequence' > 0 /\ pc' # "place"
    BY <1>1, <1>4, <1>5
  <2> QED
    BY <1>4, <1>7, <2>1, <2>2 DEF Calls, argVars
<1>17. Intact'
  <2>1. memory' = memory /\ saved' = saved /\ stored' = stored /\ pc' # "place"
    BY <1>1 DEF memVars
  <2>2. ASSUME NEW n \in 1..(Len(placed) + 1) PROVE HasData(memory, StartOf(n), placed[n])'
    <3>1. PICK q, at : q = placed'[n] /\ at = StartOf(n)'
      OBVIOUS
    <3>2. Held(q) /\ HasData(memory, at, q)
      <4>1. CASE n \in 1..Len(placed)
        <5>1. q = placed[n] /\ at = StartOf(n)
          BY <1>3, <3>1, <4>1
        <5> QED
          BY <1>1, <4>1, <5>1 DEF BMInv, InOrder, Intact
      <4>2. CASE n = Len(placed) + 1
        <5>1. q = cur /\ at = PutDataAt
          BY <1>3, <1>5, <3>1, <4>2
        <5> QED
          BY <1>1, <1>2, <5>1 DEF BMInv, Intact
      <4> QED
        BY <1>3, <4>1, <4>2
    <3>3. DataIn(q)' = DataIn(q)
      BY <1>9, <3>2
    <3>4. DataIn(placed[n])' = DataIn(q)
      BY <3>1, <3>3 DEF DataIn
    <3> QED
      BY <2>1, <3>1, <3>2, <3>4 DEF HasData
  <2>3. ASSUME NEW q \in stored PROVE HasData(saved[q.seq], 0, q)'
    <3>1. DataIn(q)' = DataIn(q)
      BY <1>9 DEF BMInv, Early
    <3>2. HasData(saved[q.seq], 0, q)
      BY DEF BMInv, Intact
    <3> QED
      BY <2>1, <3>1, <3>2 DEF HasData
  <2> QED
    BY <1>3, <2>1, <2>2, <2>3 DEF Intact
<1>18. Ends'
  <2>1. Returned' => last' = cur.last /\ tick' = packetTick
    BY <1>1 DEF Returned
  <2>2. placed' # <<>> /\ placed'[Len(placed')] = cur
    BY <1>3
  <2>3. ~Filled'
    BY <1>1 DEF Filled, callerVars
  <2> QED
    BY <1>2, <2>1, <2>2, <2>3 DEF Ends
<1>19. ~cur.last => Len(placed') < NumPackets[cur.tick]
  <2>1. PICK n, e : n = NumPackets[cur.tick] /\ e = cur.seq
    OBVIOUS
  <2>2. n \in Nat /\ e \in 0..(n - 1) /\ (cur.last <=> e = n - 1)
    BY <1>2, <2>1, Sizes
  <2>3. Len(placed') = e + 1
    BY <1>2, <1>3, <1>5, <2>1
  <2>4. e # n - 1 => e + 1 < n
    BY <2>2
  <2> QED
    BY <2>1, <2>2, <2>3, <2>4
<1>20. Sized'
  <2>1. PICK X : X = Payload + HeaderRoom /\ X = Payload + HeaderRoom' /\ X \in Nat
    <3>1. HeaderRoom' = HeaderRoom
      BY <1>1 DEF HeaderRoom, memVars
    <3> QED
      BY <1>5, <3>1, Sizes
  <2>2. PlacedBytes' <= Len(placed') * X
    <3>1. Len(placed) <= Len(placed)
      BY <1>3
    <3>2. (Len(placed) + 1) * X = Len(placed) * X + X /\ Len(placed) * X \in Nat
      BY <1>3, <2>1, <3>1, Multiples
    <3>3. PlacedBytes <= Len(placed) * X
      BY <2>1 DEF BMInv, Sized
    <3>4. PICK y : y = Len(placed) * X /\ y \in Nat
      BY <3>2
    <3>5. PlacedBytes' <= y + X
      <4>1. PICK b, c : b = PlacedBytes /\ c = cur.len
        OBVIOUS
      <4>2. b \in Nat /\ c \in Nat /\ b <= y /\ c <= X /\ PlacedBytes' = b + c
        BY <1>2, <1>3, <2>1, <3>3, <3>4, <4>1
      <4>3. b + c <= y + X
        BY <2>1, <3>4, <4>2
      <4> QED
        BY <4>2, <4>3
    <3> QED
      BY <1>3, <3>2, <3>4, <3>5
  <2>3. pc' = "read" => Len(placed') < NumPackets[cur.tick]
    <3>1. pc' = "read" => ~cur.last
      BY <1>1
    <3> QED
      BY <3>1, <1>19
  <2> QED
    BY <1>2, <2>1, <2>2, <2>3 DEF Sized
<1>21. AmpleRoomSuffices'
  <2>1. pc' # "overrun" /\ (pc' = "done" => ret' \notin {"BUF_TOO_SMALL", "TRUNCATED_MSG"})
    BY <1>1
  <2>2. ASSUME AmpleRoom', Returned', ~last' PROVE FALSE
    <3>1. ~cur.last /\ remainingLen' < maxPacketBytes'
      BY <1>1, <2>2 DEF Returned
    <3>2. Len(placed') < NumPackets[cur.tick]
      BY <1>19, <3>1
    <3>3. AmpleRoom
      BY <1>1, <2>2 DEF AmpleRoom, memVars
    <3>4. PICK n, b, r : n = Len(placed') /\ b = PlacedBytes' /\ r = remainingLen'
      OBVIOUS
    <3>5. /\ n \in Nat /\ b \in Nat /\ r \in Nat /\ n < NumPackets[cur.tick]
          /\ Len(memory) = b + r
      BY <1>3, <1>6, <3>2, <3>4
    <3>6. b <= n * (Payload + HeaderRoom)
      <4>1. HeaderRoom' = HeaderRoom
        BY <1>1 DEF HeaderRoom, memVars
      <4> QED
        BY <1>20, <3>4, <4>1 DEF Sized
    <3>7. PICK t : t \in Ticks /\ t = cur.tick
      BY <1>2
    <3>8. Payload + HeaderBytes <= r
      BY <3>3, <3>5, <3>6, <3>7, RoomForMore
    <3>9. HeaderBytes \in Nat
      BY Sizes
    <3> QED
      BY <1>5, <1>6, <1>7, <3>1, <3>4, <3>8, <3>9
  <2> QED
    BY <2>1, <2>2 DEF AmpleRoomSuffices, Returned
<1> QED
  BY <1>8, <1>10, <1>13, <1>14, <1>15, <1>16, <1>17, <1>18, <1>20, <1>21 DEF BMInv

-----------------------------------------------------------------------------
(* A stored packet is copied to the buffer and becomes the one in hand.    *)
LEMMA DrainStep ==
    ASSUME BMInv, NEW q \in stored, BMDrain(q)
    PROVE  BMInv'
<1>1. /\ stage = "calling" /\ pc = "drain" /\ q.seq = expectedSequence
      /\ cur' = q /\ stored' = stored \ {q}
      /\ pc' = IF q.len <= remainingLen THEN "place" ELSE "overrun"
      /\ memory' = Copied(memory, PutDataAt, saved[q.seq])
      /\ saved' = [n \in DOMAIN saved \ {q.seq} |-> saved[n]]
      /\ UNCHANGED <<netVars, bufVars, headVars, outVars, argVars, packetTick,
                     reader, direct, callerVars>>
  BY DEF BMDrain, Drain
<1>2. PICK b : b = saved[q.seq] /\ b \in Seq(Byte) /\ Len(b) = q.len /\ Held(q)
  BY DEF BMInv, Early
<1>3. /\ KeepsPlaced
      /\ \A k \in 1..Len(b) : PutDataAt + k <= Len(memory) => memory'[PutDataAt + k] = b[k]
  BY <1>1, <1>2, CopyKeepsPlaced
<1>4. /\ placed' = placed /\ expectedSequence' = expectedSequence
      /\ remainingLen' = remainingLen /\ reader' = reader /\ direct' = direct
      /\ stage' = stage
  BY <1>1 DEF bufVars, callerVars
<1>5. Typed'
  BY <1>1, <1>3 DEF KeepsPlaced, BMInv, Typed, GBTypeOK, netVars, bufVars, headVars, outVars,
                    argVars, callerVars, copyVars
<1>6. PlacedBytes' = PlacedBytes /\ PutDataAt' = PutDataAt /\ Len(memory') = Len(memory)
  BY <1>1, <1>3 DEF PlacedBytes, PutDataAt, KeepsPlaced, bufVars, callerVars, copyVars
<1>7. \A r : Held(r) => Held(r)' /\ DataIn(r)' = DataIn(r)
  <2> SUFFICES ASSUME NEW r, Held(r) PROVE Held(r)' /\ DataIn(r)' = DataIn(r)
    OBVIOUS
  <2>1. SameWay(r)
    BY <1>4 DEF SameWay
  <2> QED
    BY <1>4, <2>1, HeldStays
<1>8. /\ \A n \in 1..Len(placed) : Held(placed[n])'
      /\ \A n \in 1..Len(placed) : HasData(memory, StartOf(n), placed[n])'
  <2>1. \A n \in 1..Len(placed) : SameWay(placed[n])
    BY <1>4 DEF SameWay
  <2> QED
    BY <1>1, <1>3, <1>4, <2>1, PlacedStays
<1>9. pc' \in {"place", "overrun"} /\ ~Returned'
  BY <1>1 DEF Returned
<1>10. Held(cur)' /\ DataIn(cur)' = DataIn(q)
  <2>1. Held(q)' /\ DataIn(q)' = DataIn(q)
    BY <1>2, <1>7
  <2> QED
    BY <1>1, <2>1 DEF Held, DataIn
<1>11. InOrder'
  BY <1>1, <1>4, <1>8, <1>9, <1>10 DEF BMInv, InOrder
<1>12. \A r \in stored' : r \in stored /\ r # q /\ r.seq # q.seq /\ r.seq > expectedSequence
  <2>1. expectedSequence \in Nat /\ \A r \in stored : r.seq \in Nat
    BY PlacedMeasured, Sizes DEF BMInv, InOrder, Early, Held
  <2> QED
    BY <1>1, <2>1 DEF BMInv, Early
<1>13. \A r \in stored' : saved'[r.seq] = saved[r.seq]
  BY <1>1, <1>12 DEF BMInv, Early
<1>14. Early'
  <2>1. \A r \in stored' : Held(r)'
    BY <1>7, <1>12 DEF BMInv, Early
  <2>2. \A r, s \in stored' : r.seq = s.seq => r = s
    BY <1>12 DEF BMInv, Early
  <2>3. DOMAIN saved' = {r.seq : r \in stored'}
    BY <1>1, <1>12 DEF BMInv, Early
  <2>4. \A r \in stored' : saved'[r.seq] \in Seq(Byte) /\ Len(saved'[r.seq]) = r.len
    BY <1>12, <1>13 DEF BMInv, Early
  <2> QED
    BY <1>4, <1>9, <1>12, <2>1, <2>2, <2>3, <2>4 DEF Early
<1>15. Directs'
  BY <1>1, <1>4, <1>9 DEF BMInv, Directs
<1>16. Room'
  <2>1. pc' = "place" => cur'.len <= remainingLen'
    BY <1>1, <1>4
  <2> QED
    BY <1>1, <1>4, <1>6, <2>1 DEF BMInv, Room, bufVars, argVars, callerVars, copyVars
<1>17. Calls'
  BY <1>1, <1>4, <1>9 DEF BMInv, Calls, headVars, argVars
<1>18. Intact'
  <2>1. pc' = "place" => HasData(memory, PutDataAt, cur)'
    <3>1. SUFFICES ASSUME pc' = "place", NEW k \in 1..DataIn(q)
                   PROVE  memory'[PutDataAt + k] = <<q.tick, q.seq, k>>
      BY <1>1, <1>6, <1>10 DEF HasData
    <3>2. DataIn(q) \in Nat /\ DataIn(q) <= q.len /\ q.len \in Nat
      BY <1>2, DataInLen
    <3>3. q.len <= remainingLen /\ remainingLen \in Nat /\ totalBytesRead \in Nat /\ totalBytes \in Nat
          /\ totalBytesRead + remainingLen = bufLen /\ Len(memory) = totalBytes + bufLen
      BY <1>1, <3>1 DEF BMInv, Typed, GBTypeOK, Room
    <3>4. k \in 1..Len(b) /\ 0 + k = k
      BY <1>2, <3>2
    <3>5. PutDataAt + k <= Len(memory)
      BY <3>2, <3>3 DEF PutDataAt
    <3>6. b[0 + k] = <<q.tick, q.seq, k>>
      BY <1>2 DEF BMInv, Intact, HasData
    <3> QED
      BY <1>3, <3>4, <3>5, <3>6
  <2>2. ASSUME NEW r \in stored' PROVE HasData(saved[r.seq], 0, r)'
    <3>1. DataIn(r)' = DataIn(r)
      BY <1>7, <1>12 DEF BMInv, Early
    <3>2. HasData(saved[r.seq], 0, r)
      BY <1>12 DEF BMInv, Intact
    <3> QED
      BY <1>13, <3>1, <3>2 DEF HasData
  <2> QED
    BY <1>4, <1>8, <2>1, <2>2 DEF Intact
<1>19. Ends'
  BY <1>1, <1>4, <1>9 DEF Ends, Filled
<1>20. Sized'
  BY <1>4, <1>6, <1>9 DEF BMInv, Sized, HeaderRoom
<1>21. AmpleRoomSuffices'
  <2>1. SUFFICES ASSUME AmpleRoom' PROVE pc' # "overrun"
    BY <1>9 DEF AmpleRoomSuffices, Returned
  <2>2. AmpleRoom
    BY <1>4, <1>6, <2>1 DEF AmpleRoom
  <2>3. /\ q.tick \in Ticks /\ q.len \in Nat /\ q.len <= Payload + HeaderRoom
        /\ q.seq \in 0..(NumPackets[q.tick] - 1) /\ NumPackets[q.tick] \in Nat
    BY <1>2, Sizes DEF Held
  <2>4. Len(placed) < NumPackets[q.tick]
    BY <1>1, <2>3 DEF BMInv, InOrder
  <2>5. Payload + HeaderBytes <= remainingLen
    BY <1>1, <2>2, <2>3, <2>4, RoomForNext
  <2>6. HeaderRoom <= HeaderBytes /\ HeaderRoom \in Nat /\ HeaderBytes \in Nat /\ Payload \in Nat
        /\ remainingLen \in Nat
    BY Sizes DEF HeaderRoom, BMInv, Typed
  <2> QED
    BY <1>1, <2>3, <2>5, <2>6
<1> QED
  BY <1>5, <1>11, <1>14, <1>15, <1>16, <1>17, <1>18, <1>19, <1>20, <1>21 DEF BMInv

-----------------------------------------------------------------------------
(* The calls.                                                              *)

(* Nothing is placed before the first one.                                 *)
LEMMA NothingPlaced ==
    ASSUME placed = <<>>
    PROVE  PlacedBytes = 0 /\ Len(placed) = 0
<1>1. PICK s : s = placed /\ s = <<>>
  OBVIOUS
<1>2. s \in Seq({}) /\ Len(s) = 0
  BY <1>1
<1>3. Measured(s)
  BY <1>2 DEF Measured
<1>4. BytesUpTo(s)[0] = 0
  BY <1>3, Sums
<1> QED
  BY <1>1, <1>2, <1>4 DEF PlacedBytes

(* The lengths of first buffers.                                           *)
LEMMA Lengths ==
    /\ InitialLens \subseteq Nat
    /\ \A n \in InitialLens : 2 * n < Two32
BY GetBufferAssumption

(* The buffer is allocated, or the caller's, and the first call made.      *)
LEMMA StartStep == BMInv /\ BMStart => BMInv'
<1> SUFFICES ASSUME BMInv, BMStart PROVE BMInv'
  OBVIOUS
<1>1. stage = "start"
  BY DEF BMStart, StartNoCopy, StartNoMemory, StartCopy
<1>2. /\ pc = "read" /\ placed = <<>> /\ stored = {} /\ expectedSequence = 0
      /\ veryFirstRead /\ ~firstReadForBuf /\ totalBytesRead = 0 /\ remainingLen = bufLen
      /\ ~userBuf /\ PutDataAt = PlacedBytes
  BY <1>1 DEF BMInv, Room, InitCall
<1>3. /\ memory' = NewMemory(bufLen') /\ UNCHANGED <<reader, saved, direct>>
      /\ UNCHANGED <<netVars, headVars, mapVars, outVars, pc, veryFirstRead, cur, packetTick,
                     totalBytesRead, expectedSequence, placed, noCopy, totalBytes, userBuf>>
      /\ \/ noCopy /\ stage' = "calling" /\ UNCHANGED <<bufLen, remainingLen, copyVars, result>>
         \/ /\ ~noCopy /\ stage' = "returned" /\ result' = ErrorValue.OUT_OF_ORDER
            /\ UNCHANGED <<bufLen, remainingLen, copyVars>>
         \/ /\ ~noCopy /\ stage' = "calling" /\ UNCHANGED result
            /\ \E len \in InitialLens : /\ dataBufLen' = len /\ remaningBytes' = len
                                        /\ bufLen' = len /\ remainingLen' = len
  BY DEF BMStart, StartNoCopy, StartNoMemory, StartCopy, Return, vars, bufVars, argVars, copyVars
<1>4. PlacedBytes = 0 /\ Len(placed) = 0 /\ PlacedBytes' = 0 /\ Len(placed') = 0
  BY <1>2, <1>3, NothingPlaced DEF PlacedBytes
<1>5. totalBytes = 0 /\ totalBytes' = 0
  BY <1>2, <1>3, <1>4 DEF PutDataAt, BMInv, Typed, GBTypeOK
<1>6. bufLen' \in Nat /\ remainingLen' = bufLen'
  BY <1>2, <1>3, Lengths DEF BMInv, Typed
<1>7. memory' \in Seq(Byte) /\ Len(memory') = bufLen'
  BY <1>3, <1>6, JunkIsBytes DEF NewMemory
<1>8. Typed'
  <2>1. dataBufLen' \in Nat /\ remaningBytes' \in Nat /\ result' \in Int
    BY <1>3, Lengths DEF BMInv, Typed, GBTypeOK, copyVars, ErrorValue
  <2>2. stage' \in {"calling", "returned"}
    BY <1>3
  <2> QED
    BY <1>3, <1>5, <1>6, <1>7, <2>1, <2>2
       DEF BMInv, Typed, GBTypeOK, netVars, headVars, outVars, mapVars
<1>9. InOrder' /\ Directs'
  BY <1>2, <1>3, <1>4 DEF BMInv, InOrder, Directs, mapVars
<1>10. Early'
  BY <1>2, <1>3 DEF BMInv, Early, mapVars
<1>11. Room'
  <2> PICK n : n = bufLen' /\ n \in Nat /\ 0 + n = n /\ 0 <= n
    BY <1>6
  <2>1. PutDataAt' = PlacedBytes' /\ totalBytesRead' + remainingLen' = bufLen'
    <3>1. totalBytesRead' = 0 /\ remainingLen' = n
      BY <1>2, <1>3, <1>6
    <3>2. PutDataAt' = 0
      BY <1>5, <3>1 DEF PutDataAt
    <3> QED
      BY <1>4, <3>1, <3>2
  <2>2. Len(memory') = totalBytes' + bufLen' /\ PlacedBytes' <= Len(memory')
    BY <1>4, <1>5, <1>7
  <2>3. (stage' = "calling" /\ ~noCopy) =>
            dataBufLen' = Len(memory') /\ remaningBytes' = bufLen' /\ dataBufLen' \in InitialLens
    BY <1>3, <1>7
  <2>4. stage' # "start" /\ pc' # "place" /\ ~(placed' # <<>>)
    BY <1>2, <1>3
  <2> QED
    BY <1>2, <1>3, <1>4, <1>5, <2>1, <2>2, <2>3, <2>4 DEF Room
<1>12. Calls'
  BY <1>2, <1>3 DEF Calls, headVars
<1>13. Intact'
  BY <1>2, <1>3, <1>4 DEF Intact, mapVars
<1>14. Ends'
  BY <1>2, <1>3 DEF Ends, Returned, Filled
<1>15. Sized'
  <2>1. PICK X : X = Payload + HeaderRoom' /\ X \in Nat
    <3>1. HeaderRoom' = HeaderRoom
      BY <1>3 DEF HeaderRoom
    <3> QED
      BY <3>1, Sizes
  <2>2. PlacedBytes' <= Len(placed') * X
    BY <1>4, <2>1
  <2> QED
    BY <1>2, <1>3, <2>1, <2>2 DEF Sized
<1>16. AmpleRoomSuffices'
  BY <1>2, <1>3 DEF AmpleRoomSuffices, Returned
<1> QED
  BY <1>8, <1>9, <1>10, <1>11, <1>12, <1>13, <1>14, <1>15, <1>16 DEF BMInv

(* What ends it all: only the caller's side changes.                       *)
Finish ==
    /\ CallEnded
    /\ UNCHANGED <<netVars, bufVars, headVars, stored, outVars, pc, argVars, cur, packetTick,
                   noCopy, memVars, dataBufLen>>
    /\ stage' \in {"returned", "aborted"}
    /\ totalBytes' \in Nat /\ remaningBytes' \in Nat
    /\ userBuf' \in BOOLEAN /\ result' \in Int

LEMMA FinishStep ==
    ASSUME BMInv, Finish,
           Filled' => ret = "OK" /\ last /\ reader # "fast" /\ totalBytes' = PlacedBytes
    PROVE  BMInv'
<1>1. /\ pc = "done" /\ stage = "calling" /\ pc' = pc /\ stage' \in {"returned", "aborted"}
      /\ UNCHANGED <<net, stored, saved, direct, reader, memory, placed, expectedSequence, cur,
                     packetTick, ret, last, tick, veryFirstRead, bufLen, remainingLen, totalBytesRead,
                     firstReadForBuf, maxPacketBytes, noCopy, dataBufLen>>
  BY DEF Finish, CallEnded, netVars, bufVars, headVars, outVars, argVars, memVars
<1>2. PlacedBytes' = PlacedBytes /\ (Returned' <=> Returned) /\ Len(memory') = Len(memory)
  BY <1>1 DEF PlacedBytes, Returned
<1>3. \A q : Held(q)' <=> Held(q)
  BY <1>1 DEF Held, HeaderRoom
<1>4. Typed'
  BY <1>1 DEF Finish, BMInv, Typed, GBTypeOK
<1>5. InOrder'
  <2> SUFFICES ASSUME NEW n \in 1..Len(placed) PROVE placed[n].seq = n - 1 /\ Held(placed[n])'
    BY <1>1 DEF BMInv, InOrder
  <2>1. placed[n].seq = n - 1 /\ Held(placed[n])
    BY DEF BMInv, InOrder
  <2> QED
    BY <1>1, <2>1 DEF Held, HeaderRoom
<1>6. Early'
  BY <1>1, <1>2, <1>3 DEF BMInv, Early
<1>7. Directs'
  BY <1>1 DEF BMInv, Directs
<1>8. Room'
  BY <1>1, <1>2 DEF BMInv, Room
<1>9. Calls'
  BY <1>1, <1>2 DEF BMInv, Calls
<1>10. Intact'
  BY <1>1 DEF BMInv, Intact, HasData, DataIn, StartOf
<1>11. Ends'
  BY <1>1, <1>2 DEF BMInv, Ends, Returned
<1>12. Sized'
  BY <1>1, <1>2 DEF BMInv, Sized, HeaderRoom
<1>13. AmpleRoomSuffices'
  BY <1>1, <1>2 DEF BMInv, AmpleRoomSuffices, AmpleRoom
<1> QED
  BY <1>4, <1>5, <1>6, <1>7, <1>8, <1>9, <1>10, <1>11, <1>12, <1>13 DEF BMInv

(* Another call is made, with a buffer that has len bytes left after what  *)
(* is in it.                                                               *)
MakesRoom(len) ==
    /\ MoreToRead /\ reader # "fast"
    /\ CallAgain(len)
    /\ len \in Nat
    /\ totalBytes' = totalBytes + totalBytesRead
    /\ remaningBytes' = len
    /\ dataBufLen' = totalBytes' + len
    /\ memory' \in Seq(Byte) /\ Len(memory') = dataBufLen'
    /\ KeepsData
    /\ UNCHANGED <<reader, saved, direct>>

LEMMA AgainStep ==
    ASSUME BMInv, NEW len, MakesRoom(len)
    PROVE  BMInv'
<1>1. /\ pc = "done" /\ stage = "calling" /\ ~noCopy /\ Returned /\ ~last /\ reader # "fast"
      /\ pc' = "read" /\ veryFirstRead' = FALSE /\ bufLen' = len /\ remainingLen' = len
      /\ totalBytesRead' = 0 /\ firstReadForBuf' = FALSE /\ maxPacketBytes' = 0
      /\ UNCHANGED <<net, stored, saved, direct, reader, placed, expectedSequence, packetTick,
                     ret, last, tick, noCopy, stage, userBuf, result>>
  BY DEF MakesRoom, MoreToRead, CallEnded, CallAgain, Returned, netVars, mapVars, outVars
<1>2. /\ len \in Nat /\ totalBytes \in Nat /\ totalBytesRead \in Nat
      /\ totalBytes + totalBytesRead = PlacedBytes /\ ~userBuf
  BY <1>1 DEF MakesRoom, BMInv, Typed, GBTypeOK, Room, PutDataAt
<1>3. PICK b : b = PlacedBytes /\ b = PlacedBytes' /\ b = totalBytes' /\ b \in Nat
  BY <1>1, <1>2 DEF PlacedBytes, MakesRoom
<1>4. PICK M : M = b + len /\ M \in Nat /\ b <= M /\ b + 0 = b /\ 0 + len = len
  <2>1. b \in Nat /\ len \in Nat
    BY <1>2, <1>3
  <2> QED
    BY <2>1
<1>5. /\ dataBufLen' = M /\ Len(memory') = M /\ memory' \in Seq(Byte)
      /\ remaningBytes' = len
  BY <1>3, <1>4 DEF MakesRoom
<1>6. Typed'
  <2>1. dataBufLen' \in Nat /\ totalBytes' \in Nat /\ remaningBytes' \in Nat
    BY <1>2, <1>3, <1>4, <1>5
  <2>2. bufLen' \in Nat /\ remainingLen' \in Nat /\ totalBytesRead' \in Nat
        /\ maxPacketBytes' \in 0..Payload
    BY <1>1, <1>2, Sizes
  <2> QED
    BY <1>1, <1>5, <2>1, <2>2 DEF BMInv, Typed, GBTypeOK
<1>7. \A q : Held(q) => Held(q)' /\ DataIn(q)' = DataIn(q)
  <2> SUFFICES ASSUME NEW q, Held(q) PROVE Held(q)' /\ DataIn(q)' = DataIn(q)
    OBVIOUS
  <2>1. SameWay(q)
    BY <1>1 DEF SameWay
  <2> QED
    BY <1>1, <2>1, HeldStays
<1>8. /\ \A n \in 1..Len(placed) : Held(placed[n])'
      /\ \A n \in 1..Len(placed) : HasData(memory, StartOf(n), placed[n])'
  <2>1. \A n \in 1..Len(placed) : SameWay(placed[n])
    BY <1>1 DEF SameWay
  <2>2. KeepsData
    BY DEF MakesRoom
  <2> QED
    BY <1>1, <2>1, <2>2, DataStays
<1>9. InOrder'
  BY <1>1, <1>8 DEF BMInv, InOrder
<1>10. Early'
  <2>1. \A q \in stored : Held(q)'
    BY <1>7 DEF BMInv, Early
  <2>2. \A q \in stored : q.seq > expectedSequence
    BY <1>1 DEF BMInv, Early
  <2> QED
    BY <1>1, <2>1, <2>2 DEF BMInv, Early
<1>11. Directs'
  BY <1>1 DEF BMInv, Directs
<1>12. Room'
  <2>1. totalBytesRead' + remainingLen' = bufLen' /\ PutDataAt' = PlacedBytes'
    BY <1>1, <1>3, <1>4 DEF PutDataAt
  <2>2. Len(memory') = totalBytes' + bufLen' /\ PlacedBytes' <= Len(memory')
    BY <1>1, <1>3, <1>4, <1>5
  <2>3. dataBufLen' = Len(memory') /\ remaningBytes' = bufLen'
    BY <1>1, <1>5
  <2>4. PlacedBytes' \in Nat
    BY <1>3
  <2> QED
    BY <1>1, <1>2, <2>1, <2>2, <2>3, <2>4 DEF Room
<1>13. placed # <<>> /\ ~placed[Len(placed)].last
  BY <1>1 DEF BMInv, Ends
<1>14. Len(placed) \in Nat /\ Len(placed) > 0 /\ expectedSequence = Len(placed)
  <2>1. Len(placed) \in Nat /\ expectedSequence = Len(placed) /\ Len(placed) # 0
    BY <1>13, PlacedMeasured DEF BMInv, InOrder
  <2> QED
    BY <2>1
<1>15. Calls'
  BY <1>1, <1>14 DEF Calls, Returned
<1>16. Intact'
  <2>1. ASSUME NEW q \in stored PROVE HasData(saved[q.seq], 0, q)'
    <3>1. DataIn(q)' = DataIn(q)
      BY <1>7 DEF BMInv, Early
    <3>2. HasData(saved[q.seq], 0, q)
      BY DEF BMInv, Intact
    <3> QED
      BY <1>1, <3>1, <3>2 DEF HasData
  <2> QED
    BY <1>1, <1>8, <2>1 DEF Intact
<1>17. Ends' /\ AmpleRoomSuffices'
  BY <1>1 DEF Ends, Filled, AmpleRoomSuffices, Returned
<1>18. Sized'
  <2>1. PICK q : q = placed[Len(placed)] /\ Held(q) /\ q.seq = Len(placed) - 1 /\ ~q.last
    <3>1. Len(placed) \in 1..Len(placed)
      BY <1>14
    <3> QED
      BY <1>13, <3>1 DEF BMInv, InOrder
  <2>2. q.tick \in Ticks /\ NumPackets[q.tick] \in Nat
        /\ q.seq \in 0..(NumPackets[q.tick] - 1) /\ q.seq # NumPackets[q.tick] - 1
    BY <2>1, Sizes DEF Held
  <2>3. Len(placed) < NumPackets[q.tick]
    BY <1>14, <2>1, <2>2
  <2>4. PlacedBytes' <= Len(placed') * (Payload + HeaderRoom')
    BY <1>1, <1>3 DEF BMInv, Sized, HeaderRoom
  <2> QED
    BY <1>1, <2>2, <2>3, <2>4 DEF Sized
<1> QED
  BY <1>6, <1>9, <1>10, <1>11, <1>12, <1>15, <1>16, <1>17, <1>18 DEF BMInv

(* getPacketizedBuffer returns one of its codes.                           *)
LEMMA CodesStep == BMInv /\ Codes /\ [BMNext]_bmVars => Codes'
<1> SUFFICES ASSUME BMInv, Codes, [BMNext]_bmVars PROVE Codes'
  OBVIOUS
<1>1. ret' = ret \/ ret' \in {"OK", "RECV_MSG", "TRUNCATED_MSG", "BUF_TOO_SMALL", "OUT_OF_ORDER",
                              "BAD_FIRST_LAST_BIT", "OUT_OF_MEM"}
  <2>1. CASE BMStart
    BY <2>1 DEF BMStart, StartNoCopy, StartNoMemory, StartCopy, vars, outVars
  <2>2. CASE BMRead
    BY <2>2 DEF BMRead, RecvMsgTruncated, RecvFromTooSmall, HeaderCut, BMReadInOrder, BMReadAgain,
                BMReadButMapFull, BMReadButNoMemory, BMReadAndStore, GiveUp, ReturnError, outVars
  <2>3. CASE BMPlace
    BY <2>3, PlaceParts
  <2>4. CASE \E q \in stored : BMDrain(q)
    BY <2>4 DEF BMDrain, Drain, outVars
  <2>5. CASE BMDouble
    BY <2>5 DEF BMDouble, DoubleBuffer, CallAgain, outVars
  <2>6. CASE BMEnd
    BY <2>6 DEF BMEnd, EndNoCopy, EndOnError, EndComplete, ContinueInBuffer, DoubleNoMemory,
                FreeMapAndReturn, CallAgain, outVars
  <2>7. CASE EndFast
    BY <2>7 DEF EndFast, vars, outVars
  <2>8. CASE Trouble
    BY <2>8 DEF Trouble, RecvFails, Lose, ReturnError, outVars
  <2>9. CASE UNCHANGED bmVars
    BY <2>9 DEF bmVars, allVars, vars, outVars
  <2> QED
    BY <2>1, <2>2, <2>3, <2>4, <2>5, <2>6, <2>7, <2>8, <2>9 DEF BMNext, BMRoutine
<1> QED
  BY <1>1 DEF Codes, ErrorValue

(* freeMap, and a return or an abort.                                      *)
LEMMA FreedOrAborted ==
    ASSUME NEW value \in Int, FreeMapAndReturn(value), result \in Int
    PROVE  /\ UNCHANGED <<netVars, bufVars, headVars, stored, outVars, pc, argVars, cur, packetTick, noCopy>>
           /\ stage' \in {"returned", "aborted"}
           /\ result' \in Int
           /\ stage' = "returned" => result' = value
BY DEF FreeMapAndReturn, Return

(* What is in the buffer when a call has ended.                            *)
LEMMA AtCallEnd ==
    ASSUME BMInv, CallEnded
    PROVE  /\ totalBytes \in Nat /\ totalBytesRead \in Nat /\ remainingLen \in Nat
           /\ totalBytes + totalBytesRead = PlacedBytes /\ PlacedBytes \in Nat
           /\ noCopy => totalBytes = 0
           /\ ~noCopy => /\ RoomLeft = remainingLen
                         /\ dataBufLen = PlacedBytes + remainingLen
                         /\ dataBufLen = Len(memory)
           /\ remaningBytes \in Nat /\ dataBufLen \in Nat /\ result \in Int /\ userBuf = FALSE
<1>1. stage = "calling"
  BY DEF CallEnded
<1>2. /\ totalBytes \in Nat /\ totalBytesRead \in Nat /\ remainingLen \in Nat /\ remaningBytes \in Nat
      /\ dataBufLen \in Nat /\ result \in Int /\ userBuf = FALSE /\ bufLen \in Nat
      /\ PlacedBytes \in Nat
  BY <1>1 DEF BMInv, Typed, GBTypeOK, Room
<1>3. /\ totalBytes + totalBytesRead = PlacedBytes /\ totalBytesRead + remainingLen = bufLen
      /\ noCopy => totalBytes = 0
      /\ ~noCopy => remaningBytes = bufLen /\ dataBufLen = totalBytes + bufLen /\ dataBufLen = Len(memory)
  BY <1>1 DEF BMInv, Room, PutDataAt
<1>4. ~noCopy => remaningBytes - totalBytesRead = remainingLen
                 /\ dataBufLen = PlacedBytes + remainingLen
  BY <1>2, <1>3
<1> QED
  BY <1>2, <1>3, <1>4 DEF RoomLeft

(* getBuffer returns, or calls again with the room that is left.           *)
LEMMA EndStep == BMInv /\ BMEnd => BMInv'
<1> SUFFICES ASSUME BMInv, BMEnd PROVE BMInv'
  OBVIOUS
<1>1. CallEnded /\ reader # "fast" /\ UNCHANGED memVars
  BY DEF BMEnd, EndNoCopy, EndOnError, EndComplete, ContinueInBuffer, DoubleNoMemory, MoreToRead
<1>2. /\ totalBytes \in Nat /\ totalBytesRead \in Nat /\ remainingLen \in Nat
      /\ totalBytes + totalBytesRead = PlacedBytes /\ PlacedBytes \in Nat
      /\ noCopy => totalBytes = 0
      /\ ~noCopy => /\ RoomLeft = remainingLen
                    /\ dataBufLen = PlacedBytes + remainingLen
                    /\ dataBufLen = Len(memory)
      /\ remaningBytes \in Nat /\ dataBufLen \in Nat /\ result \in Int /\ userBuf = FALSE
  BY <1>1, AtCallEnd
<1>4. CASE EndNoCopy
  <2>1. PICK seen \in LastAsSeen :
           /\ FreeMapAndReturn(IF seen THEN 0 ELSE ErrorValue.BUF_TOO_SMALL)
           /\ totalBytes' = IF seen /\ ret = "OK" THEN totalBytesRead ELSE totalBytes
    BY <1>4 DEF EndNoCopy
  <2>2. PICK value : value = (IF seen THEN 0 ELSE ErrorValue.BUF_TOO_SMALL) /\ value \in Int
                     /\ (~seen => value # 0)
    BY DEF ErrorValue
  <2>3. noCopy /\ UNCHANGED <<dataBufLen, remaningBytes, userBuf>>
    BY <1>4 DEF EndNoCopy
  <2>4. /\ UNCHANGED <<netVars, bufVars, headVars, stored, outVars, pc, argVars, cur, packetTick, noCopy>>
        /\ stage' \in {"returned", "aborted"} /\ result' \in Int
        /\ stage' = "returned" => result' = value
    BY <1>2, <2>1, <2>2, FreedOrAborted
  <2>5. Finish
    BY <1>1, <1>2, <2>1, <2>3, <2>4 DEF Finish
  <2>6. Filled' => ret = "OK" /\ last /\ reader # "fast" /\ totalBytes' = PlacedBytes
    <3>1. SUFFICES ASSUME Filled' PROVE ret = "OK" /\ last /\ totalBytes' = PlacedBytes
      BY <1>1
    <3>2. stage' = "returned" /\ ret = "OK" /\ value = 0
      BY <1>2, <2>3, <2>4, <3>1 DEF Filled, outVars
    <3>3. seen /\ last
      BY <2>1, <2>2, <3>2 DEF LastAsSeen, BMInv, Typed
    <3>4. totalBytes' = totalBytesRead
      BY <2>1, <3>2, <3>3
    <3>5. totalBytesRead = PlacedBytes
      BY <1>2, <2>3
    <3> QED
      BY <3>2, <3>3, <3>4, <3>5
  <2> QED
    BY <2>5, <2>6, FinishStep
<1>5. CASE EndOnError
  <2>1. FreeMapAndReturn(totalBytes) /\ UNCHANGED copyVars /\ ~noCopy /\ totalBytes \in Int
    BY <1>2, <1>5 DEF EndOnError
  <2>2. /\ UNCHANGED <<netVars, bufVars, headVars, stored, outVars, pc, argVars, cur, packetTick, noCopy>>
        /\ stage' \in {"returned", "aborted"} /\ result' \in Int
    BY <1>2, <2>1, FreedOrAborted
  <2>3. Finish
    BY <1>1, <1>2, <2>1, <2>2 DEF Finish, copyVars
  <2>4. ~Filled'
    BY <1>2, <2>1, <2>2 DEF Filled, copyVars
  <2> QED
    BY <2>3, <2>4, FinishStep
<1>6. CASE EndComplete
  <2>1. /\ FreeMapAndReturn(0) /\ ~noCopy /\ ret = "OK" /\ last
        /\ totalBytes' = totalBytes + totalBytesRead
        /\ remaningBytes' = RoomLeft
        /\ userBuf' = TRUE /\ UNCHANGED dataBufLen
    BY <1>6 DEF EndComplete, RoomLeft
  <2>2. /\ UNCHANGED <<netVars, bufVars, headVars, stored, outVars, pc, argVars, cur, packetTick, noCopy>>
        /\ stage' \in {"returned", "aborted"} /\ result' \in Int
    BY <1>2, <2>1, FreedOrAborted
  <2>3. totalBytes' = PlacedBytes /\ remaningBytes' = remainingLen
    BY <1>2, <2>1
  <2>4. Finish
    BY <1>1, <1>2, <2>1, <2>2, <2>3 DEF Finish
  <2>5. Filled' => ret = "OK" /\ last /\ reader # "fast" /\ totalBytes' = PlacedBytes
    BY <1>1, <2>1, <2>3
  <2> QED
    BY <2>4, <2>5, FinishStep
<1>7. CASE ContinueInBuffer
  <2>1. PICK len : len = RoomLeft
    OBVIOUS
  <2>2. /\ MoreToRead /\ CallAgain(len) /\ UNCHANGED dataBufLen
        /\ totalBytes' = totalBytes + totalBytesRead /\ remaningBytes' = len
    BY <1>7, <2>1 DEF ContinueInBuffer
  <2>3. ~noCopy
    BY <2>2 DEF MoreToRead
  <2>4. len = remainingLen /\ totalBytes' = PlacedBytes /\ dataBufLen = PlacedBytes + len
        /\ dataBufLen = Len(memory)
    BY <1>2, <2>1, <2>2, <2>3
  <2>5. dataBufLen' = totalBytes' + len /\ Len(memory') = dataBufLen'
    BY <1>1, <2>2, <2>4 DEF memVars
  <2>6. memory' \in Seq(Byte) /\ KeepsData
    BY <1>1 DEF memVars, KeepsData, BMInv, Typed
  <2>7. MakesRoom(len)
    BY <1>1, <1>2, <2>2, <2>4, <2>5, <2>6 DEF MakesRoom, memVars
  <2> QED
    BY <2>7, AgainStep
<1>8. CASE DoubleNoMemory
  <2>1. /\ FreeMapAndReturn(ErrorValue.OUT_OF_MEM) /\ ~noCopy
        /\ totalBytes' = totalBytes + totalBytesRead /\ remaningBytes' = RoomLeft
        /\ UNCHANGED <<dataBufLen, userBuf>>
    BY <1>8 DEF DoubleNoMemory, MoreToRead
  <2>2. ErrorValue.OUT_OF_MEM \in Int
    BY DEF ErrorValue
  <2>3. /\ UNCHANGED <<netVars, bufVars, headVars, stored, outVars, pc, argVars, cur, packetTick, noCopy>>
        /\ stage' \in {"returned", "aborted"} /\ result' \in Int
    BY <1>2, <2>1, <2>2, FreedOrAborted
  <2>4. totalBytes' = PlacedBytes /\ remaningBytes' = remainingLen
    BY <1>2, <2>1
  <2>5. Finish
    BY <1>1, <1>2, <2>1, <2>3, <2>4 DEF Finish
  <2>6. ~Filled'
    BY <1>2, <2>1, <2>3 DEF Filled
  <2> QED
    BY <2>5, <2>6, FinishStep
<1> QED
  BY <1>4, <1>5, <1>6, <1>7, <1>8 DEF BMEnd

(* The caller of the fast routine gets what it returns.                    *)
LEMMA FastStep == BMInv /\ Codes /\ EndFast => BMInv'
<1> SUFFICES ASSUME BMInv, Codes, EndFast PROVE BMInv'
  OBVIOUS
<1>1. /\ CallEnded /\ reader = "fast" /\ stage' = "returned"
      /\ result' = IF ret = "OK" THEN totalBytesRead ELSE ErrorValue[ret]
      /\ UNCHANGED <<vars, noCopy, copyVars, memVars>>
  BY DEF EndFast, Return
<1>2. totalBytes \in Nat /\ totalBytesRead \in Nat /\ remaningBytes \in Nat /\ userBuf = FALSE
  BY <1>1, AtCallEnd
<1>3. result' \in Int
  <2>1. ret # "OK" => ErrorValue[ret] \in Int
    BY DEF Codes, ErrorValue
  <2> QED
    BY <1>1, <1>2, <2>1
<1>4. Finish
  BY <1>1, <1>2, <1>3 DEF Finish, vars, mapVars, copyVars
<1>5. ret = "OK" => totalBytesRead > 0
  BY <1>1 DEF BMInv, Ends, Room, Returned, CallEnded
<1>6. ~Filled'
  <2>1. SUFFICES ASSUME Filled' PROVE FALSE
    OBVIOUS
  <2>2. ret = "OK" /\ result' = 0
    BY <1>1, <1>2, <2>1 DEF Filled, vars, outVars, copyVars
  <2>3. totalBytesRead = 0
    BY <1>1, <2>2
  <2> QED
    BY <1>2, <1>5, <2>2, <2>3
<1> QED
  BY <1>4, <1>6, FinishStep

(* The buffer is doubled, with what is in it.                              *)
LEMMA DoubleStep == BMInv /\ BMDouble => BMInv'
<1> SUFFICES ASSUME BMInv, BMDouble PROVE BMInv'
  OBVIOUS
<1>1. /\ reader # "fast" /\ MoreToRead /\ CallEnded /\ ~noCopy
      /\ totalBytes' = totalBytes + totalBytesRead
      /\ dataBufLen' = (2 * dataBufLen) % Two32
      /\ remaningBytes' = dataBufLen' - totalBytes'
      /\ CallAgain(remaningBytes')
      /\ memory' = Reallocated /\ UNCHANGED <<reader, saved, direct>>
  BY DEF BMDouble, DoubleBuffer, MoreToRead
<1>2. /\ totalBytes \in Nat /\ totalBytesRead \in Nat /\ remainingLen \in Nat
      /\ totalBytes + totalBytesRead = PlacedBytes /\ PlacedBytes \in Nat
      /\ dataBufLen = PlacedBytes + remainingLen /\ dataBufLen = Len(memory)
  BY <1>1, AtCallEnd
<1>3. dataBufLen \in InitialLens
  <2>1. stage = "calling" /\ Returned /\ ~last
    BY <1>1 DEF MoreToRead, CallEnded, Returned
  <2>2. veryFirstRead
    BY <2>1 DEF BMInv, Calls, Typed
  <2> QED
    BY <1>1, <2>1, <2>2 DEF BMInv, Room
<1>4. PICK n, b, r, D : n = dataBufLen /\ b = PlacedBytes /\ r = remainingLen /\ D = 2 * n
                        /\ n \in InitialLens /\ n \in Nat /\ D \in Nat /\ D % Two32 = D
  <2>1. dataBufLen \in Nat /\ 2 * dataBufLen < Two32 /\ Two32 \in Nat \ {0}
    BY <1>3, Lengths, Sizes
  <2>2. (2 * dataBufLen) % Two32 = 2 * dataBufLen /\ 2 * dataBufLen \in Nat
    BY <2>1
  <2> QED
    BY <1>3, <2>1, <2>2
<1>5. b \in Nat /\ r \in Nat /\ n = b + r
  BY <1>2, <1>4
<1>6. PICK len : len = D - b
  OBVIOUS
<1>7. len \in Nat /\ D = b + len /\ n <= D /\ b <= n
  <2>1. PICK N \in Nat : N = n
    BY <1>4
  <2>2. PICK B \in Nat, R \in Nat : B = b /\ R = r
    BY <1>5
  <2>3. N = B + R /\ D = 2 * N
    BY <1>4, <1>5, <2>1, <2>2
  <2>4. D - B \in Nat /\ D = B + (D - B) /\ N <= D /\ B <= N
    BY <2>3
  <2> QED
    BY <1>6, <2>1, <2>2, <2>4
<1>8. dataBufLen' = D /\ totalBytes' = b
  BY <1>1, <1>2, <1>4
<1>9. remaningBytes' = len
  BY <1>1, <1>6, <1>8
<1>10. memory \in Seq(Byte) /\ DOMAIN memory = 1..n
  BY <1>2, <1>4 DEF BMInv, Typed
<1>11. PICK m : /\ m = memory'
                /\ m = [j \in 1..D |-> IF j \in 1..n THEN memory[j] ELSE Junk]
  BY <1>1, <1>8, <1>10 DEF Reallocated
<1>12. Junk \in Byte
  BY DEF Junk, Byte
<1>13. m \in Seq(Byte) /\ Len(m) = D
  <2>1. ASSUME NEW j \in 1..D PROVE m[j] \in Byte
    BY <1>2, <1>4, <1>10, <1>11, <1>12
  <2>2. m \in [1..D -> Byte]
    BY <1>11, <2>1
  <2> QED
    BY <1>4, <2>2
<1>14. KeepsData
  <2>1. ASSUME NEW j \in 1..b PROVE m[j] = memory[j]
    <3>1. j \in 1..n /\ j \in 1..D
      BY <1>4, <1>5, <1>7
    <3> QED
      BY <1>11, <3>1
  <2> QED
    BY <1>4, <1>11, <2>1 DEF KeepsData
<1>15. MakesRoom(len)
  BY <1>1, <1>7, <1>8, <1>9, <1>11, <1>13, <1>14 DEF MakesRoom
<1> QED
  BY <1>15, AgainStep

-----------------------------------------------------------------------------
(* Every step keeps the invariant.                                         *)
LEMMA BMNextInd == BMInv /\ Codes /\ [BMNext]_bmVars => BMInv'
<1> SUFFICES ASSUME BMInv, Codes, [BMNext]_bmVars PROVE BMInv'
  OBVIOUS
<1>1. CASE BMStart
  BY <1>1, StartStep
<1>2. CASE BMRead
  BY <1>2, ReadStep
<1>3. CASE BMPlace
  BY <1>3, PlaceStep
<1>4. CASE \E q \in stored : BMDrain(q)
  BY <1>4, DrainStep
<1>5. CASE BMDouble
  BY <1>5, DoubleStep
<1>6. CASE BMEnd
  BY <1>6, EndStep
<1>7. CASE EndFast
  BY <1>7, FastStep
<1>8. CASE Trouble
  BY <1>8, TroubleStep
<1>9. CASE UNCHANGED bmVars
  <2> USE <1>9 DEF bmVars, allVars, vars, netVars, bufVars, headVars, mapVars, outVars, argVars,
                   callerVars, copyVars, memVars
  <2>1. Typed'
    BY DEF BMInv, Typed, GBTypeOK
  <2>2. \A q : Held(q)' <=> Held(q)
    BY DEF Held, HeaderRoom
  <2>3. InOrder'
    BY DEF BMInv, InOrder, Held, HeaderRoom
  <2>4. Early'
    BY <2>2 DEF BMInv, Early, Returned
  <2>5. Directs' /\ Calls'
    BY DEF BMInv, Directs, Calls, Returned
  <2>6. Room'
    BY DEF BMInv, Room, PutDataAt, PlacedBytes, InitCall
  <2>7. Intact'
    BY DEF BMInv, Intact, HasData, DataIn, StartOf, PutDataAt
  <2>8. Ends'
    BY DEF BMInv, Ends, Returned, Filled, PlacedBytes
  <2>9. Sized' /\ AmpleRoomSuffices'
    BY DEF BMInv, Sized, AmpleRoomSuffices, AmpleRoom, Returned, PlacedBytes, HeaderRoom
  <2> QED
    BY <2>1, <2>3, <2>4, <2>5, <2>6, <2>7, <2>8, <2>9 DEF BMInv
<1> QED
  BY <1>1, <1>2, <1>3, <1>4, <1>5, <1>6, <1>7, <1>8, <1>9 DEF BMNext, BMRoutine

(* The invariant holds before the first call.                              *)
LEMMA BMInitInv == BMInit => BMInv /\ Codes
<1> SUFFICES ASSUME BMInit PROVE BMInv /\ Codes
  OBVIOUS
<1>1. /\ reader \in Readers /\ (reader = "fast" => noCopy)
      /\ memory = <<>> /\ saved = <<>> /\ direct = {}
      /\ noCopy \in NoCopies /\ stage = "start" /\ dataBufLen = 0 /\ remaningBytes = 0
      /\ totalBytes = 0 /\ userBuf = FALSE /\ result = 0
      /\ InitNet /\ InitCall
  BY DEF BMInit, GBInit, Init
<1>2. /\ pc = "read" /\ veryFirstRead = TRUE /\ bufLen \in BufLens /\ remainingLen = bufLen
      /\ totalBytesRead = 0 /\ expectedSequence = 0 /\ firstReadForBuf = FALSE
      /\ maxPacketBytes = 0 /\ stored = {} /\ placed = <<>> /\ ret = "OK" /\ last = FALSE
  BY <1>1 DEF InitCall
<1>3. PlacedBytes = 0 /\ Len(placed) = 0
  BY <1>2, NothingPlaced
<1>4. Typed
  <2>1. GBTypeOK
    <3>1. noCopy \in BOOLEAN
      BY <1>1, GetBufferAssumption
    <3>2. stage \in {"start", "calling", "returned", "aborted"} /\ userBuf \in BOOLEAN
      BY <1>1
    <3>3. dataBufLen \in Nat /\ remaningBytes \in Nat /\ totalBytes \in Nat /\ result \in Int
      BY <1>1
    <3> QED
      BY <3>1, <3>2, <3>3 DEF GBTypeOK
  <2>2. bufLen \in Nat /\ maxPacketBytes \in 0..Payload
    BY <1>2, AssemblerAssumption
  <2>3. memory \in Seq(Byte)
    BY <1>1
  <2>4. net \subseteq Sent
    BY <1>1 DEF InitNet
  <2> QED
    BY <1>1, <1>2, <2>1, <2>2, <2>3, <2>4 DEF Typed
<1>5. InOrder
  <2>1. placed \in Seq({})
    BY <1>2
  <2> QED
    BY <1>2, <1>3, <2>1 DEF InOrder
<1>6. Early /\ Directs
  BY <1>1, <1>2 DEF Early, Directs, Returned
<1>7. Room
  <2>1. PICK n : n = bufLen /\ n \in Nat /\ 0 + n = n
    BY <1>4 DEF Typed
  <2>2. totalBytesRead + remainingLen = bufLen /\ PutDataAt = 0
    BY <1>1, <1>2, <2>1 DEF PutDataAt
  <2> QED
    BY <1>1, <1>2, <1>3, <2>2 DEF Room
<1>8. Calls /\ Intact /\ Ends /\ AmpleRoomSuffices
  BY <1>1, <1>2, <1>3 DEF Calls, Intact, Ends, AmpleRoomSuffices, Returned, Filled
<1>9. Sized
  <2>1. PICK X : X = Payload + HeaderRoom /\ X \in Nat
    BY Sizes
  <2> QED
    BY <1>2, <1>3, <2>1 DEF Sized
<1>10. Codes
  BY <1>2 DEF Codes
<1> QED
  BY <1>4, <1>5, <1>6, <1>7, <1>8, <1>9, <1>10 DEF BMInv

(* It holds of every behaviour.                                            *)
THEOREM BMInductive == BMSpec => [](BMInv /\ Codes)
<1>1. BMInv /\ Codes /\ [BMNext]_bmVars => (BMInv /\ Codes)'
  BY BMNextInd, CodesStep
<1> QED
  BY BMInitInv, <1>1, PTL DEF BMSpec

-----------------------------------------------------------------------------
(* What it says.                                                           *)

(* The variables' types: among them, that the buffer is as long as the     *)
(* calls made on it say, whatever its doublings, and that the map has for  *)
(* every packet kept as many bytes as its entry says.                      *)
THEOREM BMTypeCorrect == BMSpec => []BMTypeOK
<1>1. BMInv => BMTypeOK
  <2> SUFFICES ASSUME BMInv PROVE BMTypeOK
    OBVIOUS
  <2>1. expectedSequence \in Nat
    BY PlacedMeasured DEF BMInv, InOrder
  <2>2. direct \subseteq 0..expectedSequence \union {q.seq : q \in stored}
    <3> SUFFICES ASSUME NEW s \in direct, ~(\E q \in stored : q.seq = s)
                 PROVE  s \in 0..expectedSequence
      OBVIOUS
    <3>1. s \in 0..(expectedSequence - 1) \/ s = expectedSequence
      BY DEF BMInv, Directs
    <3> QED
      BY <2>1, <3>1
  <2> QED
    BY <2>2 DEF BMInv, Typed, Early, Room, BMTypeOK
<1> QED
  BY BMInductive, <1>1, PTL

(* getBuffer writes where the last packet placed ends, with the room that  *)
(* is really left of its buffer, over any number of calls.                 *)
THEOREM RoomAccountedFor == BMSpec => []RoomIsAccountedFor
<1>1. BMInv => RoomIsAccountedFor
  <2> SUFFICES ASSUME BMInv, stage = "calling", ~noCopy
               PROVE  /\ totalBytes + totalBytesRead = PlacedBytes
                      /\ totalBytes + totalBytesRead + remainingLen = dataBufLen
    BY DEF RoomIsAccountedFor
  <2>1. totalBytes \in Nat /\ totalBytesRead \in Nat /\ remainingLen \in Nat /\ bufLen \in Nat
    BY DEF BMInv, Typed, GBTypeOK
  <2>2. /\ totalBytes + totalBytesRead = PlacedBytes /\ totalBytesRead + remainingLen = bufLen
        /\ dataBufLen = totalBytes + bufLen
    BY DEF BMInv, Room, PutDataAt
  <2> QED
    BY <2>1, <2>2
<1> QED
  BY BMInductive, <1>1, PTL

(* The data of each packet placed are in the buffer where they begin.      *)
LEMMA PlacedAreThere ==
    ASSUME BMInv, pc # "overrun", NEW n \in 1..Len(placed)
    PROVE  LET D == DataIn(placed[n])
           IN  /\ D \in Nat /\ D <= placed[n].len /\ placed[n].len \in Nat
               /\ StartOf(n) \in Nat /\ StartOf(n) + D <= Len(memory)
               /\ \A k \in 1..D : memory[StartOf(n) + k] = <<placed[n].tick, placed[n].seq, k>>
<1>1. PICK q : q = placed[n]
  OBVIOUS
<1>2. InOrder /\ Held(q)
  BY <1>1 DEF BMInv, InOrder
<1>3. DataIn(q) \in Nat /\ DataIn(q) <= q.len /\ q.len \in Nat
  BY <1>2, DataInLen
<1>4. StartOf(n) \in Nat /\ StartOf(n) + q.len <= PlacedBytes /\ PlacedBytes \in Nat
  BY <1>1, <1>2, PlacedMeasured
<1>5. PlacedBytes <= Len(memory)
  <2>1. stage # "start"
    <3>1. SUFFICES ASSUME stage = "start" PROVE FALSE
      OBVIOUS
    <3>2. placed = <<>>
      BY <3>1 DEF BMInv, Room, InitCall
    <3>3. Len(placed) = 0
      BY <3>2, NothingPlaced
    <3> QED
      BY <3>3
  <2> QED
    BY <2>1 DEF BMInv, Room
<1>6. Len(memory) \in Nat
  BY DEF BMInv, Typed
<1>7. StartOf(n) + DataIn(q) <= Len(memory)
  BY <1>3, <1>4, <1>5, <1>6
<1>8. \A k \in 1..DataIn(q) : memory[StartOf(n) + k] = <<q.tick, q.seq, k>>
  BY <1>1 DEF BMInv, Intact, HasData
<1> QED
  BY <1>1, <1>3, <1>4, <1>7, <1>8

(* No byte of a packet placed is ever overwritten: by packets received too *)
(* early, by the header of one received directly over the end of another,  *)
(* by what the copy from the array takes along, by the doubling.           *)
THEOREM DataStayIntact == BMSpec => []DataIntact
<1>1. BMInv => DataIntact
  <2> SUFFICES ASSUME BMInv, pc # "overrun", NEW n \in 1..Len(placed)
               PROVE  SubSeq(memory, StartOf(n) + 1, StartOf(n) + DataIn(placed[n]))
                          = DataOf(placed[n], DataIn(placed[n]))
    BY DEF DataIntact
  <2>1. PICK q, a, d : q = placed[n] /\ a = StartOf(n) /\ d = DataIn(placed[n])
    OBVIOUS
  <2>2. /\ d \in Nat /\ a \in Nat /\ a + d <= Len(memory)
        /\ \A k \in 1..d : memory[a + k] = <<q.tick, q.seq, k>>
    BY <2>1, PlacedAreThere
  <2>3. memory \in Seq(Byte)
    BY DEF BMInv, Typed
  <2>4. PICK s : s = SubSeq(memory, a + 1, a + d)
    OBVIOUS
  <2>5. s \in Seq(Byte) /\ Len(s) = d /\ \A k \in 1..d : s[k] = memory[a + k]
    BY <2>2, <2>3, <2>4, SubSeqFrom
  <2>6. s = [k \in 1..d |-> <<q.tick, q.seq, k>>]
    <3>1. s = [k \in 1..d |-> s[k]]
      BY <2>5
    <3>2. \A k \in 1..d : s[k] = <<q.tick, q.seq, k>>
      BY <2>2, <2>5
    <3> QED
      BY <3>1, <3>2
  <2> QED
    BY <2>1, <2>4, <2>6 DEF DataOf
<1> QED
  BY BMInductive, <1>1, PTL

(* A buffer with room for all packets of each message and one header more  *)
(* (for the fast routine, one header for each) is enough, also when ticks  *)
(* overlap and packets come twice: no packet is refused, no message cut    *)
(* short, nothing copied past the end.                                     *)
THEOREM AmpleRoomIsEnough == BMSpec => []AmpleRoomSuffices
<1>1. BMInv => AmpleRoomSuffices
  BY DEF BMInv
<1> QED
  BY BMInductive, <1>1, PTL

-----------------------------------------------------------------------------
(* One message under way.                                                  *)

(* When a buffer is handed over, what is placed is the message.            *)
LEMMA FilledPlaced ==
    ASSUME NEW t, Ticks = {t}, BMInv, Filled
    PROVE  /\ tick = t /\ NumPackets[t] \in Nat \ {0} /\ pc # "overrun"
           /\ direct = {} /\ stored = {} /\ totalBytes = PlacedBytes
           /\ Len(placed) = NumPackets[t]
           /\ placed = MessageOf(t)
<1>1. Returned /\ last /\ reader # "fast" /\ totalBytes = PlacedBytes
  BY DEF BMInv, Ends
<1>2. placed # <<>> /\ placed[Len(placed)].last /\ tick = t /\ pc # "overrun"
  BY <1>1 DEF BMInv, Ends, Returned
<1>3. direct = {} /\ NumPackets[t] \in Nat \ {0}
  BY <1>1, Sizes DEF BMInv, Directs
<1>4. InOrder /\ Len(placed) \in Nat
  BY PlacedMeasured DEF BMInv
<1>5. PICK S : placed \in Seq(S)
  BY <1>4 DEF InOrder
<1>6. Len(placed) # 0
  BY <1>2, <1>5
<1>7. ASSUME NEW i \in 1..Len(placed)
      PROVE  placed[i] = Packet(t, i - 1) /\ i - 1 \in 0..(NumPackets[t] - 1)
             /\ (placed[i].last <=> i - 1 = NumPackets[t] - 1)
  <2>1. placed[i].seq = i - 1 /\ Held(placed[i])
    BY <1>4 DEF InOrder
  <2>2. placed[i] \in Sent /\ placed[i].tick = t
    BY <1>1, <2>1 DEF Held
  <2>3. placed[i] = Packet(t, i - 1)
    BY <2>1, <2>2, SentFields
  <2> QED
    BY <2>1, <2>2, <2>3 DEF Held
<1>8. Len(placed) = NumPackets[t]
  <2>1. PICK n : n = Len(placed) /\ n \in Nat /\ n # 0
    BY <1>4, <1>6
  <2>2. n \in 1..Len(placed)
    BY <2>1
  <2>3. n - 1 = NumPackets[t] - 1
    BY <1>2, <1>7, <2>1, <2>2
  <2> QED
    BY <1>3, <2>1, <2>3
<1>9. placed = MessageOf(t)
  <2>1. placed = [i \in 1..Len(placed) |-> placed[i]]
    BY <1>5
  <2>2. placed = [i \in 1..NumPackets[t] |-> Packet(t, i - 1)]
    BY <1>7, <1>8, <2>1
  <2> QED
    BY <2>2 DEF MessageOf
<1>10. stored = {}
  <2>1. SUFFICES ASSUME NEW q \in stored PROVE FALSE
    OBVIOUS
  <2>2. Held(q) /\ q.seq > expectedSequence
    BY <1>1 DEF BMInv, Early
  <2>3. q.seq \in 0..(NumPackets[t] - 1) /\ expectedSequence = NumPackets[t]
    BY <1>4, <1>8, <2>2 DEF Held, InOrder
  <2> QED
    BY <1>3, <2>2, <2>3
<1> QED
  BY <1>1, <1>2, <1>3, <1>8, <1>9, <1>10

(* With one message under way, a buffer that getBuffer hands over or says  *)
(* it has filled holds all its packets, however many calls it took, and    *)
(* none of them is left in the map.                                        *)
THEOREM FilledAreWhole ==
    ASSUME NEW t, Ticks = {t}
    PROVE  BMSpec => []FilledIsWhole
<1>1. BMInv => FilledIsWhole
  BY FilledPlaced DEF FilledIsWhole
<1> QED
  BY BMInductive, <1>1, PTL

-----------------------------------------------------------------------------
(* The recursion of FlattenSeq, for the first n of t.                      *)
FlatFun(f, t, n) == f = [i \in 1..n |-> IF i = 1 THEN t[i] ELSE f[i - 1] \o t[i]]

(* It has a solution, so FlattenSeq unfolds.                               *)
LEMMA FlatFunExists ==
    ASSUME NEW t, NEW N \in Nat
    PROVE  \E f : FlatFun(f, t, N)
<1> DEFINE S == {n \in Nat : \E f : FlatFun(f, t, n)}
<1>1. 0 \in S
  <2>1. FlatFun([i \in 1..0 |-> <<>>], t, 0)
    BY DEF FlatFun
  <2> QED
    BY <2>1
<1>2. ASSUME NEW n \in S PROVE n + 1 \in S
  <2>1. PICK f : FlatFun(f, t, n)
    OBVIOUS
  <2>2. n \in Nat
    OBVIOUS
  <2>3. PICK x : x = IF n + 1 = 1 THEN t[n + 1] ELSE f[n] \o t[n + 1]
    OBVIOUS
  <2> DEFINE g == [i \in 1..(n + 1) |-> IF i = n + 1 THEN x ELSE f[i]]
             h == [i \in 1..(n + 1) |-> IF i = 1 THEN t[i] ELSE g[i - 1] \o t[i]]
  <2>4. ASSUME NEW i \in 1..(n + 1) PROVE g[i] = h[i]
    <3>1. CASE i = n + 1
      <4>1. g[i] = x
        BY <3>1
      <4>2. i # 1 => n \in 1..(n + 1) /\ n # n + 1
        BY <2>2, <3>1
      <4>3. i # 1 => g[n] = f[n] /\ i - 1 = n
        BY <2>2, <3>1, <4>2
      <4> QED
        BY <2>3, <3>1, <4>1, <4>3
    <3>2. CASE i # n + 1
      <4>1. i \in 1..n
        BY <2>2, <3>2
      <4>2. f[i] = IF i = 1 THEN t[i] ELSE f[i - 1] \o t[i]
        BY <2>1, <4>1 DEF FlatFun
      <4>3. i # 1 => i - 1 \in 1..(n + 1) /\ i - 1 # n + 1
        BY <2>2, <4>1
      <4>4. i # 1 => g[i - 1] = f[i - 1]
        BY <4>3
      <4> QED
        BY <3>2, <4>2, <4>4
    <3> QED
      BY <3>1, <3>2
  <2>5. g = h
    BY <2>4
  <2>6. FlatFun(g, t, n + 1)
    BY <2>5 DEF FlatFun
  <2> QED
    BY <2>2, <2>6
<1> HIDE DEF S
<1>3. S \in SUBSET Nat
  BY DEF S
<1>4. S = Nat
  BY <1>1, <1>2, <1>3, NatInd
<1> QED
  BY <1>4 DEF S

(* The length of a sequence that is given as a function.                   *)
LEMMA LenOfFun ==
    ASSUME NEW n \in Nat, NEW s
    PROVE  Len([i \in 1..n |-> s[i]]) = n
OBVIOUS

(* A function on 1..n.                                                     *)
OfLength(s, n) == s = [i \in 1..n |-> s[i]]

(* t is the sequence s of n sequences, with x after them.                  *)
Extends(t, s, n, x, B) ==
    /\ OfLength(s, n) /\ OfLength(t, n + 1)
    /\ \A i \in 1..n : s[i] \in Seq(B) /\ t[i] = s[i]
    /\ t[n + 1] = x

(* One sequence more, at the end.                                          *)
LEMMA FlattenOneMore ==
    ASSUME NEW B, NEW n \in Nat, NEW s, NEW t, NEW x \in Seq(B),
           Extends(t, s, n, x, B)
    PROVE  /\ FlattenSeq(s) \in Seq(B)
           /\ FlattenSeq(t) = FlattenSeq(s) \o x
           /\ n = 0 => FlattenSeq(s) = <<>>
<1>0. /\ OfLength(s, n) /\ OfLength(t, n + 1)
      /\ \A i \in 1..n : s[i] \in Seq(B) /\ t[i] = s[i]
      /\ t[n + 1] = x
  BY DEF Extends
<1>1. Len(s) = n /\ Len(t) = n + 1 /\ n + 1 # 0
  <2>1. n + 1 \in Nat
    OBVIOUS
  <2>2. Len([i \in 1..n |-> s[i]]) = n /\ Len([i \in 1..(n + 1) |-> t[i]]) = n + 1
    BY <2>1, LenOfFun
  <2> QED
    BY <1>0, <2>2 DEF OfLength
<1>2. PICK f : FlatFun(f, t, n + 1) /\ FlattenSeq(t) = f[n + 1]
  <2> DEFINE F == CHOOSE f : f = [i \in 1..(n + 1) |-> IF i = 1 THEN t[i] ELSE f[i - 1] \o t[i]]
  <2>1. FlatFun(F, t, n + 1)
    <3>1. n + 1 \in Nat
      OBVIOUS
    <3>2. \E f : FlatFun(f, t, n + 1)
      BY <3>1, FlatFunExists
    <3> QED
      BY <3>2 DEF FlatFun
  <2>2. FlattenSeq(t) = F[n + 1]
    BY <1>1 DEF FlattenSeq
  <2> QED
    BY <2>1, <2>2
<1>3. CASE n = 0
  <2>1. s = <<>>
    BY <1>0, <1>3 DEF OfLength
  <2>2. FlattenSeq(s) = <<>>
    BY <1>1, <1>3, <2>1 DEF FlattenSeq
  <2>3. f[1] = t[1]
    BY <1>2, <1>3 DEF FlatFun
  <2>4. FlattenSeq(t) = x /\ <<>> \in Seq(B) /\ <<>> \o x = x
    BY <1>0, <1>2, <1>3, <2>3
  <2> QED
    BY <2>2, <2>4
<1>4. CASE n # 0
  <2>1. PICK g : FlatFun(g, s, n) /\ FlattenSeq(s) = g[n]
    <3> DEFINE G == CHOOSE g : g = [i \in 1..n |-> IF i = 1 THEN s[i] ELSE g[i - 1] \o s[i]]
    <3>1. FlatFun(G, s, n)
      BY FlatFunExists DEF FlatFun
    <3>2. FlattenSeq(s) = G[n]
      BY <1>1, <1>4 DEF FlattenSeq
    <3> QED
      BY <3>1, <3>2
  <2> DEFINE S == {k \in Nat : k \in 1..n => f[k] = g[k] /\ g[k] \in Seq(B)}
  <2>2. 0 \in S
    OBVIOUS
  <2>3. ASSUME NEW k \in S PROVE k + 1 \in S
    <3>1. SUFFICES ASSUME k + 1 \in 1..n PROVE f[k + 1] = g[k + 1] /\ g[k + 1] \in Seq(B)
      OBVIOUS
    <3>2. /\ f[k + 1] = IF k + 1 = 1 THEN t[k + 1] ELSE f[(k + 1) - 1] \o t[k + 1]
          /\ g[k + 1] = IF k + 1 = 1 THEN s[k + 1] ELSE g[(k + 1) - 1] \o s[k + 1]
      <4>1. k + 1 \in 1..n /\ k + 1 \in 1..(n + 1)
        BY <3>1
      <4> QED
        BY <1>2, <2>1, <4>1 DEF FlatFun
    <3>3. (k + 1) - 1 = k /\ (k + 1 # 1 => k \in 1..n)
      BY <3>1
    <3>4. s[k + 1] \in Seq(B) /\ t[k + 1] = s[k + 1]
      BY <1>0, <3>1
    <3> QED
      BY <3>2, <3>3, <3>4
  <2>4. n \in S
    <3> HIDE DEF S
    <3>1. S \in SUBSET Nat
      BY DEF S
    <3> QED
      BY <2>2, <2>3, <3>1, NatInd
  <2>5. f[n] = g[n] /\ g[n] \in Seq(B)
    BY <1>4, <2>4
  <2>6. f[n + 1] = f[n] \o t[n + 1]
    <3>1. n + 1 \in 1..(n + 1) /\ n + 1 # 1 /\ (n + 1) - 1 = n
      BY <1>4
    <3> QED
      BY <1>2, <3>1 DEF FlatFun
  <2> QED
    BY <1>0, <1>2, <1>4, <2>1, <2>5, <2>6
<1> QED
  BY <1>3, <1>4

(* Bytes of a buffer, and those that follow them.                          *)
LEMMA PrefixGrows ==
    ASSUME NEW S, NEW mem \in Seq(S), NEW a \in Nat, NEW d \in Nat, a + d <= Len(mem),
           NEW x \in Seq(S), Len(x) = d, \A k \in 1..d : mem[a + k] = x[k]
    PROVE  SubSeq(mem, 1, a) \o x = SubSeq(mem, 1, a + d)
<1>1. PICK N : N = a + d /\ N \in Nat /\ N <= Len(mem) /\ a <= N
  OBVIOUS
<1>2. PICK p : p = SubSeq(mem, 1, a) /\ p \in Seq(S) /\ Len(p) = a /\ \A k \in 1..a : p[k] = mem[k]
  <2>1. 0 \in Nat /\ 0 + a = a /\ 0 + 1 = 1 /\ a <= Len(mem)
    BY <1>1
  <2>2. /\ SubSeq(mem, 0 + 1, 0 + a) \in Seq(S) /\ Len(SubSeq(mem, 0 + 1, 0 + a)) = a
        /\ \A k \in 1..a : SubSeq(mem, 0 + 1, 0 + a)[k] = mem[0 + k]
    BY <2>1, SubSeqFrom
  <2>3. \A k \in 1..a : 0 + k = k
    OBVIOUS
  <2> QED
    BY <2>1, <2>2, <2>3
<1>3. PICK w : w = SubSeq(mem, 1, N) /\ w \in Seq(S) /\ Len(w) = N /\ \A k \in 1..N : w[k] = mem[k]
  <2>1. 0 \in Nat /\ 0 + N = N /\ 0 + 1 = 1
    BY <1>1
  <2>2. /\ SubSeq(mem, 0 + 1, 0 + N) \in Seq(S) /\ Len(SubSeq(mem, 0 + 1, 0 + N)) = N
        /\ \A k \in 1..N : SubSeq(mem, 0 + 1, 0 + N)[k] = mem[0 + k]
    BY <1>1, <2>1, SubSeqFrom
  <2>3. \A k \in 1..N : 0 + k = k
    BY <1>1
  <2> QED
    BY <2>1, <2>2, <2>3
<1>4. PICK c : c = p \o x /\ c \in Seq(S) /\ Len(c) = N
               /\ \A k \in 1..N : c[k] = IF k <= a THEN p[k] ELSE x[k - a]
  <2>1. p \in Seq(S) /\ Len(p) = a
    BY <1>2
  <2>2. PICK v : v = p \o x
    OBVIOUS
  <2>3. /\ v \in Seq(S) /\ Len(v) = Len(p) + Len(x)
        /\ \A k \in 1..Len(p) + Len(x) : v[k] = IF k <= Len(p) THEN p[k] ELSE x[k - Len(p)]
    BY <2>1, <2>2, ConcatProperties
  <2>4. Len(p) + Len(x) = N
    BY <1>1, <2>1
  <2> QED
    BY <2>1, <2>2, <2>3, <2>4
<1>5. ASSUME NEW k \in 1..N PROVE c[k] = w[k]
  <2>1. CASE k <= a
    <3>1. k \in 1..a
      BY <2>1
    <3> QED
      BY <1>2, <1>3, <1>4, <2>1, <3>1
  <2>2. CASE ~(k <= a)
    <3>1. k - a \in 1..d /\ a + (k - a) = k
      BY <1>1, <2>2
    <3>2. mem[k] = x[k - a]
      BY <3>1
    <3> QED
      BY <1>3, <1>4, <2>2, <3>2
  <2> QED
    BY <2>1, <2>2
<1>6. c = w
  <2>1. c = [k \in 1..N |-> c[k]]
    <3>1. c \in Seq(S) /\ Len(c) = N
      BY <1>4
    <3> QED
      BY <3>1
  <2>2. w = [k \in 1..N |-> w[k]]
    <3>1. w \in Seq(S) /\ Len(w) = N
      BY <1>3
    <3> QED
      BY <3>1
  <2> QED
    BY <1>5, <2>1, <2>2
<1> QED
  BY <1>1, <1>2, <1>3, <1>4, <1>6

(* The data of the first n packets of s.                                   *)
DataUpTo(s, n) == [i \in 1..n |-> DataOf(s[i], s[i].len)]

(* With one message under way, the bytes of a buffer that getBuffer hands  *)
(* over or says it has filled are those of the message, in their order, and*)
(* no others.                                                              *)
THEOREM FilledIsTheMessage ==
    ASSUME NEW t, Ticks = {t}
    PROVE  BMSpec => []FilledWithTheMessage
<1>1. BMInv => FilledWithTheMessage
  <2> SUFFICES ASSUME BMInv, Filled
               PROVE  SubSeq(memory, 1, totalBytes) = MessageBytes(tick)
    BY DEF FilledWithTheMessage
  <2>1. /\ tick = t /\ NumPackets[t] \in Nat \ {0} /\ pc # "overrun"
        /\ direct = {} /\ totalBytes = PlacedBytes
        /\ Len(placed) = NumPackets[t] /\ placed = MessageOf(t)
    BY FilledPlaced
  <2>2. PICK s, N, B : /\ s = placed /\ N = Len(s) /\ B = BytesUpTo(s) /\ N \in Nat
                       /\ N = NumPackets[t]
    BY <2>1
  <2>3. /\ B[0] = 0 /\ \A n \in 1..N : B[n] = B[n - 1] + s[n].len
        /\ \A n \in 0..N : B[n] \in Nat
    <3>1. Measured(s)
      BY <2>2, PlacedMeasured DEF BMInv
    <3> QED
      BY <2>2, <3>1, Sums
  <2>4. PICK mem : mem = memory /\ mem \in Seq(Byte)
    BY DEF BMInv, Typed
  <2>5. ASSUME NEW n \in 1..N
        PROVE  /\ s[n].tick \in Ticks /\ s[n].seq \in Int /\ s[n].len \in Nat
               /\ B[n - 1] \in Nat /\ B[n - 1] + s[n].len <= Len(mem)
               /\ \A k \in 1..s[n].len : mem[B[n - 1] + k] = <<s[n].tick, s[n].seq, k>>
    <3>1. n \in 1..Len(placed) /\ B[n - 1] = StartOf(n) /\ s[n] = placed[n]
      BY <2>2 DEF StartOf
    <3>2. DataIn(placed[n]) = placed[n].len
      BY <2>1 DEF DataIn
    <3>3. /\ placed[n].len \in Nat /\ StartOf(n) \in Nat /\ StartOf(n) + placed[n].len <= Len(memory)
          /\ \A k \in 1..placed[n].len : memory[StartOf(n) + k] = <<placed[n].tick, placed[n].seq, k>>
      BY <2>1, <3>1, <3>2, PlacedAreThere
    <3>4. placed[n].tick \in Ticks /\ placed[n].seq = n - 1
      BY <3>1 DEF BMInv, InOrder, Held
    <3> QED
      BY <2>4, <3>1, <3>3, <3>4
  <2>6. ASSUME NEW n \in 1..N
        PROVE  DataOf(s[n], s[n].len) \in Seq(Byte) /\ Len(DataOf(s[n], s[n].len)) = s[n].len
    BY <2>5, DataIsBytes
  <2>7. ASSUME NEW n \in Nat, n + 1 \in 1..N
        PROVE  /\ FlattenSeq(DataUpTo(s, n + 1))
                      = FlattenSeq(DataUpTo(s, n)) \o DataOf(s[n + 1], s[n + 1].len)
               /\ n = 0 => FlattenSeq(DataUpTo(s, n)) = <<>>
    <3>1. PICK x : x = DataOf(s[n + 1], s[n + 1].len) /\ x \in Seq(Byte)
      BY <2>6, <2>7
    <3>2. PICK f, g : f = DataUpTo(s, n) /\ g = DataUpTo(s, n + 1)
      OBVIOUS
    <3>3. Extends(g, f, n, x, Byte)
      <4>1. OfLength(f, n) /\ OfLength(g, n + 1)
        BY <3>2 DEF DataUpTo, OfLength
      <4>2. \A i \in 1..n : f[i] \in Seq(Byte) /\ g[i] = f[i]
        <5> TAKE i \in 1..n
        <5>1. i \in 1..(n + 1) /\ i \in 1..N
          BY <2>2, <2>7
        <5> QED
          BY <2>6, <3>2, <5>1 DEF DataUpTo
      <4>3. g[n + 1] = x
        <5>1. n + 1 \in 1..(n + 1)
          OBVIOUS
        <5> QED
          BY <3>1, <3>2, <5>1 DEF DataUpTo
      <4> QED
        BY <4>1, <4>2, <4>3 DEF Extends
    <3>4. FlattenSeq(g) = FlattenSeq(f) \o x /\ (n = 0 => FlattenSeq(f) = <<>>)
      <4>1. n \in Nat /\ x \in Seq(Byte)
        BY <3>1
      <4> QED
        BY <3>3, <4>1, FlattenOneMore
    <3> QED
      BY <3>1, <3>2, <3>4
  <2> DEFINE T == {n \in Nat : n <= N => FlattenSeq(DataUpTo(s, n)) = SubSeq(mem, 1, B[n])}
  <2>8. 0 \in T
    <3>1. 0 + 1 \in 1..N
      BY <2>1, <2>2
    <3>2. FlattenSeq(DataUpTo(s, 0)) = <<>>
      BY <2>7, <3>1
    <3>3. SubSeq(mem, 1, 0) = <<>>
      BY <2>4
    <3> QED
      BY <2>3, <3>2, <3>3
  <2>9. ASSUME NEW n \in T PROVE n + 1 \in T
    <3>1. SUFFICES ASSUME n + 1 <= N
                   PROVE  FlattenSeq(DataUpTo(s, n + 1)) = SubSeq(mem, 1, B[n + 1])
      OBVIOUS
    <3>2. n + 1 \in 1..N /\ (n + 1) - 1 = n /\ FlattenSeq(DataUpTo(s, n)) = SubSeq(mem, 1, B[n])
      BY <2>2, <3>1
    <3>3. PICK a, d, x : a = B[n] /\ d = s[n + 1].len /\ x = DataOf(s[n + 1], s[n + 1].len)
      OBVIOUS
    <3>4. /\ a \in Nat /\ d \in Nat /\ a + d <= Len(mem) /\ B[n + 1] = a + d
          /\ \A k \in 1..d : mem[a + k] = <<s[n + 1].tick, s[n + 1].seq, k>>
      BY <2>3, <2>5, <3>2, <3>3
    <3>5. x \in Seq(Byte) /\ Len(x) = d
      BY <2>6, <3>2, <3>3
    <3>6. \A k \in 1..d : mem[a + k] = x[k]
      BY <3>3, <3>4 DEF DataOf
    <3>7. SubSeq(mem, 1, a) \o x = SubSeq(mem, 1, a + d)
      <4>1. a \in Nat /\ d \in Nat /\ a + d <= Len(mem) /\ mem \in Seq(Byte)
        BY <2>4, <3>4
      <4> QED
        BY <3>5, <3>6, <4>1, PrefixGrows
    <3>8. FlattenSeq(DataUpTo(s, n + 1)) = FlattenSeq(DataUpTo(s, n)) \o x
      BY <2>7, <3>2, <3>3
    <3> QED
      BY <3>2, <3>3, <3>4, <3>7, <3>8
  <2>10. T = Nat
    <3> HIDE DEF T
    <3>1. T \in SUBSET Nat
      BY DEF T
    <3> QED
      BY <2>8, <2>9, <3>1, NatInd
  <2>11. FlattenSeq(DataUpTo(s, N)) = SubSeq(mem, 1, B[N])
    BY <2>2, <2>10
  <2>12. B[N] = PlacedBytes
    BY <2>2 DEF PlacedBytes
  <2>13. MessageBytes(tick) = FlattenSeq(DataUpTo(s, N))
    BY <2>1, <2>2 DEF MessageBytes, DataUpTo
  <2> QED
    BY <2>1, <2>4, <2>11, <2>12, <2>13
<1> QED
  BY BMInductive, <1>1, PTL
=============================================================================

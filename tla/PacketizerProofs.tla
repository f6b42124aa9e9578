-------------------------- MODULE PacketizerProofs --------------------------
(***************************************************************************)
(* Proofs about Packetizer, for any messages, MTUs and paths: the types,   *)
(* the numbering of the packets and the placing of the first and last bit. *)
(***************************************************************************)
EXTENDS Packetizer, TLAPS, WellFoundedInduction, SequenceTheorems

(* Numbers, and the recursion of CutUpTo.                                  *)

(* Any set of numbers that is not empty has a least one.                   *)
LEMMA LeastNumber ==
    ASSUME NEW T, T \subseteq Nat, T # {}
    PROVE  \E m \in T : \A k \in T : m <= k
<1>1. PICK m \in T : \A k \in T : <<k, m>> \notin {ss \in Nat \X Nat : ss[1] < ss[2]}
  BY NatLessThanWellFounded, WFMin DEF OpToRel
<1>2. \A k \in T : ~(k < m)
  BY <1>1
<1> QED
  BY <1>2

(* Induction over the numbers, for a set of them.                          *)
LEMMA NatInd ==
    ASSUME NEW S \in SUBSET Nat, 0 \in S, \A n \in S : n + 1 \in S
    PROVE  S = Nat
<1> DEFINE T == Nat \ S
<1>1. SUFFICES ASSUME T # {} PROVE FALSE
  OBVIOUS
<1>2. PICK m \in T : \A k \in T : m <= k
  BY <1>1, LeastNumber
<1>3. m # 0 /\ m \in Nat /\ m \notin S
  OBVIOUS
<1>4. m - 1 \in S
  BY <1>2, <1>3
<1> QED
  BY <1>3, <1>4

(* Enough packets for all bytes, and not one more.                         *)
LEMMA CountIsEnough ==
    ASSUME NEW n \in Nat, NEW s \in Nat \ {0}
    PROVE  /\ PacketCount(n, s) \in Nat
           /\ n <= PacketCount(n, s) * s
           /\ PacketCount(n, s) * s < n + s
<1> DEFINE c == (n + s - 1) \div s
           r == (n + s - 1) % s
<1>1. c \in Int /\ r \in 0..(s - 1) /\ n + s - 1 = s * c + r
  OBVIOUS
<1>2. c >= 0
  BY <1>1
<1> QED
  BY <1>1, <1>2 DEF PacketCount

(* Multiples are in the order of their factors.                            *)
LEMMA Multiples ==
    ASSUME NEW a \in Nat, NEW b \in Nat, NEW s \in Nat, a <= b
    PROVE  a * s <= b * s /\ a * s \in Nat /\ (a + 1) * s = a * s + s
OBVIOUS

(* With k packets of s bytes sent and more to come, what is left fits in   *)
(* one packet exactly if the next one is the last.                         *)
LEMMA LastIsShort ==
    ASSUME NEW n \in Nat, NEW s \in Nat \ {0}, NEW k \in Nat, k < PacketCount(n, s)
    PROVE  /\ k * s \in Nat /\ k * s < n
           /\ (k + 1) * s = k * s + s
           /\ n - k * s <= s <=> k + 1 = PacketCount(n, s)
<1> DEFINE c == PacketCount(n, s)
<1>1. c \in Nat /\ n <= c * s /\ c * s < n + s
  BY CountIsEnough
<1> HIDE DEF c
<1>2. k < c
  BY DEF c
<1>3. k * s \in Nat /\ (k + 1) * s = k * s + s /\ (k + 2) * s = k * s + s + s /\ c * s \in Nat
  BY <1>1
<1>4. (k + 1) * s <= c * s
  BY <1>1, <1>2, Multiples
<1>5. k + 2 <= c => (k + 2) * s <= c * s
  BY <1>1, Multiples
<1>6. n - k * s <= s => k + 1 = c
  BY <1>1, <1>2, <1>3, <1>5
<1>7. k + 1 = c => n - k * s <= s
  BY <1>1, <1>3
<1> QED
  BY <1>1, <1>3, <1>4, <1>6, <1>7 DEF c
(* The first k elements of a sequence.                                     *)
Begin(c, k) == [i \in 1..k |-> c[i]]

(* A longer beginning of a sequence is the shorter one and an element.     *)
LEMMA OneMore ==
    ASSUME NEW P, NEW s \in Seq(P), NEW c, NEW k \in Nat
    PROVE  /\ Append(s \o Begin(c, k), c[k + 1]) = s \o Begin(c, k + 1)
           /\ Len(s \o Begin(c, k)) = Len(s) + k
<1> DEFINE S == P \union {c[i] : i \in 1..(k + 1)}
           short == Begin(c, k)
           long  == Begin(c, k + 1)
<1>1. s \in Seq(S) /\ c[k + 1] \in S
  OBVIOUS
<1>2. short \in Seq(S) /\ long \in Seq(S) /\ Len(short) = k /\ Len(long) = k + 1
  BY DEF Begin
<1>3. \A i \in 1..k : short[i] = long[i]
  BY DEF Begin
<1>4. long[k + 1] = c[k + 1]
  BY DEF Begin
<1> HIDE DEF S, short, long
<1>5. Append(s \o short, c[k + 1]) \in Seq(S) /\ s \o long \in Seq(S)
  BY <1>1, <1>2
<1>6. Len(Append(s \o short, c[k + 1])) = Len(s) + k + 1 /\ Len(s \o long) = Len(s) + k + 1
  BY <1>1, <1>2
<1>7. \A i \in 1..(Len(s) + k + 1) : Append(s \o short, c[k + 1])[i] = (s \o long)[i]
  BY <1>1, <1>2, <1>3, <1>4
<1>8. Append(s \o short, c[k + 1]) = s \o long
  BY <1>1, <1>2, <1>5, <1>6, <1>7, SeqEqual
<1> QED
  BY <1>1, <1>2, <1>8 DEF short, long

(* What the recursion of CutUpTo adds for one more buffer.                 *)
CutStep(cuts, b, size) ==
    cuts[b - 1] \o Cut(b, IF b = 1 THEN size ELSE FullPayload, Len(cuts[b - 1]))

(* A solution of the recursion, for the first n buffers.                   *)
CutFun(f, n, size) == f = [b \in 0..n |-> IF b = 0 THEN <<>> ELSE CutStep(f, b, size)]

(* The recursion has a solution, so CutUpTo unfolds.                       *)
LEMMA CutFunExists ==
    ASSUME NEW size, NEW N \in Nat
    PROVE  \E f : CutFun(f, N, size)
<1> DEFINE S == {n \in Nat : \E f : CutFun(f, n, size)}
<1>1. 0 \in S
  <2>1. CutFun([b \in 0..0 |-> <<>>], 0, size)
    BY DEF CutFun
  <2> QED
    BY <2>1
<1>2. ASSUME NEW n \in S PROVE n + 1 \in S
  <2>1. PICK f : CutFun(f, n, size)
    OBVIOUS
  <2> DEFINE g == [b \in 0..(n + 1) |-> IF b = n + 1 THEN CutStep(f, n + 1, size) ELSE f[b]]
             h == [b \in 0..(n + 1) |-> IF b = 0 THEN <<>> ELSE CutStep(g, b, size)]
  <2>2. n \in Nat
    OBVIOUS
  <2>3. ASSUME NEW b \in 0..(n + 1) PROVE g[b] = h[b]
    <3>1. CASE b = 0
      <4>1. g[b] = f[b] /\ h[b] = <<>>
        BY <2>2, <3>1
      <4>2. f[0] = <<>>
        BY <2>1, <2>2 DEF CutFun
      <4> QED
        BY <3>1, <4>1, <4>2
    <3>2. CASE b \in 1..(n + 1)
      <4>1. b - 1 \in 0..n /\ b - 1 \in 0..(n + 1) /\ b - 1 # n + 1
        BY <2>2, <3>2
      <4>2. g[b - 1] = f[b - 1]
        BY <4>1
      <4>3. CutStep(g, b, size) = CutStep(f, b, size)
        BY <4>2 DEF CutStep
      <4>4. h[b] = CutStep(f, b, size)
        BY <4>3, <3>2, <2>2
      <4>5. g[b] = CutStep(f, b, size)
        <5>1. CASE b = n + 1
          BY <5>1, <2>2
        <5>2. CASE b # n + 1
          <6>1. b \in 0..n /\ b # 0
            BY <2>2, <3>2, <5>2
          <6>2. f[b] = CutStep(f, b, size)
            BY <2>1, <6>1 DEF CutFun
          <6> QED
            BY <6>2, <5>2
        <5> QED
          BY <5>1, <5>2
      <4> QED
        BY <4>4, <4>5
    <3> QED
      BY <2>2, <3>1, <3>2
  <2>4. g = h
    <3> HIDE DEF CutFun
    <3> QED
      BY <2>3
  <2>5. CutFun(g, n + 1, size)
    BY <2>4 DEF CutFun
  <2> QED
    BY <2>2, <2>5
<1> HIDE DEF S
<1>3. S = Nat
  <2>1. S \in SUBSET Nat
    BY DEF S
  <2> QED
    BY <1>1, <1>2, <2>1, NatInd
<1>4. N \in S
  BY <1>3
<1> QED
  BY <1>4 DEF S

(* The packets of no buffer, and of one buffer more.                       *)
LEMMA CutUpToIs ==
    ASSUME Len(Buffers) \in Nat, NEW size
    PROVE  /\ CutUpTo(size)[0] = <<>>
           /\ \A b \in 1..Len(Buffers) : CutUpTo(size)[b] = CutStep(CutUpTo(size), b, size)
<1>1. CutFun(CutUpTo(size), Len(Buffers), size)
  BY CutFunExists DEF CutUpTo, CutFun, CutStep
<1> HIDE DEF CutUpTo
<1> QED
  BY <1>1 DEF CutFun
-----------------------------------------------------------------------------
(* Types and numbering.                                                    *)

USE PacketizerAssumption

(* A call in progress is for a buffer of a message.                        *)
InMessages ==
    pc = "loop" => message \in DOMAIN Messages /\ buffer \in DOMAIN Buffers

(* The counters agree with what has been sent.                             *)
Counted ==
    /\ pc = "call" => offset = Len(sent)
    /\ pc = "loop" => packetCounter = Len(sent)

IndInv == TypeOK /\ InMessages /\ Counted /\ NumberedInOrder

(* A buffer's length as a number, and as an int.                           *)
LEMMA BufferLengths ==
    ASSUME message \in DOMAIN Messages, buffer \in DOMAIN Buffers
    PROVE  DataLen \in Nat /\ ToInt(DataLen) \in Int /\ Len(Buffers) \in Nat
           /\ (DataLen < Two31 => ToInt(DataLen) = DataLen)
<1>1. Buffers \in Seq(0..(2 * Two31 - 1))
  BY DEF Buffers
<1>2. DataLen \in 0..(2 * Two31 - 1) /\ Len(Buffers) \in Nat
  BY <1>1 DEF DataLen
<1> QED
  BY <1>2 DEF ToInt

(* The payload computed is a number, if perhaps a negative one.            *)
LEMMA PayloadIsInt ==
    ASSUME TypeOK PROVE PayloadFor(mtu, interfaceMtu) \in Int
<1>1. mtu \in Nat /\ interfaceMtu \in Nat
  BY DEF TypeOK
<1> QED
  BY <1>1 DEF PayloadFor, IpAndUdpBytes, HeaderBytes

(* The packet sent next has the type of a packet.                          *)
LEMMA PacketTyped ==
    ASSUME IndInv, SendPacket
    PROVE  ThePacket \in Packets /\ BytesToWrite \in Nat
<1>1. pc = "loop" /\ BytesToWrite >= 0
  BY DEF SendPacket, InLoop
<1>2. maxUdpPayload \in Int /\ remainingBytes \in Int /\ packetCounter \in Nat /\ buffer \in Nat
      /\ veryFirstPacket \in BOOLEAN /\ veryLastPacket \in BOOLEAN
  BY DEF IndInv, TypeOK
<1>3. BytesToWrite \in Nat
  BY <1>1, <1>2 DEF BytesToWrite
<1>4. IsVeryLast \in BOOLEAN
  BY <1>2 DEF IsVeryLast
<1>5. ToInt(DataLen) - remainingBytes \in Int
  BY <1>1, <1>2, BufferLengths DEF IndInv, InMessages
<1> QED
  BY <1>2, <1>3, <1>4, <1>5 DEF ThePacket, Packets

(* Every step keeps the invariant.                                         *)
LEMMA NextInd == IndInv /\ [Next]_vars => IndInv'
<1> SUFFICES ASSUME IndInv, [Next]_vars PROVE IndInv'
  OBVIOUS
<1>1. TypeOK /\ InMessages /\ Counted /\ NumberedInOrder
  BY DEF IndInv
<1>2. CASE Enter
  <2>1. ToInt(DataLen) \in Int
    BY <1>2, BufferLengths DEF Enter
  <2>2. TypeOK'
    BY <1>1, <1>2, <2>1, PayloadIsInt
       DEF Enter, TypeOK, argVars, envVars, pathVars, callVars, FirstBuffer
  <2>3. InMessages'
    BY <1>2 DEF Enter, InMessages, Buffers, callVars
  <2>4. Counted' /\ NumberedInOrder'
    BY <1>1, <1>2 DEF Enter, Counted, NumberedInOrder, callVars
  <2> QED
    BY <2>2, <2>3, <2>4 DEF IndInv
<1>3. CASE SendPacket
  <2>1. ThePacket \in Packets /\ BytesToWrite \in Nat /\ sent \in Seq(Packets)
    BY <1>1, <1>3, PacketTyped DEF TypeOK
  <2>2. sent' = Append(sent, ThePacket) /\ packetCounter' = packetCounter + 1
        /\ remainingBytes' = remainingBytes - BytesToWrite
        /\ pc = "loop" /\ pc' = "loop"
    BY <1>3 DEF SendPacket, InLoop
  <2>3. IsVeryLast \in BOOLEAN
    BY <1>1 DEF TypeOK, IsVeryLast
  <2>4. sent' \in Seq(Packets) /\ packetCounter' \in Nat /\ remainingBytes' \in Int
    BY <1>1, <2>1, <2>2 DEF TypeOK
  <2>5. TypeOK'
    BY <1>1, <1>3, <2>3, <2>4
       DEF SendPacket, TypeOK, argVars, envVars, pathVars, callVars
  <2>6. InMessages'
    BY <1>1, <1>3 DEF SendPacket, InLoop, InMessages, Buffers, callVars
  <2>7. packetCounter = Len(sent) /\ ThePacket.seq = packetCounter
    BY <1>1, <2>2 DEF Counted, ThePacket
  <2>8. Counted' /\ NumberedInOrder'
    BY <1>1, <2>1, <2>2, <2>7 DEF Counted, NumberedInOrder
  <2> QED
    BY <2>5, <2>6, <2>8 DEF IndInv
<1>4. CASE ReducePayload
  <2>1. (maxUdpPayload * 8) \div 10 \in Int
    BY <1>1 DEF TypeOK
  <2>2. TypeOK'
    BY <1>1, <1>4, <2>1 DEF ReducePayload, TypeOK, argVars, envVars, pathVars, callVars
  <2>3. InMessages' /\ Counted' /\ NumberedInOrder'
    BY <1>1, <1>4
       DEF ReducePayload, InMessages, Buffers, Counted, NumberedInOrder, callVars
  <2> QED
    BY <2>2, <2>3 DEF IndInv
<1>5. CASE SendRefused
  <2>1. TypeOK'
    BY <1>1, <1>5 DEF SendRefused, TypeOK, argVars, envVars, pathVars, callVars, loopVars
  <2>2. InMessages' /\ Counted' /\ NumberedInOrder'
    BY <1>1, <1>5 DEF SendRefused, InMessages, Counted, NumberedInOrder
  <2> QED
    BY <2>1, <2>2 DEF IndInv
<1>6. CASE SendError
  <2>1. sendErrors' \in 0..MaxSendErrors
    BY <1>1, <1>6 DEF SendError, TypeOK
  <2>2. TypeOK'
    BY <1>1, <1>6, <2>1 DEF SendError, TypeOK, argVars, pathVars, callVars, loopVars
  <2>3. InMessages' /\ Counted' /\ NumberedInOrder'
    BY <1>1, <1>6 DEF SendError, InMessages, Counted, NumberedInOrder
  <2> QED
    BY <2>2, <2>3 DEF IndInv
<1>10. CASE LeaveBuffer \/ LeaveMessage
  <2>1. pc = "loop" /\ pc' \in {"call", "done"} /\ offset' = packetCounter /\ sent' = sent
        /\ UNCHANGED <<argVars, envVars, loopVars>>
        /\ message' = message /\ (buffer' = buffer + 1 \/ buffer' = buffer)
    BY <1>10 DEF LeaveBuffer, LeaveMessage
  <2>2. buffer' \in Nat \ {0}
    BY <1>1, <2>1 DEF TypeOK
  <2>3. TypeOK'
    BY <1>1, <2>1, <2>2 DEF TypeOK, argVars, envVars, pathVars, loopVars
  <2>4. InMessages' /\ Counted' /\ NumberedInOrder'
    BY <1>1, <2>1 DEF InMessages, Counted, NumberedInOrder
  <2> QED
    BY <2>3, <2>4 DEF IndInv
<1>7. CASE NextMessage
  BY <1>1, <1>7
     DEF NextMessage, IndInv, TypeOK, InMessages, Counted, NumberedInOrder,
         argVars, envVars, pathVars, loopVars
<1>8. CASE PathChanges
  BY <1>1, <1>8
     DEF PathChanges, IndInv, TypeOK, InMessages, Counted, NumberedInOrder, Buffers,
         argVars, callVars, loopVars
<1>9. CASE UNCHANGED vars
  BY <1>1, <1>9
     DEF vars, IndInv, TypeOK, InMessages, Counted, NumberedInOrder, Buffers,
         argVars, envVars, pathVars, callVars, loopVars
<1> QED
  BY <1>2, <1>3, <1>4, <1>5, <1>6, <1>7, <1>8, <1>9, <1>10 DEF Next, Sender

(* The inductive invariant holds throughout.                               *)
THEOREM Inductive == Spec => []IndInv
<1>1. Init => IndInv
  <2> SUFFICES ASSUME Init PROVE IndInv
    OBVIOUS
  <2>1. TypeOK
    <3>1. sent \in Seq(Packets) /\ pathChanges \in 0..MaxPathChanges
          /\ sendErrors \in 0..MaxSendErrors
      BY DEF Init
    <3>2. /\ mtu \in Mtus /\ interfaceMtu \in InterfaceMtus /\ pathLimit \in PathLimits
          /\ pc \in {"call", "loop", "done", "failed"}
          /\ message \in Nat \ {0} /\ buffer \in Nat \ {0}
          /\ offset \in Nat /\ packetCounter \in Nat
          /\ maxUdpPayload \in Int /\ remainingBytes \in Int
      BY DEF Init
    <3>3. veryFirstPacket \in BOOLEAN /\ veryLastPacket \in BOOLEAN
      BY DEF Init
    <3> QED
      BY <3>1, <3>2, <3>3 DEF TypeOK
  <2>2. InMessages /\ Counted /\ NumberedInOrder
    BY DEF Init, InMessages, Counted, NumberedInOrder
  <2> QED
    BY <2>1, <2>2 DEF IndInv
<1> QED
  BY <1>1, NextInd, PTL DEF Spec

(* The variables keep their types, for any messages, MTUs and paths.       *)
THEOREM TypeCorrect == Spec => []TypeOK
<1>1. IndInv => TypeOK
  BY DEF IndInv
<1> QED
  BY <1>1, Inductive, PTL

(* The packets of a message are numbered without a gap, however often the  *)
(* first one is refused and over however many buffers the message goes.    *)
THEOREM PacketsNumberedInOrder == Spec => []NumberedInOrder
<1>1. IndInv => NumberedInOrder
  BY DEF IndInv
<1> QED
  BY <1>1, Inductive, PTL
-----------------------------------------------------------------------------
(* The first and the last bit.                                             *)

(* How the loop's variables stand to the packets sent: the very first      *)
(* packet is due exactly while none is sent, and the very last one has not *)
(* been seen while bytes remain.                                           *)
BitsAhead ==
    Sendable =>
        /\ pc = "call" => (Len(sent) = 0 <=> buffer = 1)
        /\ pc = "loop" => /\ veryFirstPacket <=> (Len(sent) = 0 /\ message \in SeriesStarts)
                          /\ remainingBytes \in 0..DataLen
                          /\ remainingBytes > 0 => ~veryLastPacket
                          /\ remainingBytes = 0 => Len(sent) > 0

Bits == BitsAhead /\ BitsMarkTheEnds

(* The case of a packet sent: either bytes remain and it is not the very   *)
(* last one, or none do and it is the very last one of its buffer.         *)
LEMMA SendPacketBits ==
    ASSUME IndInv, Bits, Sendable, SendPacket
    PROVE  BitsAhead' /\ BitsMarkTheEnds'
<1>1. /\ pc = "loop" /\ pc' = "loop" /\ remainingBytes > 0 /\ BytesToWrite >= 0
      /\ sent' = Append(sent, ThePacket)
      /\ remainingBytes' = remainingBytes - BytesToWrite
      /\ veryFirstPacket' = FALSE /\ veryLastPacket' = IsVeryLast
      /\ message' = message /\ buffer' = buffer
  BY DEF SendPacket, InLoop, callVars
<1>2. /\ veryFirstPacket <=> (Len(sent) = 0 /\ message \in SeriesStarts)
      /\ remainingBytes \in 0..DataLen /\ ~veryLastPacket
  BY <1>1 DEF Bits, BitsAhead
<1>3. sent \in Seq(Packets) /\ ThePacket \in Packets /\ maxUdpPayload \in Int /\ DataLen \in Nat
      /\ veryFirstPacket \in BOOLEAN /\ IsVeryLast \in BOOLEAN
  BY <1>1, PacketTyped, BufferLengths DEF IndInv, TypeOK, InMessages, IsVeryLast
<1>4. \A i \in 1..Len(sent) : (sent[i].first <=> (i = 1 /\ message \in SeriesStarts)) /\ ~sent[i].last
  BY <1>1, <1>2 DEF Bits, BitsMarkTheEnds
<1>5. remainingBytes' \in 0..DataLen /\ (IsVeryLast <=> (LastBuffer /\ remainingBytes' = 0))
  <2>1. CASE remainingBytes > maxUdpPayload
    BY <1>1, <1>2, <1>3, <2>1 DEF BytesToWrite, IsVeryLast
  <2>2. CASE remainingBytes <= maxUdpPayload
    BY <1>1, <1>2, <1>3, <2>2 DEF BytesToWrite, IsVeryLast
  <2> QED
    BY <1>2, <1>3, <2>1, <2>2
<1>6. Sendable' /\ DataLen' = DataLen /\ LastBuffer' = LastBuffer
  BY <1>1 DEF Sendable, DataLen, Buffers, LastBuffer
<1>7. Len(sent') = Len(sent) + 1 /\ Len(sent) \in Nat
      /\ \A i \in 1..Len(sent') : sent'[i] = IF i = Len(sent) + 1 THEN ThePacket ELSE sent[i]
  BY <1>1, <1>3
<1>8. (ThePacket.first <=> veryFirstPacket) /\ (ThePacket.last <=> IsVeryLast)
  BY DEF ThePacket
<1>9. BitsAhead'
  BY <1>1, <1>5, <1>6, <1>7 DEF BitsAhead
<1>10. ASSUME NEW i \in 1..Len(sent')
       PROVE  /\ sent'[i].first <=> (i = 1 /\ message \in SeriesStarts)
              /\ sent'[i].last <=> (i = Len(sent') /\ LastBuffer /\ remainingBytes' = 0)
  <2>1. CASE i = Len(sent) + 1
    BY <1>2, <1>5, <1>7, <1>8, <2>1
  <2>2. CASE i # Len(sent) + 1
    <3>1. i \in 1..Len(sent) /\ sent'[i] = sent[i] /\ i # Len(sent')
      BY <1>7, <2>2
    <3>2. (sent[i].first <=> (i = 1 /\ message \in SeriesStarts)) /\ ~sent[i].last
      BY <1>4, <3>1
    <3> QED
      BY <3>1, <3>2, Zenon
  <2> QED
    BY <2>1, <2>2
<1>11. BitsMarkTheEnds'
  BY <1>1, <1>6, <1>10 DEF BitsMarkTheEnds
<1> QED
  BY <1>9, <1>11

(* Every step keeps the first and the last bit in their places.            *)
LEMMA BitsInd == IndInv /\ Bits /\ [Next]_vars => Bits'
<1> SUFFICES ASSUME IndInv, Bits, [Next]_vars PROVE BitsAhead' /\ BitsMarkTheEnds'
  BY DEF Bits
<1>1. BitsAhead /\ BitsMarkTheEnds /\ TypeOK /\ InMessages
  BY DEF Bits, IndInv
<1>2. CASE NextMessage
  BY <1>2 DEF NextMessage, BitsAhead, BitsMarkTheEnds
<1>3. ASSUME ~NextMessage PROVE message' = message
  BY <1>3 DEF Next, Sender, Enter, SendPacket, ReducePayload, SendRefused, LeaveBuffer,
              LeaveMessage, SendError, PathChanges, vars, callVars
<1>4. ASSUME ~NextMessage, ~Sendable PROVE BitsAhead' /\ BitsMarkTheEnds'
  <2>1. ~Sendable'
    BY <1>3, <1>4 DEF Sendable, Buffers
  <2> QED
    BY <2>1 DEF BitsAhead, BitsMarkTheEnds
<1>5. CASE Sendable /\ Enter
  <2>1. /\ pc = "call" /\ pc' = "loop" /\ sent' = sent /\ message' = message /\ buffer' = buffer
        /\ veryFirstPacket' = FirstBuffer /\ veryLastPacket' = FALSE
        /\ remainingBytes' = ToInt(DataLen)
        /\ message \in DOMAIN Messages /\ buffer \in DOMAIN Buffers
    BY <1>5 DEF Enter, callVars
  <2>2. DataLen \in 1..(Two31 - 1)
    <3>1. Buffers \in Seq(0..(2 * Two31 - 1))
      BY <2>1 DEF Buffers
    <3>2. buffer \in 1..Len(Buffers)
      BY <2>1, <3>1
    <3> QED
      BY <1>5, <3>2 DEF Sendable, DataLen
  <2>3. ToInt(DataLen) = DataLen
    BY <2>1, <2>2, BufferLengths
  <2>4. Sendable' /\ DataLen' = DataLen /\ LastBuffer' = LastBuffer
    <3>1. message' = message /\ buffer' = buffer
      BY <2>1
    <3> QED
      BY <1>5, <3>1 DEF Sendable, DataLen, Buffers, LastBuffer
  <2>5. Len(sent) = 0 <=> buffer = 1
    BY <1>1, <1>5, <2>1 DEF BitsAhead
  <2>6. BitsAhead'
    <3>1. veryFirstPacket' <=> (Len(sent') = 0 /\ message' \in SeriesStarts)
      BY <2>1, <2>5 DEF FirstBuffer
    <3>2. remainingBytes' \in 1..DataLen' /\ pc' = "loop" /\ ~veryLastPacket'
      BY <2>1, <2>2, <2>3, <2>4
    <3> QED
      BY <3>1, <3>2 DEF BitsAhead
  <2>7. BitsMarkTheEnds'
    BY <1>1, <1>5, <2>1, <2>2, <2>3, <2>4 DEF BitsMarkTheEnds
  <2> QED
    BY <2>6, <2>7
<1>6. CASE Sendable /\ SendPacket
  BY <1>6, SendPacketBits
<1>7. CASE Sendable /\ ReducePayload
  <2>1. pc = "loop" /\ pc' = "loop" /\ sent' = sent /\ message' = message /\ buffer' = buffer
        /\ veryFirstPacket' = veryFirstPacket /\ veryLastPacket' = FALSE
        /\ remainingBytes' = remainingBytes
    BY <1>7 DEF ReducePayload, InLoop, callVars
  <2>2. Sendable' /\ DataLen' = DataLen /\ LastBuffer' = LastBuffer
    BY <1>7, <2>1 DEF Sendable, DataLen, Buffers, LastBuffer
  <2> QED
    BY <1>1, <1>7, <2>1, <2>2 DEF BitsAhead, BitsMarkTheEnds
<1>8. CASE Sendable /\ (SendRefused \/ SendError)
  <2>1. pc = "loop" /\ remainingBytes > 0 /\ pc' = "failed" /\ sent' = sent
        /\ message' = message /\ buffer' = buffer
    BY <1>8 DEF SendRefused, SendError, InLoop, callVars
  <2> QED
    BY <1>1, <1>8, <2>1 DEF BitsAhead, BitsMarkTheEnds, Sendable, Buffers, LastBuffer, TypeOK
<1>9. CASE Sendable /\ LeaveBuffer
  <2>1. pc = "loop" /\ remainingBytes <= 0 /\ ~LastBuffer /\ pc' = "call" /\ sent' = sent
        /\ message' = message /\ buffer' = buffer + 1
    BY <1>9 DEF LeaveBuffer
  <2>2. Len(sent) > 0 /\ buffer + 1 # 1
    BY <1>1, <1>9, <2>1 DEF BitsAhead, TypeOK
  <2> QED
    BY <1>1, <1>9, <2>1, <2>2 DEF BitsAhead, BitsMarkTheEnds, Sendable, Buffers
<1>10. CASE Sendable /\ LeaveMessage
  <2>1. pc = "loop" /\ remainingBytes <= 0 /\ LastBuffer /\ pc' = "done" /\ sent' = sent
        /\ message' = message /\ buffer' = buffer
    BY <1>10 DEF LeaveMessage
  <2>2. remainingBytes = 0
    BY <1>1, <1>10, <2>1 DEF BitsAhead, TypeOK
  <2> QED
    BY <1>1, <1>10, <2>1, <2>2
       DEF BitsAhead, BitsMarkTheEnds, Sendable, Buffers, LastBuffer
<1>11. CASE Sendable /\ (PathChanges \/ UNCHANGED vars)
  BY <1>1, <1>11 DEF PathChanges, vars, callVars, loopVars, BitsAhead, BitsMarkTheEnds,
                     Sendable, Buffers, DataLen, LastBuffer
<1> QED
  BY <1>2, <1>4, <1>5, <1>6, <1>7, <1>8, <1>9, <1>10, <1>11 DEF Next, Sender

(* For messages of any lengths that an int can hold, on any path: the      *)
(* first bit is on the first packet and the last bit on the packet that    *)
(* ends the message, and on no others.                                     *)
THEOREM BitsOnTheEnds == Spec => []BitsMarkTheEnds
<1>1. Init => Bits
  BY DEF Init, Bits, BitsAhead, BitsMarkTheEnds
<1>2. Spec => []Bits
  BY <1>1, BitsInd, Inductive, PTL DEF Spec
<1>3. Bits => BitsMarkTheEnds
  BY DEF Bits
<1> QED
  BY <1>2, <1>3, PTL
-----------------------------------------------------------------------------
(* The retry with smaller packets.                                         *)

(* Nothing stands in the way of the first packet but its size: the message *)
(* is one buffer and starts a series, the MTU leaves room, the path has not*)
(* changed.                                                                *)
OnlySizeMatters ==
    /\ pathChanges = 0
    /\ Len(Buffers) = 1 /\ message \in SeriesStarts
    /\ PayloadFor(mtu, interfaceMtu) >= 0

(* Once a packet has gone through, a full one of the same size does.       *)
GoneThrough ==
    (pc = "loop" /\ OnlySizeMatters) =>
        /\ maxUdpPayload >= 0
        /\ (~veryFirstPacket /\ remainingBytes > 0) => maxUdpPayload <= pathLimit

(* For any lengths, MTUs and paths: a message that is refused in the end   *)
(* is one that sendmsg had another error for, whose path changed under way,*)
(* that is not a single buffer, or whose MTU leaves no room for data.  The *)
(* retry of sendPacketizedBuffer, which is for the first packet alone, is  *)
(* then enough.                                                            *)
THEOREM RetriesSuffice == Spec => []RetrySuffices
<1> DEFINE R == GoneThrough /\ RetrySuffices
<1>1. Init => R
  BY DEF Init, GoneThrough, RetrySuffices
<1>2. IndInv /\ R /\ [Next]_vars => R'
  <2> SUFFICES ASSUME IndInv, R, [Next]_vars PROVE GoneThrough' /\ RetrySuffices'
    OBVIOUS
  <2>1. TypeOK /\ InMessages /\ GoneThrough /\ RetrySuffices
    BY DEF IndInv
  <2>2. /\ maxUdpPayload \in Int /\ remainingBytes \in Int
        /\ pathChanges \in Nat /\ pathLimit \in Nat /\ sendErrors \in Nat
        /\ PayloadFor(mtu, interfaceMtu) \in Int
    BY <2>1, PayloadIsInt DEF TypeOK
  <2>3. ASSUME UNCHANGED <<argVars, pathChanges, message>>
        PROVE  OnlySizeMatters' <=> OnlySizeMatters
    BY <2>3 DEF OnlySizeMatters, argVars, Buffers
  <2>4. CASE Enter
    <3>1. UNCHANGED <<argVars, pathChanges, message>> /\ buffer' = buffer
      BY <2>4 DEF Enter, envVars, pathVars, callVars
    <3>2. OnlySizeMatters => FirstBuffer
      <4>1. Buffers \in Seq(0..(2 * Two31 - 1)) /\ buffer \in DOMAIN Buffers
        BY <2>4 DEF Enter, Buffers
      <4> QED
        BY <4>1 DEF OnlySizeMatters, FirstBuffer
    <3>3. GoneThrough'
      BY <2>3, <2>4, <3>1, <3>2 DEF Enter, GoneThrough, OnlySizeMatters
    <3>4. RetrySuffices'
      BY <2>4 DEF Enter, RetrySuffices
    <3> QED
      BY <3>3, <3>4
  <2>5. CASE SendPacket
    <3>1. /\ UNCHANGED <<argVars, pathChanges, message>>
          /\ pc = "loop" /\ pc' = "loop" /\ BytesToWrite <= pathLimit
          /\ maxUdpPayload' = maxUdpPayload /\ pathLimit' = pathLimit
          /\ remainingBytes' = remainingBytes - BytesToWrite
      <4>1. BytesToWrite \in Int
        BY <2>2 DEF BytesToWrite
      <4> QED
        BY <2>2, <2>5, <4>1 DEF SendPacket, InLoop, TooBig, envVars, pathVars, callVars
    <3>2. remainingBytes' > 0 => maxUdpPayload <= pathLimit
      BY <2>2, <3>1 DEF BytesToWrite
    <3> QED
      BY <2>1, <2>3, <3>1, <3>2 DEF GoneThrough, RetrySuffices
  <2>6. CASE ReducePayload
    <3>1. /\ UNCHANGED <<argVars, pathChanges, message>>
          /\ pc = "loop" /\ pc' = "loop" /\ veryFirstPacket /\ veryFirstPacket'
          /\ maxUdpPayload' = (maxUdpPayload * 8) \div 10
      BY <2>6 DEF ReducePayload, InLoop, envVars, pathVars, callVars
    <3>2. maxUdpPayload >= 0 => maxUdpPayload' >= 0
      BY <2>2, <3>1
    <3> QED
      BY <2>1, <2>3, <3>1, <3>2 DEF GoneThrough, RetrySuffices
  <2>7. CASE SendRefused
    <3>1. /\ UNCHANGED <<argVars, pathChanges, message>>
          /\ pc = "loop" /\ pc' = "failed" /\ remainingBytes > 0
          /\ (TooBig /\ ~veryFirstPacket) \/ BytesToWrite < 0
      BY <2>7 DEF SendRefused, InLoop, envVars, pathVars, callVars
    <3>2. ~OnlySizeMatters
      BY <2>1, <2>2, <3>1 DEF GoneThrough, TooBig, BytesToWrite
    <3>3. ~OnlySizeMatters'
      BY <2>3, <3>1, <3>2
    <3>4. PayloadFor(mtu, interfaceMtu)' \in Int /\ pathChanges' \in Nat
      BY <2>2, <3>1 DEF argVars
    <3>5. RetrySuffices'
      <4>1. CASE pathChanges' # 0
        BY <3>4, <4>1 DEF RetrySuffices
      <4>2. CASE pathChanges' = 0 /\ message' \in SeriesStarts /\ Len(Buffers') # 1
        <5>1. Buffers' = Buffers /\ message \in DOMAIN Messages /\ buffer \in DOMAIN Buffers
          BY <2>1, <3>1 DEF InMessages, Buffers
        <5>2. Buffers \in Seq(0..(2 * Two31 - 1))
          BY <5>1 DEF Buffers
        <5>3. PICK n \in Nat : n = Len(Buffers)
          BY <5>2
        <5>4. n # 1
          BY <4>2, <5>1, <5>3
        <5>5. buffer \in 1..n
          BY <5>1, <5>2, <5>3
        <5>6. n > 1
          BY <5>4, <5>5
        <5> QED
          BY <5>1, <5>3, <5>6 DEF RetrySuffices
      <4> QED
        BY <3>3, <3>4, <4>1, <4>2 DEF OnlySizeMatters, RetrySuffices
    <3> QED
      BY <3>1, <3>5 DEF GoneThrough
  <2>8. CASE SendError
    <3>1. pc' = "failed" /\ sendErrors' > 0
      BY <2>2, <2>8 DEF SendError
    <3> QED
      BY <3>1 DEF GoneThrough, RetrySuffices
  <2>9. CASE LeaveBuffer \/ LeaveMessage \/ NextMessage
    BY <2>9 DEF LeaveBuffer, LeaveMessage, NextMessage, GoneThrough, RetrySuffices
  <2>10. CASE PathChanges
    <3>1. pathChanges' > 0
      BY <2>2, <2>10 DEF PathChanges
    <3> QED
      BY <2>2, <3>1 DEF GoneThrough, RetrySuffices, OnlySizeMatters
  <2>11. CASE UNCHANGED vars
    BY <2>1, <2>11 DEF vars, argVars, envVars, pathVars, callVars, loopVars, GoneThrough,
                       RetrySuffices, OnlySizeMatters, Buffers
  <2> QED
    BY <2>4, <2>5, <2>6, <2>7, <2>8, <2>9, <2>10, <2>11 DEF Next, Sender
<1>3. Spec => []R
  BY <1>1, <1>2, Inductive, PTL DEF Spec
<1>4. R => RetrySuffices
  OBVIOUS
<1> QED
  BY <1>3, <1>4, PTL
-----------------------------------------------------------------------------
(* A message sent is the message cut.                                      *)

(* No packets for no buffer.                                               *)
StartsEmpty == Len(Buffers) \in Nat => \A size : CutUpTo(size)[0] = <<>>

LEMMA StartsEmptyHolds == StartsEmpty
BY CutUpToIs DEF StartsEmpty

(* In the loop: the buffers before this one are sent as cut, and of this   *)
(* one the first k packets.  The payload is settled once one is sent.      *)
InCut(size, k) ==
    LET before == CutUpTo(size)[buffer - 1]
    IN  /\ before \in Seq(Packets)
        /\ maxUdpPayload = (IF buffer = 1 THEN size ELSE FullPayload)
        /\ k \in 0..PacketCount(ToInt(DataLen), maxUdpPayload)
        /\ sent = before \o Begin(Cut(buffer, maxUdpPayload, Len(before)), k)
        /\ remainingBytes = IF k = PacketCount(ToInt(DataLen), maxUdpPayload) THEN 0
                            ELSE ToInt(DataLen) - k * maxUdpPayload
        /\ veryFirstPacket <=> (k = 0 /\ FirstBuffer)
        /\ remainingBytes > 0 => ~veryLastPacket

(* What is sent of a message at any time, if it can be cut at all.         *)
SentSoFar ==
    CanBeCut =>
        /\ (pc = "call" /\ message \in DOMAIN Messages) =>
               /\ buffer \in 1..(Len(Buffers) + 1)
               /\ \E size \in 1..FullPayload : sent = CutUpTo(size)[buffer - 1]
        /\ pc = "loop" =>
               \E size \in 1..FullPayload : \E k \in 0..Len(sent) : InCut(size, k)

(* The buffer being sent, and how the packet at place i of its cut looks.  *)
LEMMA BufferInHand ==
    ASSUME IndInv, CanBeCut, pc = "loop"
    PROVE  /\ ToInt(DataLen) \in Nat /\ Len(Buffers) \in Nat /\ buffer \in 1..Len(Buffers)
           /\ FullPayload \in Nat \ {0}
<1>1. message \in DOMAIN Messages /\ buffer \in DOMAIN Buffers /\ TypeOK
  BY DEF IndInv, InMessages
<1>2. Buffers \in Seq(0..(2 * Two31 - 1))
  BY <1>1 DEF Buffers
<1>3. buffer \in 1..Len(Buffers) /\ Len(Buffers) \in Nat
  BY <1>1, <1>2
<1>4. ToInt(DataLen) \in Int
  BY <1>1, BufferLengths
<1>5. ToInt(DataLen) >= 0
  BY <1>3 DEF CanBeCut, DataLen
<1>6. FullPayload \in Int
  BY <1>1, PayloadIsInt DEF FullPayload
<1> QED
  BY <1>3, <1>4, <1>5, <1>6 DEF CanBeCut

CutPacket(b, size, at, i) ==
    LET count == PacketCount(ToInt(Buffers[b]), size)
    IN  [seq   |-> at + i - 1,
         first |-> i = 1 /\ b = 1 /\ message \in SeriesStarts,
         last  |-> i = count /\ b = Len(Buffers),
         buf   |-> b,
         from  |-> (i - 1) * size,
         len   |-> IF i = count THEN ToInt(Buffers[b]) - (i - 1) * size ELSE size]

LEMMA CutFields ==
    ASSUME NEW size, NEW at, NEW b, NEW i \in 1..PacketCount(ToInt(Buffers[b]), size)
    PROVE  Cut(b, size, at)[i] = CutPacket(b, size, at, i)
BY DEF Cut, CutPacket

(* The packet sent is the next one of the cut.                             *)
LEMMA SendsNextOfCut ==
    ASSUME IndInv, CanBeCut, NEW size \in 1..FullPayload, NEW k \in Nat, InCut(size, k), SendPacket
    PROVE  InCut(size, k + 1)'
<1> DEFINE before == CutUpTo(size)[buffer - 1]
           n == ToInt(DataLen)
           count == PacketCount(n, maxUdpPayload)
           at == Len(before)
<1>1. /\ pc = "loop" /\ remainingBytes > 0
      /\ sent' = Append(sent, ThePacket)
      /\ remainingBytes' = remainingBytes - BytesToWrite
      /\ veryFirstPacket' = FALSE /\ veryLastPacket' = IsVeryLast
      /\ UNCHANGED <<mtu, interfaceMtu, message, buffer, maxUdpPayload>>
  BY DEF SendPacket, InLoop, argVars, callVars
<1>2. /\ n \in Nat /\ Len(Buffers) \in Nat /\ buffer \in 1..Len(Buffers)
      /\ FullPayload \in Nat \ {0} /\ maxUdpPayload \in Nat \ {0}
  BY <1>1, BufferInHand DEF InCut
<1>3. /\ before \in Seq(Packets) /\ k \in 0..count
      /\ sent = before \o Begin(Cut(buffer, maxUdpPayload, at), k)
      /\ remainingBytes = (IF k = count THEN 0 ELSE n - k * maxUdpPayload)
      /\ veryFirstPacket <=> (k = 0 /\ FirstBuffer)
      /\ ~veryLastPacket
  BY <1>1 DEF InCut
<1>4. at \in Nat /\ count \in Nat /\ packetCounter = Len(sent) /\ Len(sent) = at + k
  <2>1. count \in Nat
    BY <1>2, CountIsEnough
  <2>2. packetCounter = Len(sent)
    BY <1>1 DEF IndInv, Counted
  <2>3. before \in Seq(Packets)
    BY <1>3
  <2>4. Len(sent) = at + k
    <3> HIDE DEF before
    <3>1. Len(before \o Begin(Cut(buffer, maxUdpPayload, at), k)) = Len(before) + k
      BY <2>3, OneMore
    <3> QED
      BY <1>3, <3>1
  <2> HIDE DEF before
  <2> QED
    BY <2>1, <2>2, <2>3, <2>4
<1>5. k < count
  BY <1>1, <1>3, <1>4
<1>6. /\ k * maxUdpPayload \in Nat /\ k * maxUdpPayload < n
      /\ (k + 1) * maxUdpPayload = k * maxUdpPayload + maxUdpPayload
      /\ n - k * maxUdpPayload <= maxUdpPayload <=> k + 1 = count
  BY <1>2, <1>5, LastIsShort
<1>7. /\ remainingBytes = n - k * maxUdpPayload /\ remainingBytes \in Nat
      /\ BytesToWrite = (IF k + 1 = count THEN remainingBytes ELSE maxUdpPayload)
      /\ BytesToWrite = remainingBytes <=> k + 1 = count
  <2> HIDE DEF n, count
  <2>1. remainingBytes = n - k * maxUdpPayload /\ remainingBytes \in Nat
    BY <1>2, <1>3, <1>5, <1>6
  <2>2. remainingBytes <= maxUdpPayload <=> k + 1 = count
    BY <1>6, <2>1
  <2>3. BytesToWrite = (IF k + 1 = count THEN remainingBytes ELSE maxUdpPayload)
    BY <1>2, <2>1, <2>2 DEF BytesToWrite
  <2>4. BytesToWrite = remainingBytes <=> k + 1 = count
    BY <1>2, <2>1, <2>2, <2>3
  <2> QED
    BY <2>1, <2>3, <2>4
<1>8. IsVeryLast <=> (k + 1 = count /\ buffer = Len(Buffers))
  BY <1>3, <1>7 DEF IsVeryLast, LastBuffer
<1>9. ThePacket = Cut(buffer, maxUdpPayload, at)[k + 1]
  <2>1. k + 1 \in 1..count
    BY <1>4, <1>5
  <2>2. Cut(buffer, maxUdpPayload, at)[k + 1] = CutPacket(buffer, maxUdpPayload, at, k + 1)
    <3> HIDE DEF n, count, at
    <3>1. k + 1 \in 1..PacketCount(ToInt(Buffers[buffer]), maxUdpPayload)
      BY <2>1 DEF DataLen, n, count
    <3> QED
      BY <3>1, CutFields
  <2>3. (k + 1) - 1 = k /\ at + (k + 1) - 1 = packetCounter
    BY <1>4
  <2>4. veryFirstPacket = (k + 1 = 1 /\ buffer = 1 /\ message \in SeriesStarts)
    BY <1>3 DEF FirstBuffer, IndInv, TypeOK
  <2>5. IsVeryLast = (k + 1 = count /\ buffer = Len(Buffers))
    BY <1>8 DEF IsVeryLast, IndInv, TypeOK
  <2>6. n - remainingBytes = k * maxUdpPayload
    <3> HIDE DEF n
    <3> QED
      BY <1>2, <1>6, <1>7
  <2>7. BytesToWrite = (IF k + 1 = count THEN n - k * maxUdpPayload ELSE maxUdpPayload)
    BY <1>7
  <2>8. ToInt(Buffers[buffer]) = n /\ PacketCount(ToInt(Buffers[buffer]), maxUdpPayload) = count
    BY DEF DataLen
  <2> HIDE DEF n, count, at
  <2>9. ThePacket = [seq |-> packetCounter, first |-> veryFirstPacket, last |-> IsVeryLast,
                     buf |-> buffer, from |-> n - remainingBytes, len |-> BytesToWrite]
    BY DEF ThePacket, n
  <2>10. CutPacket(buffer, maxUdpPayload, at, k + 1)
             = [seq |-> packetCounter, first |-> veryFirstPacket, last |-> IsVeryLast,
                buf |-> buffer, from |-> k * maxUdpPayload, len |-> BytesToWrite]
    BY <2>3, <2>4, <2>5, <2>7, <2>8 DEF CutPacket
  <2> QED
    BY <2>2, <2>6, <2>9, <2>10
<1>10. sent' = before \o Begin(Cut(buffer, maxUdpPayload, at), k + 1)
  <2> DEFINE cut == Cut(buffer, maxUdpPayload, at)
  <2>1. sent = before \o Begin(cut, k) /\ sent' = Append(sent, cut[k + 1])
    BY <1>1, <1>3, <1>9
  <2>2. before \in Seq(Packets)
    BY <1>3
  <2> HIDE DEF before, cut
  <2>3. Append(before \o Begin(cut, k), cut[k + 1]) = before \o Begin(cut, k + 1)
    BY <2>2, OneMore
  <2>4. sent' = before \o Begin(cut, k + 1)
    BY <2>1, <2>3
  <2> QED
    BY <2>4 DEF cut
<1>11. remainingBytes' = (IF k + 1 = count THEN 0 ELSE n - (k + 1) * maxUdpPayload)
  <2> HIDE DEF n, count
  <2> QED
    BY <1>1, <1>2, <1>6, <1>7
<1>12. remainingBytes' > 0 => ~IsVeryLast
  BY <1>8, <1>11
<1>13. /\ CutUpTo(size)[buffer - 1]' = before /\ FullPayload' = FullPayload
       /\ ToInt(DataLen)' = n /\ FirstBuffer' = FirstBuffer
       /\ Cut(buffer, maxUdpPayload, at)' = Cut(buffer, maxUdpPayload, at)
  BY <1>1 DEF CutUpTo, Cut, Buffers, FullPayload, DataLen, FirstBuffer
<1>14. maxUdpPayload = (IF buffer = 1 THEN size ELSE FullPayload)
  BY DEF InCut
<1>15. k + 1 \in 0..count
  BY <1>4, <1>5
<1>16. /\ CutUpTo(size)[buffer - 1]' \in Seq(Packets)
       /\ maxUdpPayload' = (IF buffer' = 1 THEN size ELSE FullPayload')
       /\ k + 1 \in 0..PacketCount(ToInt(DataLen)', maxUdpPayload')
       /\ remainingBytes' = (IF k + 1 = PacketCount(ToInt(DataLen)', maxUdpPayload') THEN 0
                             ELSE ToInt(DataLen)' - (k + 1) * maxUdpPayload')
  BY <1>1, <1>3, <1>11, <1>13, <1>14, <1>15
<1>17. sent' = CutUpTo(size)[buffer - 1]' \o Begin(Cut(buffer, maxUdpPayload, at)', k + 1)
  BY <1>10, <1>13
<1>18. /\ veryFirstPacket' <=> (k + 1 = 0 /\ FirstBuffer')
       /\ remainingBytes' > 0 => ~veryLastPacket'
  BY <1>1, <1>2, <1>12
<1> QED
  BY <1>16, <1>17, <1>18 DEF InCut

(* The first packet refused as too big: nothing is sent of the message, and*)
(* the cut begins anew with the smaller size.                              *)
LEMMA BeginsAnew ==
    ASSUME IndInv, CanBeCut, NEW size \in 1..FullPayload, NEW k \in Nat, InCut(size, k),
           ReducePayload, NEW smaller, smaller = maxUdpPayload'
    PROVE  smaller \in 1..FullPayload /\ InCut(smaller, 0)'
<1>1. /\ pc = "loop" /\ remainingBytes > 0 /\ TooBig /\ veryFirstPacket /\ veryFirstPacket'
      /\ maxUdpPayload' = (maxUdpPayload * 8) \div 10
      /\ veryLastPacket' = FALSE
      /\ UNCHANGED <<mtu, interfaceMtu, message, buffer, remainingBytes, sent>>
  BY DEF ReducePayload, InLoop, argVars, callVars
<1>2. /\ ToInt(DataLen) \in Nat /\ Len(Buffers) \in Nat
      /\ FullPayload \in Nat \ {0} /\ maxUdpPayload \in 1..FullPayload
      /\ remainingBytes \in Int /\ pathLimit \in Nat \ {0}
  <2>1. remainingBytes \in Int /\ pathLimit \in Nat \ {0}
    BY DEF IndInv, TypeOK
  <2> QED
    BY <1>1, <2>1, BufferInHand DEF InCut
<1>3. k = 0 /\ buffer = 1 /\ FirstBuffer
  BY <1>1 DEF InCut, FirstBuffer
<1>4. smaller \in 1..FullPayload /\ maxUdpPayload' = smaller
  <2>1. maxUdpPayload > 1
    BY <1>1, <1>2 DEF TooBig, BytesToWrite
  <2> QED
    BY <1>1, <1>2, <2>1
<1>5. CutUpTo(size)[0] = <<>> /\ CutUpTo(smaller)[0] = <<>>
  BY <1>2, CutUpToIs
<1>6. sent = <<>>
  <2>1. Begin(Cut(buffer, maxUdpPayload, Len(<<>>)), 0) = <<>>
    BY DEF Begin
  <2>2. sent = CutUpTo(size)[buffer - 1]
                   \o Begin(Cut(buffer, maxUdpPayload, Len(CutUpTo(size)[buffer - 1])), k)
    BY DEF InCut
  <2>3. CutUpTo(size)[buffer - 1] = <<>>
    BY <1>3, <1>5
  <2>4. sent = <<>> \o Begin(Cut(buffer, maxUdpPayload, Len(<<>>)), 0)
    BY <1>3, <2>2, <2>3
  <2> QED
    BY <2>1, <2>4
<1>7. remainingBytes = ToInt(DataLen) /\ ToInt(DataLen) > 0
  BY <1>1, <1>2, <1>3 DEF InCut
<1>8. /\ CutUpTo(smaller)[buffer - 1]' = <<>>
      /\ FullPayload' = FullPayload /\ ToInt(DataLen)' = ToInt(DataLen) /\ FirstBuffer'
  <2>1. (buffer - 1)' = 0 /\ message' = message /\ mtu' = mtu /\ interfaceMtu' = interfaceMtu
    BY <1>1, <1>3
  <2>2. CutUpTo(smaller)' = CutUpTo(smaller)
    BY <2>1 DEF CutUpTo, Cut, Buffers, FullPayload
  <2> QED
    BY <1>1, <1>3, <1>5, <2>1, <2>2 DEF FullPayload, DataLen, Buffers, FirstBuffer
<1>9. PacketCount(ToInt(DataLen), smaller) \in Nat /\ PacketCount(ToInt(DataLen), smaller) # 0
  <2> DEFINE n == ToInt(DataLen)
             s == smaller
  <2>1. s \in Nat \ {0} /\ n \in Nat /\ n > 0
    BY <1>2, <1>4, <1>7
  <2> HIDE DEF n, s
  <2>2. PacketCount(n, s) \in Nat /\ n <= PacketCount(n, s) * s
    BY <2>1, CountIsEnough
  <2>3. PacketCount(n, s) = 0 => PacketCount(n, s) * s = 0
    BY <2>1
  <2>4. PacketCount(n, s) # 0
    BY <2>1, <2>2, <2>3
  <2> QED
    BY <2>2, <2>4 DEF n, s
<1>10. sent' = <<>> \o Begin(Cut(buffer, maxUdpPayload, Len(<<>>))', 0)
  <2>1. Begin(Cut(buffer, maxUdpPayload, Len(<<>>))', 0) = <<>>
    BY DEF Begin
  <2> QED
    BY <1>1, <1>6, <2>1
<1>11. remainingBytes' = ToInt(DataLen)' - 0 * smaller
  BY <1>1, <1>2, <1>4, <1>7, <1>8
<1>12. sent' = CutUpTo(smaller)[buffer - 1]'
                   \o Begin(Cut(buffer, maxUdpPayload, Len(CutUpTo(smaller)[buffer - 1]))', 0)
  BY <1>8, <1>10
<1>13. /\ CutUpTo(smaller)[buffer - 1]' \in Seq(Packets)
       /\ maxUdpPayload' = (IF buffer' = 1 THEN smaller ELSE FullPayload')
       /\ 0 \in 0..PacketCount(ToInt(DataLen)', maxUdpPayload')
       /\ remainingBytes' = (IF 0 = PacketCount(ToInt(DataLen)', maxUdpPayload') THEN 0
                             ELSE ToInt(DataLen)' - 0 * maxUdpPayload')
  <2>1. CutUpTo(smaller)[buffer - 1]' \in Seq(Packets)
    BY <1>8
  <2>2. PacketCount(ToInt(DataLen)', maxUdpPayload') = PacketCount(ToInt(DataLen), smaller)
    BY <1>4, <1>8
  <2>3. remainingBytes' = ToInt(DataLen)' - 0 * maxUdpPayload'
    BY <1>4, <1>11
  <2> QED
    BY <1>1, <1>3, <1>4, <1>9, <2>1, <2>2, <2>3
<1>14. veryFirstPacket' /\ FirstBuffer' /\ ~veryLastPacket'
  BY <1>1, <1>8
<1> QED
  BY <1>4, <1>12, <1>13, <1>14 DEF InCut

(* A buffer entered: none of its packets is sent.                          *)
LEMMA EntersTheCut ==
    ASSUME IndInv, CanBeCut, SentSoFar, Enter
    PROVE  \E size \in 1..FullPayload : InCut(size, 0)'
<1>1. /\ pc = "call" /\ message \in DOMAIN Messages /\ buffer \in DOMAIN Buffers
      /\ maxUdpPayload' = FullPayload /\ remainingBytes' = ToInt(DataLen)
      /\ veryFirstPacket' = FirstBuffer /\ veryLastPacket' = FALSE
      /\ UNCHANGED <<mtu, interfaceMtu, message, buffer, sent>>
  BY DEF Enter, argVars, callVars, FullPayload
<1>2. PICK before \in 1..FullPayload : sent = CutUpTo(before)[buffer - 1]
  BY <1>1 DEF SentSoFar
<1>3. sent \in Seq(Packets) /\ FullPayload \in Nat \ {0}
  BY PayloadIsInt DEF IndInv, TypeOK, CanBeCut, FullPayload
<1>4. /\ ToInt(DataLen) \in Nat /\ Len(Buffers) \in Nat /\ buffer \in 1..Len(Buffers)
  <2>1. Buffers \in Seq(0..(2 * Two31 - 1))
    BY <1>1 DEF Buffers
  <2>2. buffer \in 1..Len(Buffers) /\ Len(Buffers) \in Nat
    BY <1>1, <2>1
  <2>3. ToInt(DataLen) \in Int
    BY <1>1, BufferLengths
  <2> QED
    BY <2>2, <2>3 DEF CanBeCut, DataLen
<1>5. PICK size : size = IF buffer = 1 THEN FullPayload ELSE before
  OBVIOUS
<1>6. size \in 1..FullPayload /\ sent = CutUpTo(size)[buffer - 1]
  <2>1. CASE buffer = 1
    <3>1. CutUpTo(before)[0] = <<>> /\ CutUpTo(size)[0] = <<>>
      BY <1>4, CutUpToIs
    <3> QED
      BY <1>2, <1>3, <1>5, <2>1, <3>1
  <2>2. CASE buffer # 1
    BY <1>2, <1>5, <2>2
  <2> QED
    BY <2>1, <2>2
<1>7. /\ CutUpTo(size)[buffer - 1]' = CutUpTo(size)[buffer - 1]
      /\ FullPayload' = FullPayload /\ ToInt(DataLen)' = ToInt(DataLen) /\ FirstBuffer' = FirstBuffer
  <2>1. CutUpTo(size)' = CutUpTo(size)
    BY <1>1 DEF CutUpTo, Cut, Buffers, FullPayload
  <2> QED
    BY <1>1, <2>1 DEF FullPayload, DataLen, Buffers, FirstBuffer
<1>8. PacketCount(ToInt(DataLen), FullPayload) \in Nat
  BY <1>3, <1>4, CountIsEnough
<1>9. remainingBytes' = (IF 0 = PacketCount(ToInt(DataLen), FullPayload) THEN 0
                         ELSE ToInt(DataLen) - 0 * FullPayload)
  <2>1. 0 = PacketCount(ToInt(DataLen), FullPayload) => ToInt(DataLen) = 0
    <3> DEFINE n == ToInt(DataLen)
               s == FullPayload
    <3>1. n \in Nat /\ s \in Nat \ {0}
      BY <1>3, <1>4
    <3> HIDE DEF n, s
    <3>2. n <= PacketCount(n, s) * s
      BY <3>1, CountIsEnough
    <3>3. 0 = PacketCount(n, s) => PacketCount(n, s) * s = 0
      BY <3>1
    <3>4. 0 = PacketCount(n, s) => n = 0
      BY <3>1, <3>2, <3>3
    <3> QED
      BY <3>4 DEF n, s
  <2> QED
    BY <1>1, <1>3, <1>4, <2>1
<1>10. sent' = sent \o Begin(Cut(buffer, maxUdpPayload, Len(sent))', 0)
  <2>1. Begin(Cut(buffer, maxUdpPayload, Len(sent))', 0) = <<>>
    BY DEF Begin
  <2> QED
    BY <1>1, <1>3, <2>1
<1>11. FullPayload' = (IF buffer' = 1 THEN size ELSE FullPayload')
  BY <1>1, <1>7, <1>5
<1>12. sent' = CutUpTo(size)[buffer - 1]' \o Begin(Cut(buffer, maxUdpPayload, Len(CutUpTo(size)[buffer - 1]))', 0)
  BY <1>1, <1>6, <1>7, <1>10
<1>13. InCut(size, 0)'
  <2>1. /\ CutUpTo(size)[buffer - 1]' \in Seq(Packets)
        /\ maxUdpPayload' = (IF buffer' = 1 THEN size ELSE FullPayload')
        /\ 0 \in 0..PacketCount(ToInt(DataLen)', maxUdpPayload')
        /\ remainingBytes' = (IF 0 = PacketCount(ToInt(DataLen)', maxUdpPayload') THEN 0
                              ELSE ToInt(DataLen)' - 0 * maxUdpPayload')
    BY <1>1, <1>3, <1>6, <1>7, <1>8, <1>9, <1>11
  <2>2. veryFirstPacket' = FirstBuffer' /\ ~veryLastPacket'
    BY <1>1, <1>7
  <2> QED
    BY <1>12, <2>1, <2>2 DEF InCut
<1> QED
  BY <1>6, <1>13

(* The buffer left: all of its packets are sent.                           *)
LEMMA LeavesTheCut ==
    ASSUME IndInv, CanBeCut, pc = "loop", remainingBytes <= 0,
           NEW size \in 1..FullPayload, NEW k \in Nat, InCut(size, k)
    PROVE  sent = CutUpTo(size)[buffer]
<1> DEFINE before == CutUpTo(size)[buffer - 1]
           cut == Cut(buffer, maxUdpPayload, Len(before))
           n == ToInt(DataLen)
<1>1. /\ n \in Nat /\ Len(Buffers) \in Nat /\ buffer \in 1..Len(Buffers)
      /\ FullPayload \in Nat \ {0} /\ maxUdpPayload \in Nat \ {0}
  BY BufferInHand DEF InCut
<1>2. k = PacketCount(n, maxUdpPayload)
  <2> HIDE DEF n
  <2>1. PacketCount(n, maxUdpPayload) \in Nat /\ k \in 0..PacketCount(n, maxUdpPayload)
    BY <1>1, CountIsEnough DEF InCut, n
  <2>2. ASSUME k < PacketCount(n, maxUdpPayload) PROVE FALSE
    <3>1. k * maxUdpPayload \in Nat /\ k * maxUdpPayload < n
      BY <1>1, <2>2, LastIsShort
    <3>2. remainingBytes = n - k * maxUdpPayload
      BY <2>1, <2>2 DEF InCut, n
    <3> QED
      BY <1>1, <3>1, <3>2
  <2> QED
    BY <2>1, <2>2
<1>3. Begin(cut, k) = cut
  <2>1. ToInt(Buffers[buffer]) = n
    BY DEF DataLen
  <2>2. k = PacketCount(ToInt(Buffers[buffer]), maxUdpPayload)
    BY <1>2, <2>1
  <2> QED
    BY <2>2 DEF Begin, Cut
<1>4. sent = before \o cut
  BY <1>3 DEF InCut
<1>5. CutUpTo(size)[buffer] = CutStep(CutUpTo(size), buffer, size)
  BY <1>1, CutUpToIs
<1>6. maxUdpPayload = (IF buffer = 1 THEN size ELSE FullPayload)
  BY DEF InCut
<1> QED
  BY <1>4, <1>5, <1>6 DEF CutStep

(* Every step keeps to the cut.                                            *)
LEMMA CutInd == IndInv /\ SentSoFar /\ SentAsCut /\ [Next]_vars => SentSoFar' /\ SentAsCut'
<1> SUFFICES ASSUME IndInv, SentSoFar, SentAsCut, [Next]_vars PROVE SentSoFar' /\ SentAsCut'
  OBVIOUS
<1>1. CASE NextMessage
  <2>1. /\ pc' = "call" /\ buffer' = 1 /\ sent' = <<>>
        /\ mtu' \in Nat /\ interfaceMtu' \in Nat
    BY <1>1 DEF NextMessage, argVars, IndInv, TypeOK
  <2>2. FullPayload' \in Int
    BY <2>1 DEF FullPayload, PayloadFor, IpAndUdpBytes, HeaderBytes
  <2>3. ASSUME CanBeCut', message' \in DOMAIN Messages
        PROVE  /\ buffer' \in 1..(Len(Buffers') + 1) /\ FullPayload' \in 1..FullPayload'
               /\ \A size : CutUpTo(size)'[buffer' - 1] = <<>>
    <3>1. Len(Buffers') \in Nat
      BY <2>3 DEF Buffers
    <3>2. FullPayload' \in 1..FullPayload'
      BY <2>2, <2>3 DEF CanBeCut
    <3>3. StartsEmpty'
      BY StartsEmptyHolds, PTL
    <3>4. \A size : CutUpTo(size)'[0] = <<>>
      BY <3>1, <3>3 DEF StartsEmpty
    <3> QED
      BY <2>1, <3>1, <3>2, <3>4
  <2> QED
    BY <2>1, <2>3 DEF SentSoFar, SentAsCut
<1>2. ASSUME ~NextMessage
      PROVE  /\ UNCHANGED <<mtu, interfaceMtu, message>> /\ CanBeCut' = CanBeCut
             /\ \A size : CutUpTo(size)' = CutUpTo(size)
             /\ FullPayload' = FullPayload /\ Buffers' = Buffers
  <2>1. UNCHANGED <<mtu, interfaceMtu, message>>
    BY <1>2 DEF Next, Sender, Enter, SendPacket, ReducePayload, SendRefused, LeaveBuffer,
                LeaveMessage, SendError, PathChanges, vars, argVars, callVars
  <2> QED
    BY <2>1 DEF CanBeCut, CutUpTo, Cut, FullPayload, Buffers
<1>3. CASE ~NextMessage /\ ~CanBeCut
  BY <1>2, <1>3 DEF SentSoFar, SentAsCut
<1>4. CASE CanBeCut /\ Enter
  <2>1. PICK size \in 1..FullPayload : InCut(size, 0)'
    BY <1>4, EntersTheCut
  <2>2. pc' = "loop" /\ ~NextMessage /\ sent' \in Seq(Packets)
    BY <1>4 DEF Enter, NextMessage, IndInv, TypeOK
  <2>3. 0 \in 0..Len(sent')
    BY <2>2
  <2> QED
    BY <1>2, <2>1, <2>2, <2>3 DEF SentSoFar, SentAsCut
<1>5. ASSUME CanBeCut, pc = "loop"
      PROVE  \E size \in 1..FullPayload : \E k \in Nat : InCut(size, k) /\ k \in 0..Len(sent)
  <2>1. Len(sent) \in Nat
    BY DEF IndInv, TypeOK
  <2> QED
    BY <1>5, <2>1 DEF SentSoFar
<1>6. CASE CanBeCut /\ SendPacket
  <2>1. pc = "loop" /\ pc' = "loop" /\ ~NextMessage /\ sent' = Append(sent, ThePacket)
    BY <1>6 DEF SendPacket, InLoop, NextMessage
  <2>2. PICK size \in 1..FullPayload : \E k \in Nat : InCut(size, k) /\ k \in 0..Len(sent)
    BY <1>5, <1>6, <2>1
  <2>3. PICK k \in Nat : InCut(size, k) /\ k \in 0..Len(sent)
    BY <2>2
  <2>4. InCut(size, k + 1)'
    BY <1>6, <2>3, SendsNextOfCut
  <2>5. k + 1 \in 0..Len(sent')
    BY <2>1, <2>3 DEF IndInv, TypeOK
  <2> QED
    BY <1>2, <2>1, <2>4, <2>5 DEF SentSoFar, SentAsCut
<1>7. CASE CanBeCut /\ ReducePayload
  <2>1. pc = "loop" /\ pc' = "loop" /\ ~NextMessage /\ sent' = sent
    BY <1>7 DEF ReducePayload, InLoop, NextMessage
  <2>2. PICK size \in 1..FullPayload : \E k \in Nat : InCut(size, k) /\ k \in 0..Len(sent)
    BY <1>5, <1>7, <2>1
  <2>3. PICK k \in Nat : InCut(size, k)
    BY <2>2
  <2>4. PICK smaller : smaller = maxUdpPayload'
    OBVIOUS
  <2>5. smaller \in 1..FullPayload /\ InCut(smaller, 0)'
    BY <1>7, <2>3, <2>4, BeginsAnew
  <2>6. 0 \in 0..Len(sent')
    BY <2>1 DEF IndInv, TypeOK
  <2> QED
    BY <1>2, <2>1, <2>5, <2>6 DEF SentSoFar, SentAsCut
<1>8. CASE SendRefused \/ SendError
  BY <1>8 DEF SendRefused, SendError, SentSoFar, SentAsCut
<1>9. CASE CanBeCut /\ (LeaveBuffer \/ LeaveMessage)
  <2>1. /\ pc = "loop" /\ remainingBytes <= 0 /\ ~NextMessage /\ sent' = sent
        /\ \/ pc' = "call" /\ buffer' = buffer + 1 /\ ~LastBuffer
           \/ pc' = "done" /\ buffer' = buffer /\ LastBuffer
    BY <1>9 DEF LeaveBuffer, LeaveMessage, NextMessage
  <2>2. PICK size \in 1..FullPayload : \E k \in Nat : InCut(size, k) /\ k \in 0..Len(sent)
    BY <1>5, <1>9, <2>1
  <2>3. PICK k \in Nat : InCut(size, k)
    BY <2>2
  <2>4. sent = CutUpTo(size)[buffer]
    BY <1>9, <2>1, <2>3, LeavesTheCut
  <2>5. Len(Buffers) \in Nat /\ buffer \in 1..Len(Buffers)
    BY <1>9, <2>1, BufferInHand
  <2>6. CASE pc' = "call" /\ buffer' = buffer + 1 /\ ~LastBuffer
    <3>1. buffer' - 1 = buffer /\ buffer' \in 1..(Len(Buffers) + 1)
      BY <2>5, <2>6
    <3>2. sent' = CutUpTo(size)'[buffer' - 1]
      BY <1>2, <2>1, <2>4, <3>1
    <3> QED
      BY <1>2, <2>1, <2>6, <3>1, <3>2 DEF SentSoFar, SentAsCut
  <2>7. CASE pc' = "done" /\ buffer' = buffer /\ LastBuffer
    <3>1. sent' = CutUpTo(size)'[Len(Buffers')]
      BY <1>2, <2>1, <2>4, <2>7 DEF LastBuffer
    <3> QED
      BY <1>2, <2>1, <2>7, <3>1 DEF SentSoFar, SentAsCut
  <2> QED
    BY <2>1, <2>6, <2>7
<1>10. CASE CanBeCut /\ (PathChanges \/ UNCHANGED vars)
  <2>1. UNCHANGED <<argVars, pc, callVars, loopVars, sent>>
    BY <1>10 DEF PathChanges, vars
  <2>2. \A size, k : InCut(size, k)' <=> InCut(size, k)
    BY <2>1 DEF argVars, callVars, loopVars, InCut, CutUpTo, Cut, Buffers, FullPayload, DataLen,
                FirstBuffer
  <2>3. UNCHANGED <<pc, message, buffer, sent>> /\ CanBeCut' = CanBeCut /\ ~NextMessage
    BY <1>2, <1>10, <2>1 DEF callVars, PathChanges, vars, NextMessage, CanBeCut, argVars, FullPayload, Buffers
  <2>4. FullPayload' = FullPayload /\ Buffers' = Buffers /\ \A size : CutUpTo(size)' = CutUpTo(size)
    BY <2>1 DEF argVars, callVars, CutUpTo, Cut, FullPayload, Buffers
  <2> QED
    BY <2>2, <2>3, <2>4 DEF SentSoFar, SentAsCut
<1> QED
  BY <1>1, <1>3, <1>4, <1>6, <1>7, <1>8, <1>9, <1>10 DEF Next, Sender

(* For messages of any number of buffers of any lengths an int can hold, a *)
(* path of any limits and any MTU that leaves room for data: a message     *)
(* reported as sent is its buffers cut into packets of one size each,      *)
(* however often the first packet was refused.  No byte is left out, none  *)
(* is sent twice.                                                          *)
THEOREM SentIsCut == Spec => []SentAsCut
<1>1. Init => SentSoFar /\ SentAsCut
  <2> SUFFICES ASSUME Init PROVE SentSoFar /\ SentAsCut
    OBVIOUS
  <2>1. pc = "call" /\ buffer = 1 /\ sent = <<>> /\ mtu \in Nat /\ interfaceMtu \in Nat
    BY DEF Init
  <2>2. FullPayload \in Int
    BY <2>1 DEF FullPayload, PayloadFor, IpAndUdpBytes, HeaderBytes
  <2>3. ASSUME CanBeCut, message \in DOMAIN Messages
        PROVE  /\ buffer \in 1..(Len(Buffers) + 1) /\ FullPayload \in 1..FullPayload
               /\ CutUpTo(FullPayload)[buffer - 1] = <<>>
    <3>1. Len(Buffers) \in Nat
      BY <2>3 DEF Buffers
    <3> QED
      BY <2>1, <2>2, <2>3, <3>1, CutUpToIs DEF CanBeCut
  <2> QED
    BY <2>1, <2>3 DEF SentSoFar, SentAsCut
<1>2. Spec => [](SentSoFar /\ SentAsCut)
  BY <1>1, CutInd, Inductive, PTL DEF Spec
<1> QED
  BY <1>2, PTL
=============================================================================

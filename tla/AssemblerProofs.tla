-------------------------- MODULE AssemblerProofs --------------------------
(***************************************************************************)
(* Proofs about Assembler: its invariants for any ticks, messages, buffer  *)
(* lengths and network faults, and, for one message under way, that a      *)
(* message reported complete is whole and that the routine implements      *)
(* InOrderDelivery.                                                        *)
(***************************************************************************)
EXTENDS Assembler, FiniteSetTheorems, TLAPS

USE AssemblerAssumption

(* Every packet sent has the fields the routine relies on.                 *)
LEMMA SentFields ==
    ASSUME NEW p \in Sent
    PROVE  /\ p.tick \in Ticks
           /\ p.seq \in 0..(NumPackets[p.tick] - 1)
           /\ p.first \in BOOLEAN /\ p.last \in BOOLEAN
           /\ p.len \in 1..Payload
           /\ p.first <=> (p.seq = 0 /\ FirstFlag[p.tick])
           /\ p.last <=> p.seq = NumPackets[p.tick] - 1
           /\ p = Packet(p.tick, p.seq)
<1>1. PICK t \in Ticks : p \in PacketsOf(t)
  BY DEF Sent
<1>2. PICK i \in 0..(NumPackets[t] - 1) : p = Packet(t, i)
  BY <1>1 DEF PacketsOf
<1>3. NumPackets[t] \in Nat \ {0} /\ LastLen[t] \in 1..Payload /\ FirstFlag[t] \in BOOLEAN
  OBVIOUS
<1>4. p.tick = t /\ p.seq = i /\ p.last = (i = NumPackets[t] - 1)
      /\ p.first = (i = 0 /\ FirstFlag[t])
      /\ p.len = IF i = NumPackets[t] - 1 THEN LastLen[t] ELSE Payload
  BY <1>2 DEF Packet
<1>5. p.len \in 1..Payload
  BY <1>3, <1>4
<1>6. p.first <=> (i = 0 /\ FirstFlag[t])
  BY <1>4
<1>7. p.last <=> i = NumPackets[t] - 1
  BY <1>4
<1>8. p.first \in BOOLEAN /\ p.last \in BOOLEAN
  BY <1>3, <1>4
<1>9. p = Packet(p.tick, p.seq)
  BY <1>2, <1>4
<1> HIDE DEF Packet
<1> QED
  BY <1>1, <1>2, <1>4, <1>5, <1>6, <1>7, <1>8, <1>9

(* What the routine knows at each point of its loops: the packet in hand   *)
(* is the next one, and the map holds later packets only, except between   *)
(* placing a packet and taking the stored one after it.                    *)
DueAndStored ==
    /\ pc = "read" => \A q \in stored : q.seq > expectedSequence
    /\ pc = "place" => /\ cur \in Sent
                       /\ cur.seq = expectedSequence
                       /\ \A q \in stored : q.seq > expectedSequence
    /\ pc = "drain" => \A q \in stored : q.seq >= expectedSequence
    /\ pc \in {"place", "drain"} => packetTick \in Ticks
    /\ \A q, r \in stored : q.seq = r.seq => q = r

IndInv == TypeOK /\ InSequence /\ DueAndStored

(* What reading a packet leaves of the invariant, whatever is done with it *)
(* next.                                                                   *)
LEMMA ReadKeeps ==
    ASSUME IndInv, NEW p \in net, ReadPacket(p)
    PROVE  /\ p \in Sent /\ p.seq \in Nat /\ p.len \in 1..Payload /\ p.tick \in Ticks
           /\ pc = "read"
           /\ net' \subseteq Sent /\ dups' \in 0..MaxDups /\ losses' \in 0..MaxLosses
           /\ packetTick' \in Ticks
           /\ firstReadForBuf' \in BOOLEAN /\ maxPacketBytes' \in 0..Payload
           /\ bytesPerPacket' \in 0..(Two32 - 1)
<1>1. p \in Sent
  BY DEF IndInv, TypeOK
<1>2. p.seq \in Nat /\ p.len \in 1..Payload /\ p.tick \in Ticks
  <2>1. NumPackets[p.tick] \in Nat /\ p.seq \in 0..(NumPackets[p.tick] - 1)
    BY <1>1, SentFields
  <2> QED
    BY <2>1, <1>1, SentFields
<1>3. pc = "read" /\ net' \subseteq Sent /\ dups' \in 0..MaxDups /\ losses' \in 0..MaxLosses
  BY DEF ReadPacket, Arrive, IndInv, TypeOK
<1>4. (p.len - HeaderBytes) % Two32 \in 0..(Two32 - 1)
  BY <1>2
<1>5. /\ firstReadForBuf' \in BOOLEAN /\ maxPacketBytes' \in 0..Payload
      /\ bytesPerPacket' \in 0..(Two32 - 1)
  BY <1>4 DEF ReadPacket, IndInv, TypeOK
<1> QED
  BY <1>1, <1>2, <1>3, <1>5 DEF ReadPacket

(* Reading a packet keeps the invariant.                                   *)
LEMMA ReadInd ==
    ASSUME IndInv, Read PROVE IndInv'
<1> USE DEF IndInv
<1>1. PICK p \in net : \/ Truncated(p) \/ ReadInOrder(p) \/ ReadAgain(p)
                       \/ ReadButMapFull(p) \/ ReadButNoMemory(p) \/ ReadAndStore(p)
  BY DEF Read
<1>2. CASE Truncated(p)
  BY <1>2 DEF Truncated, Arrive, ReturnError, TypeOK, InSequence, DueAndStored,
              argVars, bufVars, headVars, mapVars, PCs, ErrorCodes
<1>3. CASE ReadInOrder(p)
  <2>1. ReadPacket(p)
    BY <1>3 DEF ReadInOrder
  <2>2. TypeOK'
    BY <2>1, <1>3, ReadKeeps
       DEF ReadInOrder, ReadPacket, TypeOK, argVars, bufVars, mapVars, outVars, PCs
  <2>3. InSequence' /\ DueAndStored'
    BY <2>1, <1>3, ReadKeeps
       DEF ReadInOrder, ReadPacket, InSequence, DueAndStored, bufVars, mapVars, outVars
  <2> QED
    BY <2>2, <2>3
<1>4. CASE ReadAgain(p) \/ ReadButMapFull(p) \/ ReadButNoMemory(p)
  <2>1. ReadPacket(p) /\ FreeMap /\ UNCHANGED cur
        /\ (ReturnError("OUT_OF_ORDER") \/ ReturnError("OUT_OF_MEM"))
    BY <1>4 DEF ReadAgain, ReadButMapFull, ReadButNoMemory
  <2>2. TypeOK'
    BY <2>1, ReadKeeps
       DEF ReadPacket, FreeMap, ReturnError, TypeOK, argVars, bufVars, PCs, ErrorCodes
  <2>3. InSequence' /\ DueAndStored'
    BY <2>1, ReadKeeps
       DEF ReadPacket, FreeMap, ReturnError, InSequence, DueAndStored, bufVars
  <2> QED
    BY <2>2, <2>3
<1>5. CASE ReadAndStore(p)
  <2>1. ReadPacket(p)
    BY <1>5 DEF ReadAndStore
  <2>2. TypeOK'
    <3>1. stored' \subseteq Sent /\ leaked' \in Nat
      <4>1. stored \subseteq Sent /\ leaked \in Nat /\ p \in Sent
        BY <2>1, ReadKeeps DEF TypeOK
      <4>2. \/ leaked' = leaked + 1 /\ stored' = stored
            \/ leaked' = leaked /\ stored' = stored \union {p}
        BY <1>5 DEF ReadAndStore
      <4> QED
        BY <4>1, <4>2
    <3> QED
      BY <3>1, <2>1, <1>5, ReadKeeps
         DEF ReadAndStore, ReadPacket, TypeOK, argVars, bufVars, outVars, PCs
  <2>3. InSequence'
    BY <2>1, <1>5 DEF ReadAndStore, ReadPacket, InSequence, bufVars
  <2>4. DueAndStored'
    <3>1. /\ p.seq > expectedSequence
          /\ IF \E q \in stored : q.seq = p.seq
               THEN stored' = stored
               ELSE stored' = stored \union {p}
          /\ pc' = pc /\ expectedSequence' = expectedSequence
      BY <2>1, <1>5 DEF ReadAndStore, ReadPacket, bufVars
    <3> QED
      BY <3>1, <2>1, ReadKeeps DEF DueAndStored
  <2> QED
    BY <2>2, <2>3, <2>4
<1> QED
  BY <1>1, <1>2, <1>3, <1>4, <1>5

(* Placing the packet in hand extends the buffer by the next packet.       *)
LEMMA AdvanceKeeps ==
    ASSUME IndInv, pc = "place", Advance
    PROVE  /\ net' \subseteq Sent /\ dups' \in 0..MaxDups /\ losses' \in 0..MaxLosses
           /\ veryFirstRead' \in BOOLEAN /\ bufLen' \in Nat
           /\ remainingLen' \in Int /\ totalBytesRead' \in Nat /\ expectedSequence' \in Nat
           /\ firstReadForBuf' \in BOOLEAN /\ maxPacketBytes' \in 0..Payload
           /\ bytesPerPacket' \in 0..(Two32 - 1)
           /\ cur' \in Sent \union {NoPacket} /\ packetTick' \in Ticks
           /\ placed' \in Seq(Sent)
           /\ InSequence'
<1> USE DEF IndInv
<1>1. cur \in Sent /\ cur.seq = expectedSequence /\ packetTick \in Ticks
  BY DEF DueAndStored
<1>2. cur.len \in 1..Payload
  BY <1>1, SentFields
<1>3. placed' = Append(placed, cur) /\ expectedSequence' = expectedSequence + 1
  BY DEF Advance
<1>4. placed' \in Seq(Sent)
  BY <1>1, <1>3 DEF TypeOK
<1>5. InSequence'
  BY <1>1, <1>3 DEF InSequence, TypeOK
<1>6. remainingLen' \in Int /\ totalBytesRead' \in Nat /\ expectedSequence' \in Nat
      /\ firstReadForBuf' \in BOOLEAN /\ maxPacketBytes' \in 0..Payload
  <2>1. remainingLen \in Int /\ totalBytesRead \in Nat /\ expectedSequence \in Nat
        /\ maxPacketBytes \in 0..Payload
    BY DEF TypeOK
  <2>2. cur.len \in Nat
    BY <1>2
  <2>3. /\ remainingLen' = remainingLen - cur.len
        /\ totalBytesRead' = totalBytesRead + cur.len
        /\ maxPacketBytes' = IF firstReadForBuf THEN cur.len ELSE maxPacketBytes
        /\ firstReadForBuf' = FALSE
    BY DEF Advance
  <2>4. remainingLen' \in Int /\ totalBytesRead' \in Nat /\ expectedSequence' \in Nat
    BY <1>3, <2>1, <2>2, <2>3
  <2>5. firstReadForBuf' \in BOOLEAN
    BY <2>3
  <2>6. maxPacketBytes' = cur.len \/ maxPacketBytes' = maxPacketBytes
    BY <2>3
  <2>7. maxPacketBytes' \in 0..Payload
    BY <1>2, <2>1, <2>6
  <2> QED
    BY <2>4, <2>5, <2>7
<1> QED
  BY <1>1, <1>4, <1>5, <1>6 DEF Advance, TypeOK, netVars, argVars

(* So does placing the packet in hand.                                     *)
LEMMA PlaceInd ==
    ASSUME IndInv, Place PROVE IndInv'
<1>1. pc = "place" /\ Advance
  BY DEF Place, PlaceBadFirstBit, PlaceThenDrain, PlaceThenReturn, PlaceThenRead
<1>2. stored \subseteq Sent /\ last \in BOOLEAN /\ freed \in BOOLEAN /\ leaked \in Nat
      /\ tick \in Ticks \union {NoTick} /\ ret \in ErrorCodes \union {"OK"}
      /\ expectedSequence \in Nat
  BY DEF IndInv, TypeOK
<1>3. cur \in Sent /\ packetTick \in Ticks /\ \A q \in stored : q.seq > expectedSequence
  BY <1>1 DEF IndInv, DueAndStored
<1>4. \A q \in stored : q.seq \in Nat
  BY <1>2, SentFields
<1>5. \A q, r \in stored : q.seq = r.seq => q = r
  BY DEF IndInv, DueAndStored
<1>6. expectedSequence' = expectedSequence + 1
  BY <1>1 DEF Advance
<1>7. CASE PlaceBadFirstBit
  <2>1. TypeOK'
    BY <1>1, <1>2, <1>7, AdvanceKeeps
       DEF PlaceBadFirstBit, FreeMap, ReturnError, TypeOK, PCs, ErrorCodes
  <2>2. DueAndStored'
    BY <1>5, <1>7 DEF PlaceBadFirstBit, FreeMap, ReturnError, DueAndStored
  <2> QED
    BY <2>1, <2>2, <1>1, AdvanceKeeps DEF IndInv
<1>8. CASE PlaceThenDrain
  <2>1. TypeOK'
    BY <1>1, <1>2, <1>8, AdvanceKeeps
       DEF PlaceThenDrain, TypeOK, PCs, mapVars, outVars
  <2>2. DueAndStored'
    <3>1. stored' = stored /\ pc' = "drain"
      BY <1>8 DEF PlaceThenDrain, mapVars
    <3>2. packetTick' \in Ticks
      BY <1>1, AdvanceKeeps
    <3>3. \A q \in stored : q.seq >= expectedSequence + 1
      BY <1>2, <1>3, <1>4
    <3> QED
      BY <1>5, <1>6, <3>1, <3>2, <3>3 DEF DueAndStored
  <2> QED
    BY <2>1, <2>2, <1>1, AdvanceKeeps DEF IndInv
<1>9. CASE PlaceThenReturn
  <2>1. cur.last \in BOOLEAN
    BY <1>3, SentFields
  <2>2. TypeOK'
    BY <1>1, <1>2, <1>3, <1>9, <2>1, AdvanceKeeps
       DEF PlaceThenReturn, TypeOK, PCs, mapVars
  <2>3. DueAndStored'
    BY <1>5, <1>9 DEF PlaceThenReturn, DueAndStored, mapVars
  <2> QED
    BY <2>2, <2>3, <1>1, AdvanceKeeps DEF IndInv
<1>10. CASE PlaceThenRead
  <2>1. TypeOK'
    BY <1>1, <1>2, <1>10, AdvanceKeeps
       DEF PlaceThenRead, TypeOK, PCs, mapVars, outVars
  <2>2. \A q \in stored : q.seq > expectedSequence + 1
    <3>1. SUFFICES ASSUME NEW q \in stored, q.seq = expectedSequence + 1 PROVE FALSE
      BY <1>2, <1>3, <1>4
    <3>2. \A r \in stored : q.seq <= r.seq
      BY <1>2, <1>3, <1>4, <3>1
    <3> QED
      BY <1>10, <3>1, <3>2 DEF PlaceThenRead, NextIsStored
  <2>3. DueAndStored'
    BY <2>2, <1>5, <1>6, <1>10 DEF PlaceThenRead, DueAndStored, mapVars
  <2> QED
    BY <2>1, <2>3, <1>1, AdvanceKeeps DEF IndInv
<1> QED
  BY <1>7, <1>8, <1>9, <1>10 DEF Place

(* So does taking the packet whose turn it is from the map.                *)
LEMMA DrainInd ==
    ASSUME IndInv, NEW q \in stored, Drain(q) PROVE IndInv'
<1>1. /\ stored \subseteq Sent /\ expectedSequence \in Nat /\ packetTick \in Ticks
      /\ \A r \in stored : r.seq >= expectedSequence
      /\ \A r, s \in stored : r.seq = s.seq => r = s
  BY DEF IndInv, TypeOK, DueAndStored, Drain
<1>2. \A r \in stored : r.seq \in Nat
  BY <1>1, SentFields
<1>3. /\ q.seq = expectedSequence /\ cur' = q /\ stored' = stored \ {q}
      /\ pc' \in {"place", "overrun"} /\ expectedSequence' = expectedSequence
      /\ packetTick' = packetTick
  BY DEF Drain, bufVars
<1>4. \A r \in stored' : r.seq > expectedSequence
  BY <1>1, <1>2, <1>3
<1>5. TypeOK'
  BY <1>1, <1>3
     DEF IndInv, TypeOK, Drain, PCs, netVars, bufVars, headVars, outVars, argVars
<1>6. InSequence'
  BY DEF IndInv, InSequence, Drain, bufVars
<1>7. DueAndStored'
  BY <1>1, <1>3, <1>4 DEF DueAndStored
<1> QED
  BY <1>5, <1>6, <1>7 DEF IndInv

(* Every step keeps the invariant.                                         *)
LEMMA NextInd == IndInv /\ [Next]_vars => IndInv'
<1> SUFFICES ASSUME IndInv, [Next]_vars PROVE IndInv'
  OBVIOUS
<1>1. CASE Read
  BY <1>1, ReadInd
<1>2. CASE Place
  BY <1>2, PlaceInd
<1>3. CASE \E q \in stored : Drain(q)
  BY <1>3, DrainInd
<1>4. CASE RecvFails
  BY <1>4 DEF RecvFails, ReturnError, IndInv, TypeOK, InSequence, DueAndStored, PCs,
              ErrorCodes, netVars, bufVars, headVars, mapVars, argVars
<1>5. CASE \E p \in net : Lose(p)
  BY <1>5 DEF Lose, IndInv, TypeOK, InSequence, DueAndStored,
              bufVars, headVars, mapVars, outVars, argVars
<1>6. CASE UNCHANGED vars
  BY <1>6 DEF vars, IndInv, TypeOK, InSequence, DueAndStored,
              netVars, bufVars, headVars, mapVars, outVars, argVars
<1> QED
  BY <1>1, <1>2, <1>3, <1>4, <1>5, <1>6 DEF Next, Routine

(* The inductive invariant holds throughout.                               *)
THEOREM Inductive == Spec => []IndInv
<1>1. Init => IndInv
  <2> SUFFICES ASSUME Init PROVE IndInv
    OBVIOUS
  <2>1. TypeOK
    <3>1. net \subseteq Sent /\ dups \in 0..MaxDups /\ losses \in 0..MaxLosses
      BY DEF Init, InitCall, InitNet
    <3>2. bufLen \in Nat /\ remainingLen \in Int
      BY DEF Init, InitCall
    <3>3. maxPacketBytes \in 0..Payload /\ bytesPerPacket \in 0..(Two32 - 1)
      BY DEF Init, InitCall
    <3>4. stored \subseteq Sent /\ placed \in Seq(Sent)
      BY DEF Init, InitCall
    <3> QED
      BY <3>1, <3>2, <3>3, <3>4 DEF Init, InitCall, TypeOK, PCs
  <2>2. InSequence /\ DueAndStored
    BY DEF Init, InitCall, InitNet, InSequence, DueAndStored
  <2> QED
    BY <2>1, <2>2 DEF IndInv
<1> QED
  BY <1>1, NextInd, PTL DEF Spec

(* The variables keep their types, for any messages and any faults.        *)
THEOREM TypeCorrect == Spec => []TypeOK
<1>1. IndInv => TypeOK
  BY DEF IndInv
<1> QED
  BY <1>1, Inductive, PTL

(* The buffer always holds packets 0, 1, 2, ... without a gap.             *)
THEOREM BufferInSequence == Spec => []InSequence
<1>1. IndInv => InSequence
  BY DEF IndInv
<1> QED
  BY <1>1, Inductive, PTL
-----------------------------------------------------------------------------
(* The map of packets kept out of order.                                   *)

MapBounded == IsFiniteSet(stored) /\ Cardinality(stored) <= MaxStored

(* A packet is stored only while the map is not full.                      *)
LEMMA MapBoundedInd == MapBounded /\ [Next]_vars => MapBounded'
<1> SUFFICES ASSUME MapBounded, [Next]_vars PROVE MapBounded'
  OBVIOUS
<1>1. Cardinality(stored) \in Nat
  BY FS_CardinalityType DEF MapBounded
<1>2. CASE \E p \in net : ReadAndStore(p)
  <2>1. PICK p \in net : ReadAndStore(p)
    BY <1>2
  <2>2. CASE stored' = stored
    BY <2>2 DEF MapBounded
  <2>3. CASE stored' = stored \union {p}
    <3>1. Cardinality(stored) < MaxStored
      BY <2>1, <1>1 DEF ReadAndStore, MapFull
    <3>2. IsFiniteSet(stored') /\ Cardinality(stored') \in {Cardinality(stored), Cardinality(stored) + 1}
      BY <2>3, FS_AddElement DEF MapBounded
    <3> QED
      BY <3>1, <3>2, <1>1 DEF MapBounded
  <2> QED
    BY <2>1, <2>2, <2>3 DEF ReadAndStore
<1>3. CASE \E q \in stored : Drain(q)
  <2>1. PICK q \in stored : stored' = stored \ {q}
    BY <1>3 DEF Drain
  <2>2. IsFiniteSet(stored') /\ Cardinality(stored') = Cardinality(stored) - 1
    BY <2>1, FS_RemoveElement DEF MapBounded
  <2> QED
    BY <2>2, <1>1 DEF MapBounded
<1>4. CASE stored' = stored
  BY <1>4 DEF MapBounded
<1>5. Next => \/ \E p \in net : ReadAndStore(p)
              \/ \E q \in stored : Drain(q)
              \/ stored' = stored
  <2>1. Place \/ RecvFails => stored' = stored
    BY DEF Place, PlaceBadFirstBit, PlaceThenDrain, PlaceThenReturn, PlaceThenRead,
           RecvFails, FreeMap, mapVars
  <2>2. (\E p \in net : Lose(p)) => stored' = stored
    BY DEF Lose, mapVars
  <2>3. Read => (\E p \in net : ReadAndStore(p)) \/ stored' = stored
    BY DEF Read, Truncated, ReadInOrder, ReadAgain, ReadButMapFull, ReadButNoMemory,
           FreeMap, mapVars
  <2> QED
    BY <2>1, <2>2, <2>3 DEF Next, Routine
<1> QED
  BY <1>2, <1>3, <1>4, <1>5 DEF vars, mapVars

(* Whatever ticks are under way, no stored packet is due while the routine *)
(* waits for the network, and the map stays within its limit.              *)
THEOREM StoredPacketsAhead == Spec => []StoredAhead
<1>1. Init => MapBounded
  BY FS_EmptySet DEF Init, InitCall, MapBounded
<1>2. Spec => []MapBounded
  BY <1>1, MapBoundedInd, PTL DEF Spec
<1>3. IndInv /\ MapBounded => StoredAhead
  BY DEF IndInv, DueAndStored, MapBounded, StoredAhead
<1> QED
  BY <1>2, <1>3, Inductive, PTL

-----------------------------------------------------------------------------
(* One message under way: what is reported complete is the whole message.  *)

LastIsPlaced ==
    (Returned /\ last) => /\ Len(placed) > 0
                          /\ placed[Len(placed)].last
                          /\ tick \in Ticks

(* *last is set only on a return with the packet that ends the message.    *)
LEMMA LastIsPlacedInd == IndInv /\ LastIsPlaced /\ [Next]_vars => LastIsPlaced'
<1> SUFFICES ASSUME IndInv, LastIsPlaced, [Next]_vars PROVE LastIsPlaced'
  OBVIOUS
<1>1. CASE pc = "place" /\ PlaceThenReturn
  <2>1. packetTick \in Ticks /\ placed \in Seq(Sent) /\ cur \in Sent
    BY <1>1 DEF PlaceThenReturn, IndInv, DueAndStored, TypeOK
  <2>2. placed' = Append(placed, cur) /\ last' = cur.last /\ tick' = packetTick
    BY <1>1 DEF PlaceThenReturn, Advance
  <2>3. Len(placed') > 0 /\ placed'[Len(placed')] = cur
    BY <2>1, <2>2
  <2> QED
    BY <2>1, <2>2, <2>3 DEF LastIsPlaced
<1>2. CASE UNCHANGED vars
  BY <1>2 DEF vars, outVars, bufVars, LastIsPlaced, Returned
<1>3. Next => (pc = "place" /\ PlaceThenReturn) \/ ~Returned'
  <2>1. Read => ~Returned'
    BY DEF Read, Truncated, ReadInOrder, ReadAgain, ReadButMapFull, ReadButNoMemory,
           ReadAndStore, ReadPacket, Arrive, ReturnError, Returned
  <2>2. Place => (pc = "place" /\ PlaceThenReturn) \/ ~Returned'
    BY DEF Place, PlaceBadFirstBit, PlaceThenDrain, PlaceThenRead, ReturnError, Returned
  <2>3. (\E q \in stored : Drain(q)) \/ RecvFails \/ (\E p \in net : Lose(p)) => ~Returned'
    BY DEF Drain, RecvFails, Lose, ReturnError, Returned
  <2> QED
    BY <2>1, <2>2, <2>3 DEF Next, Routine
<1> QED
  BY <1>1, <1>2, <1>3 DEF LastIsPlaced

(* With one message under way, *last is set only when the buffer holds all *)
(* of it, whatever was reordered, duplicated or lost.                      *)
THEOREM CompleteIsWhole ==
    ASSUME NEW t, Ticks = {t}
    PROVE  Spec => []WholeMessage
<1>1. Init => LastIsPlaced
  BY DEF Init, InitCall, LastIsPlaced, Returned
<1>2. Spec => []LastIsPlaced
  BY <1>1, LastIsPlacedInd, Inductive, PTL DEF Spec
<1>3. IndInv /\ LastIsPlaced => WholeMessage
  <2> SUFFICES ASSUME IndInv, LastIsPlaced, Returned, last
               PROVE  placed = MessageOf(tick)
    BY DEF WholeMessage
  <2>1. tick = t /\ placed \in Seq(Sent) /\ Len(placed) > 0 /\ NumPackets[t] \in Nat \ {0}
    BY DEF LastIsPlaced, IndInv, TypeOK
  <2>2. \A i \in 1..Len(placed) : placed[i] = Packet(t, i - 1)
    <3> TAKE i \in 1..Len(placed)
    <3>1. placed[i] \in Sent /\ placed[i].seq = i - 1
      BY <2>1 DEF IndInv, InSequence
    <3> QED
      BY <3>1, SentFields
  <2>3. Len(placed) = NumPackets[t]
    <3> DEFINE n == Len(placed)
    <3>1. n \in Nat /\ n \in 1..n
      BY <2>1
    <3>2. placed[n] \in Sent /\ placed[n].tick = t /\ placed[n].seq = n - 1
      BY <2>1, <3>1, SentFields DEF IndInv, InSequence
    <3>3. placed[n].last
      BY DEF LastIsPlaced
    <3> HIDE DEF n
    <3>4. n = NumPackets[t]
      BY <2>1, <3>1, <3>2, <3>3, SentFields
    <3> QED
      BY <3>4 DEF n
  <2>4. placed = [i \in 1..NumPackets[t] |-> Packet(t, i - 1)]
    BY <2>1, <2>2, <2>3
  <2> QED
    BY <2>1, <2>4 DEF MessageOf
<1> QED
  BY <1>2, <1>3, Inductive, PTL
-----------------------------------------------------------------------------
(* One message under way, sent with firstBuffer = true: the routine        *)
(* implements InOrderDelivery.                                             *)

(* firstReadForBuf is set exactly while packet 0 is in hand.               *)
FirstInHand ==
    /\ veryFirstRead = TRUE
    /\ pc \in {"read", "drain"} => firstReadForBuf = FALSE
    /\ pc = "place" => firstReadForBuf = (expectedSequence = 0)
    /\ pc = "drain" => expectedSequence > 0

(* No later packet is taken for the first one.                             *)
LEMMA FirstInHandInd == IndInv /\ FirstInHand /\ [Next]_vars => FirstInHand'
<1> SUFFICES ASSUME IndInv, FirstInHand, [Next]_vars PROVE FirstInHand'
  OBVIOUS
<1>1. expectedSequence \in Nat
  BY DEF IndInv, TypeOK
<1>2. CASE Read
  <2>1. PICK p \in net : \/ Truncated(p) \/ ReadInOrder(p) \/ ReadAgain(p)
                         \/ ReadButMapFull(p) \/ ReadButNoMemory(p) \/ ReadAndStore(p)
    BY <1>2 DEF Read
  <2>2. CASE Truncated(p)
    BY <2>2 DEF Truncated, ReturnError, argVars, FirstInHand
  <2>3. CASE ReadAgain(p) \/ ReadButMapFull(p) \/ ReadButNoMemory(p)
    BY <2>3 DEF ReadAgain, ReadButMapFull, ReadButNoMemory, ReadPacket, ReturnError,
                argVars, FirstInHand
  <2>4. CASE ReadInOrder(p)
    <3>1. p.seq = expectedSequence /\ pc = "read" /\ pc' = "place"
          /\ expectedSequence' = expectedSequence /\ veryFirstRead' = veryFirstRead
      BY <2>4 DEF ReadInOrder, ReadPacket, Arrive, bufVars, argVars
    <3>2. CASE p.seq = 0
      BY <2>4, <3>1, <3>2 DEF ReadInOrder, ReadPacket, FirstInHand
    <3>3. CASE p.seq # 0
      BY <2>4, <3>1, <3>3 DEF ReadInOrder, ReadPacket, FirstInHand
    <3> QED
      BY <3>2, <3>3
  <2>5. CASE ReadAndStore(p)
    <3>1. p.seq # 0 /\ pc = "read"
      BY <2>5, <1>1, ReadKeeps DEF ReadAndStore, ReadPacket, Arrive
    <3> QED
      BY <2>5, <3>1 DEF ReadAndStore, ReadPacket, bufVars, argVars, FirstInHand
  <2> QED
    BY <2>1, <2>2, <2>3, <2>4, <2>5
<1>3. CASE Place
  <2>1. Advance /\ pc' \in {"done", "drain", "read"}
    BY <1>3 DEF Place, PlaceBadFirstBit, PlaceThenDrain, PlaceThenReturn, PlaceThenRead,
                ReturnError
  <2>2. firstReadForBuf' = FALSE /\ expectedSequence' = expectedSequence + 1
        /\ veryFirstRead' = veryFirstRead
    BY <2>1 DEF Advance, argVars
  <2> QED
    BY <1>1, <2>1, <2>2 DEF FirstInHand
<1>4. CASE \E q \in stored : Drain(q)
  <2>1. pc = "drain" /\ pc' \in {"place", "overrun"} /\ expectedSequence' = expectedSequence
        /\ firstReadForBuf' = firstReadForBuf /\ veryFirstRead' = veryFirstRead
    BY <1>4 DEF Drain, bufVars, headVars, argVars
  <2>2. firstReadForBuf' = FALSE /\ (expectedSequence' = 0) = FALSE
    BY <1>1, <2>1 DEF FirstInHand
  <2> QED
    BY <2>1, <2>2 DEF FirstInHand
<1>5. CASE RecvFails \/ \E p \in net : Lose(p)
  BY <1>5 DEF RecvFails, Lose, ReturnError, FirstInHand, bufVars, headVars, argVars
<1>6. CASE UNCHANGED vars
  BY <1>6 DEF vars, FirstInHand, bufVars, headVars, argVars
<1> QED
  BY <1>2, <1>3, <1>4, <1>5, <1>6 DEF Next, Routine

(* The packet in hand is the next packet of the message, and its bits are  *)
(* those the inner loop expects.                                           *)
LEMMA InHandIsNext ==
    ASSUME NEW t, Ticks = {t}, FirstFlag[t] = TRUE, IndInv, FirstInHand, pc = "place"
    PROVE  /\ Len(placed) < NumPackets[t]
           /\ cur = Packet(t, Len(placed))
           /\ cur.last <=> Len(placed) + 1 = NumPackets[t]
           /\ ~BadFirstBit
           /\ cur.last => ~NextIsStored
<1>1. cur \in Sent /\ cur.seq = expectedSequence /\ expectedSequence = Len(placed)
      /\ expectedSequence \in Nat /\ stored \subseteq Sent /\ NumPackets[t] \in Nat
  BY DEF IndInv, DueAndStored, InSequence, TypeOK
<1>2. cur.tick = t /\ cur.seq \in 0..(NumPackets[t] - 1)
      /\ (cur.last <=> cur.seq = NumPackets[t] - 1)
      /\ (cur.first <=> cur.seq = 0) /\ cur = Packet(t, cur.seq)
  BY <1>1, SentFields
<1>3. ~BadFirstBit
  BY <1>1, <1>2 DEF BadFirstBit, FirstInHand
<1>4. ASSUME cur.last, NextIsStored PROVE FALSE
  <2>1. PICK q \in stored : q.seq = expectedSequence + 1
    BY <1>4 DEF NextIsStored
  <2>2. q.seq \in 0..(NumPackets[t] - 1)
    BY <1>1, <2>1, SentFields
  <2> QED
    BY <1>1, <1>2, <1>4, <2>1, <2>2
<1> QED
  BY <1>1, <1>2, <1>3, <1>4

(* Every step of the system is a step of InOrderDelivery or changes        *)
(* neither the buffer nor the outcome.                                     *)
LEMMA StepSimulation ==
    ASSUME NEW t, Ticks = {t}, FirstFlag[t] = TRUE, IndInv, FirstInHand, [Next]_vars
    PROVE  Delivery!Next \/ UNCHANGED <<placed, Outcome>>
<1> DEFINE M == MessageOf(TheTick)
<1>1. TheTick = t /\ NumPackets[t] \in Nat \ {0}
  BY DEF TheTick
<1>2. Len(M) = NumPackets[t] /\ \A i \in 1..NumPackets[t] : M[i] = Packet(t, i - 1)
  BY <1>1 DEF MessageOf
<1>3. Len(placed) \in Nat
  BY DEF IndInv, TypeOK
<1>4. CASE Place
  <2>1. pc = "place" /\ Advance
    BY <1>4 DEF Place, PlaceBadFirstBit, PlaceThenDrain, PlaceThenReturn, PlaceThenRead
  <2>2. placed' = Append(placed, M[Len(placed) + 1]) /\ Len(placed) < Len(M)
        /\ (cur.last <=> Len(placed) + 1 = Len(M))
    <3>1. Len(placed) < NumPackets[t] /\ cur = Packet(t, Len(placed))
          /\ (cur.last <=> Len(placed) + 1 = NumPackets[t])
      BY <2>1, InHandIsNext
    <3>2. M[Len(placed) + 1] = cur
      BY <1>1, <1>2, <1>3, <3>1
    <3>3. placed' = Append(placed, cur)
      BY <2>1 DEF Advance
    <3> HIDE DEF M
    <3> QED
      BY <1>2, <3>1, <3>2, <3>3
  <2>3. Outcome = "running"
    BY <2>1 DEF Outcome
  <2>4. CASE cur.last
    <3>1. PlaceThenReturn
      BY <1>4, <2>1, <2>4, InHandIsNext
         DEF Place, PlaceBadFirstBit, PlaceThenDrain, PlaceThenRead
    <3>2. Outcome' = "complete"
      BY <3>1, <2>4 DEF PlaceThenReturn, Outcome
    <3> QED
      BY <2>2, <2>3, <2>4, <3>2 DEF Delivery!Next, Delivery!Deliver
  <2>5. CASE ~cur.last
    <3>1. PlaceThenReturn \/ PlaceThenDrain \/ PlaceThenRead
      BY <1>4, <2>1, InHandIsNext DEF Place, PlaceBadFirstBit
    <3>2. Outcome' \in {"running", "partial"}
      BY <3>1, <2>5 DEF PlaceThenReturn, PlaceThenDrain, PlaceThenRead, Outcome
    <3> QED
      BY <2>2, <2>3, <2>5, <3>2 DEF Delivery!Next, Delivery!Deliver
  <2> QED
    BY <2>4, <2>5
<1>5. CASE Read \/ RecvFails
  <2>1. placed' = placed /\ pc = "read"
    BY <1>5 DEF Read, Truncated, ReadInOrder, ReadAgain, ReadButMapFull, ReadButNoMemory,
                ReadAndStore, ReadPacket, Arrive, RecvFails, bufVars
  <2>2. pc' \in {"read", "place"} \/ (pc' = "done" /\ ret' # "OK")
    BY <1>5 DEF Read, Truncated, ReadInOrder, ReadAgain, ReadButMapFull, ReadButNoMemory,
                ReadAndStore, ReadPacket, Arrive, RecvFails, ReturnError
  <2>3. Outcome = "running" /\ Outcome' \in {"running", "failed"}
    BY <2>1, <2>2 DEF Outcome
  <2> QED
    BY <2>1, <2>3 DEF Delivery!Next, Delivery!Fail
<1>6. CASE \E q \in stored : Drain(q)
  <2>1. placed' = placed /\ pc = "drain" /\ pc' \in {"place", "overrun"}
    BY <1>6 DEF Drain, bufVars
  <2>2. Outcome = "running" /\ Outcome' \in {"running", "failed"}
    BY <2>1 DEF Outcome
  <2> QED
    BY <2>1, <2>2 DEF Delivery!Next, Delivery!Fail
<1>7. CASE (\E p \in net : Lose(p)) \/ UNCHANGED vars
  BY <1>7 DEF Lose, vars, bufVars, outVars, Outcome
<1> QED
  BY <1>4, <1>5, <1>6, <1>7 DEF Next, Routine

(* Over a network that reorders, duplicates and loses packets, the routine *)
(* implements in-order delivery of the message: the caller's buffer grows  *)
(* by the message's packets one by one, in order, and "complete" is        *)
(* reported with the last one.                                             *)
THEOREM ImplementsInOrderDelivery ==
    ASSUME NEW t, Ticks = {t}, FirstFlag[t] = TRUE
    PROVE  Spec => DeliversInOrder
<1>1. Init => Delivery!Init
  BY DEF Init, InitCall, Delivery!Init, Outcome
<1>2. Init => FirstInHand
  BY DEF Init, InitCall, FirstInHand
<1>3. Spec => []FirstInHand
  BY <1>2, FirstInHandInd, Inductive, PTL DEF Spec
<1>4. IndInv /\ FirstInHand /\ [Next]_vars => [Delivery!Next]_<<placed, Outcome>>
  BY StepSimulation
<1> QED
  BY <1>1, <1>3, <1>4, Inductive, PTL DEF Spec, DeliversInOrder, Delivery!Spec
-----------------------------------------------------------------------------
(* One message under way: none of its packets is dropped, and the routine  *)
(* fails only with a cause.                                                *)

(* Where the packets are while the routine runs, whatever the network does.*)
Accounted ==
    pc \in {"read", "place", "drain"} =>
        /\ losses = 0 => Sent = net \union stored \union InHand \union InBuffer
        /\ InBuffer \intersect (stored \union InHand) = {}
        /\ dups = 0 => net \intersect (stored \union InHand \union InBuffer) = {}

(* With one message a packet is in the buffer exactly if its turn is past. *)
LEMMA BufferHoldsPast ==
    ASSUME NEW t, Ticks = {t}, IndInv
    PROVE  /\ InBuffer \subseteq Sent
           /\ \A p \in Sent : p \in InBuffer <=> p.seq < expectedSequence
           /\ \A p, q \in Sent : p.seq = q.seq => p = q
<1>1. placed \in Seq(Sent) /\ Len(placed) = expectedSequence /\ expectedSequence \in Nat
      /\ \A i \in 1..Len(placed) : placed[i].seq = i - 1
  BY DEF IndInv, TypeOK, InSequence
<1>2. \A p, q \in Sent : p.seq = q.seq => p = q
  BY SentFields
<1>3. \A p \in Sent : p.seq \in Nat
  BY SentFields
<1>4. InBuffer \subseteq Sent
  BY <1>1 DEF InBuffer
<1>5. ASSUME NEW p \in Sent PROVE p \in InBuffer <=> p.seq < expectedSequence
  <2>1. ASSUME p.seq < expectedSequence PROVE p \in InBuffer
    <3>1. PICK i \in 1..Len(placed) : i = p.seq + 1
      BY <1>1, <1>3, <2>1
    <3>2. placed[i] \in Sent /\ placed[i].seq = p.seq
      BY <1>1, <1>3, <3>1
    <3>3. placed[i] = p
      BY <1>2, <3>2
    <3> QED
      BY <3>3 DEF InBuffer
  <2>2. ASSUME p \in InBuffer PROVE p.seq < expectedSequence
    <3>1. PICK i \in 1..Len(placed) : p = placed[i]
      BY <2>2 DEF InBuffer
    <3> QED
      BY <1>1, <3>1
  <2> QED
    BY <2>1, <2>2
<1> QED
  BY <1>2, <1>4, <1>5

(* A step moves a packet, and puts it nowhere else.                        *)
LEMMA AccountedInd ==
    ASSUME NEW t, Ticks = {t}, IndInv, Accounted, [Next]_vars
    PROVE  Accounted'
<1>1. dups \in Nat /\ losses \in Nat /\ expectedSequence \in Nat /\ stored \subseteq Sent
      /\ net \subseteq Sent /\ \A p \in Sent : p.seq \in Nat
  BY SentFields DEF IndInv, TypeOK
<1>2. CASE Read
  <2>1. PICK p \in net : \/ Truncated(p) \/ ReadInOrder(p) \/ ReadAgain(p)
                         \/ ReadButMapFull(p) \/ ReadButNoMemory(p) \/ ReadAndStore(p)
    BY <1>2 DEF Read
  <2>2. CASE Truncated(p) \/ ReadAgain(p) \/ ReadButMapFull(p) \/ ReadButNoMemory(p)
    BY <2>2 DEF Truncated, ReadAgain, ReadButMapFull, ReadButNoMemory, ReturnError, Accounted
  <2>3. ASSUME ReadInOrder(p) \/ ReadAndStore(p)
        PROVE  /\ pc = "read" /\ losses' = losses /\ InBuffer' = InBuffer /\ InHand = {}
               /\ p \notin InBuffer /\ p \in Sent
               /\ net \ {p} \subseteq net' /\ net' \subseteq net
               /\ dups' = 0 => dups = 0 /\ net' = net \ {p}
    <3>1. ReadPacket(p) /\ Arrive(p) /\ p.seq >= expectedSequence
      BY <1>1, <2>3 DEF ReadInOrder, ReadAndStore, ReadPacket
    <3>2. p \notin InBuffer /\ p \in Sent
      <4>1. p \in Sent /\ ~(p.seq < expectedSequence)
        BY <1>1, <3>1
      <4> QED
        BY <4>1, BufferHoldsPast, Zenon
    <3>3. pc = "read" /\ losses' = losses /\ InBuffer' = InBuffer /\ InHand = {}
      BY <3>1 DEF ReadPacket, Arrive, bufVars, InBuffer, InHand
    <3> QED
      BY <1>1, <3>1, <3>2, <3>3 DEF Arrive
  <2>4. CASE ReadInOrder(p)
    <3>1. stored' = stored /\ InHand' = {p}
      BY <2>4 DEF ReadInOrder, mapVars, InHand
    <3>2. p \notin stored
      BY <1>1, <2>3, <2>4, BufferHoldsPast DEF ReadInOrder, IndInv, DueAndStored
    <3> QED
      BY <2>3, <2>4, <3>1, <3>2 DEF Accounted
  <2>5. CASE ReadAndStore(p)
    <3>1. stored' = stored \union {p}
      <4>1. CASE \E q \in stored : q.seq = p.seq
        <5>1. p \in stored
          BY <1>1, <2>3, <2>5, <4>1, BufferHoldsPast
        <5> QED
          BY <2>5, <4>1, <5>1 DEF ReadAndStore
      <4>2. CASE ~\E q \in stored : q.seq = p.seq
        BY <2>5, <4>2 DEF ReadAndStore
      <4> QED
        BY <4>1, <4>2
    <3>2. pc' = "read" /\ InHand' = {}
      BY <2>3, <2>5 DEF ReadAndStore, InHand
    <3> QED
      BY <2>3, <2>5, <3>1, <3>2 DEF Accounted
  <2> QED
    BY <2>1, <2>2, <2>4, <2>5
<1>3. CASE Place
  <2>1. pc = "place" /\ Advance /\ pc' # "place"
    BY <1>3 DEF Place, PlaceBadFirstBit, PlaceThenDrain, PlaceThenReturn, PlaceThenRead,
                ReturnError
  <2>2. InHand = {cur} /\ InHand' = {} /\ net' = net /\ dups' = dups /\ losses' = losses
    BY <2>1 DEF InHand, Advance, netVars
  <2>3. InBuffer' = InBuffer \union {cur}
    <3>1. placed' = Append(placed, cur) /\ placed \in Seq(Sent) /\ cur \in Sent
      BY <2>1 DEF Advance, IndInv, TypeOK, DueAndStored
    <3>2. Len(placed') = Len(placed) + 1 /\ Len(placed) \in Nat
          /\ \A i \in 1..Len(placed') :
                 placed'[i] = IF i = Len(placed) + 1 THEN cur ELSE placed[i]
      BY <3>1
    <3> QED
      BY <3>2 DEF InBuffer
  <2>4. cur \notin stored
    BY <1>1, <2>1 DEF IndInv, DueAndStored
  <2>5. stored' = stored
    BY <1>3 DEF Place, PlaceBadFirstBit, PlaceThenDrain, PlaceThenReturn, PlaceThenRead,
                FreeMap, mapVars
  <2> QED
    BY <2>1, <2>2, <2>3, <2>4, <2>5 DEF Accounted
<1>4. CASE \E q \in stored : Drain(q)
  <2>1. PICK q \in stored : Drain(q)
    BY <1>4
  <2>2. /\ pc = "drain" /\ pc' \in {"place", "overrun"} /\ stored' = stored \ {q}
        /\ InHand = {}
        /\ pc' = "place" => InHand' = {q}
        /\ net' = net /\ dups' = dups /\ losses' = losses /\ InBuffer' = InBuffer
    BY <2>1 DEF Drain, InHand, netVars, bufVars, InBuffer
  <2> QED
    BY <2>2 DEF Accounted
<1>5. CASE RecvFails
  BY <1>5 DEF RecvFails, ReturnError, Accounted
<1>6. CASE \E p \in net : Lose(p)
  <2>1. losses' > 0 /\ pc = "read" /\ pc' = pc /\ stored' = stored /\ InBuffer' = InBuffer
        /\ InHand' = InHand /\ dups' = dups /\ net' \subseteq net
    BY <1>1, <1>6 DEF Lose, mapVars, bufVars, InBuffer, InHand
  <2> QED
    BY <2>1 DEF Accounted
<1>7. CASE UNCHANGED vars
  BY <1>7 DEF vars, netVars, mapVars, bufVars, InBuffer, InHand, Accounted
<1> QED
  BY <1>2, <1>3, <1>4, <1>5, <1>6, <1>7 DEF Next, Routine

(* With one message, of any size, and any reordering and duplication, no   *)
(* packet that the network does not lose is lost by the routine, and none  *)
(* is in two places.                                                       *)
THEOREM NoPacketDropped ==
    ASSUME NEW t, Ticks = {t}
    PROVE  Spec => []NothingDropped
<1>1. Init => Accounted
  <2> SUFFICES ASSUME Init PROVE Accounted
    OBVIOUS
  <2>1. net = Sent /\ stored = {} /\ pc = "read" /\ placed = <<>>
    BY DEF Init, InitNet, InitCall
  <2>2. InBuffer = {} /\ InHand = {}
    BY <2>1 DEF InBuffer, InHand
  <2> QED
    BY <2>1, <2>2 DEF Accounted
<1>2. IndInv /\ Accounted /\ [Next]_vars => Accounted'
  BY AccountedInd
<1>3. Spec => []Accounted
  BY <1>1, <1>2, Inductive, PTL DEF Spec
<1>4. Accounted => NothingDropped
  BY DEF Accounted, NothingDropped
<1> QED
  BY <1>3, <1>4, PTL

(* The room left is at least what full packets would have left.            *)
RoomBound == remainingLen + expectedSequence * Payload >= bufLen

(* With one message of any size in a buffer of any length: a sequence error*)
(* means a duplicate or a full map, and truncation, an early return and an *)
(* overrun mean that the buffer is too short for the message.              *)
THEOREM FailuresCaused ==
    ASSUME NEW t, Ticks = {t}
    PROVE  Spec => []FailuresHaveCauses
<1> DEFINE R == RoomBound /\ FailuresHaveCauses
<1>1. Init => R
  <2> SUFFICES ASSUME Init PROVE R
    OBVIOUS
  <2>1. pc = "read" /\ remainingLen = bufLen /\ expectedSequence = 0 /\ bufLen \in Nat
    BY DEF Init, InitCall
  <2> QED
    BY <2>1 DEF RoomBound, FailuresHaveCauses, Returned
<1>2. Init => Accounted /\ FirstInHand
  <2> SUFFICES ASSUME Init PROVE Accounted /\ FirstInHand
    OBVIOUS
  <2>1. net = Sent /\ stored = {} /\ pc = "read" /\ placed = <<>>
        /\ veryFirstRead = TRUE /\ firstReadForBuf = FALSE
    BY DEF Init, InitNet, InitCall
  <2>2. InBuffer = {} /\ InHand = {}
    BY <2>1 DEF InBuffer, InHand
  <2> QED
    BY <2>1, <2>2 DEF Accounted, FirstInHand
<1>3. IndInv /\ Accounted /\ FirstInHand /\ R /\ [Next]_vars => R'
  <2> SUFFICES ASSUME IndInv, Accounted, FirstInHand, R, [Next]_vars
               PROVE  RoomBound' /\ FailuresHaveCauses'
    OBVIOUS
  <2>1. /\ expectedSequence \in Nat /\ remainingLen \in Int /\ bufLen \in Nat /\ dups \in Nat
        /\ stored \subseteq Sent /\ net \subseteq Sent
        /\ RoomBound /\ FailuresHaveCauses
    BY DEF IndInv, TypeOK
  <2>2. \A p \in Sent : p.seq \in 0..(NumPackets[t] - 1) /\ p.len \in 1..Payload
                        /\ (p.last <=> p.seq = NumPackets[t] - 1)
    BY SentFields
  <2>3. NumPackets[t] \in Nat \ {0} /\ Payload \in Nat \ {0}
    OBVIOUS
  <2>4. ASSUME RoomForAll, NEW e \in Nat, e <= NumPackets[t] - 1
        PROVE  bufLen - e * Payload >= Payload
    <3>1. NumPackets[t] * Payload <= bufLen
      BY <2>4 DEF RoomForAll
    <3>2. \A a, b \in Nat : a <= b => a * Payload <= b * Payload
      BY <2>3
    <3>3. (e + 1) * Payload <= NumPackets[t] * Payload
      BY <2>3, <2>4, <3>2
    <3>4. (e + 1) * Payload = e * Payload + Payload
      BY <2>3, <2>4
    <3> QED
      BY <2>1, <2>3, <3>1, <3>3, <3>4
  <2>5. ASSUME RoomForAll, expectedSequence <= NumPackets[t] - 1 PROVE remainingLen >= Payload
    BY <2>1, <2>3, <2>4, <2>5 DEF RoomBound
  <2>6. CASE Read
    <3>1. PICK p \in net : \/ Truncated(p) \/ ReadInOrder(p) \/ ReadAgain(p)
                           \/ ReadButMapFull(p) \/ ReadButNoMemory(p) \/ ReadAndStore(p)
      BY <2>6 DEF Read
    <3>2. pc = "read" /\ UNCHANGED <<expectedSequence, remainingLen, bufLen>>
          /\ (dups' = 0 => dups = 0) /\ dups' \in Nat /\ p \in Sent
      BY <2>1, <3>1
         DEF Truncated, ReadInOrder, ReadAgain, ReadButMapFull, ReadButNoMemory, ReadAndStore,
             ReadPacket, Arrive, bufVars, argVars
    <3>3. RoomBound' /\ (RoomForAll' <=> RoomForAll)
      BY <2>1, <3>2 DEF RoomBound, RoomForAll
    <3>4. ASSUME dups' = 0 PROVE p.seq >= expectedSequence
      <4>1. p \notin InBuffer
        BY <3>2, <3>4 DEF Accounted
      <4>2. ~(p.seq < expectedSequence)
        BY <3>2, <4>1, BufferHoldsPast, Zenon
      <4> QED
        BY <2>1, <2>2, <3>2, <4>2
    <3>5. CASE Truncated(p)
      <4>1. pc' = "done" /\ ret' = "TRUNCATED_MSG" /\ p.len > remainingLen
        BY <3>5 DEF Truncated, ReturnError
      <4>2. dups' = 0 => ~RoomForAll
        BY <2>1, <2>2, <2>3, <2>5, <3>2, <3>4, <4>1
      <4>3. dups' > 0 \/ ~RoomForAll'
        BY <3>2, <3>3, <4>2
      <4> QED
        BY <3>3, <4>1, <4>3 DEF FailuresHaveCauses, Returned
    <3>6. CASE ReadAgain(p)
      <4>1. pc' = "done" /\ ret' = "OUT_OF_ORDER" /\ p.seq < expectedSequence
        BY <3>6 DEF ReadAgain, ReturnError
      <4>2. dups' > 0
        BY <2>1, <2>2, <3>2, <3>4, <4>1
      <4> QED
        BY <3>3, <4>1, <4>2 DEF FailuresHaveCauses, Returned
    <3>7. CASE ReadButMapFull(p)
      <4>1. pc' = "done" /\ ret' = "OUT_OF_ORDER" /\ MapFull'
        BY <3>7 DEF ReadButMapFull, ReturnError, FreeMap, MapFull
      <4> QED
        BY <3>3, <4>1 DEF FailuresHaveCauses, Returned
    <3>8. CASE ReadButNoMemory(p)
      BY <3>3, <3>8 DEF ReadButNoMemory, ReturnError, FailuresHaveCauses, Returned
    <3>9. CASE ReadInOrder(p) \/ ReadAndStore(p)
      BY <3>2, <3>3, <3>9 DEF ReadInOrder, ReadAndStore, FailuresHaveCauses, Returned
    <3> QED
      BY <3>1, <3>5, <3>6, <3>7, <3>8, <3>9
  <2>7. CASE Place
    <3>1. pc = "place" /\ Advance
      BY <2>7 DEF Place, PlaceBadFirstBit, PlaceThenDrain, PlaceThenReturn, PlaceThenRead
    <3>2. /\ cur \in Sent /\ cur.seq = expectedSequence /\ cur.len \in 1..Payload
          /\ expectedSequence <= NumPackets[t] - 1
          /\ (cur.last <=> expectedSequence = NumPackets[t] - 1)
      BY <2>2, <2>3, <3>1 DEF IndInv, DueAndStored
    <3>3. /\ remainingLen' = remainingLen - cur.len /\ expectedSequence' = expectedSequence + 1
          /\ bufLen' = bufLen
      BY <3>1 DEF Advance, argVars
    <3>4. (expectedSequence + 1) * Payload = expectedSequence * Payload + Payload
      BY <2>1, <2>3
    <3>5. RoomBound'
      BY <2>1, <2>3, <3>2, <3>3, <3>4 DEF RoomBound
    <3>6. RoomForAll' <=> RoomForAll
      BY <3>3 DEF RoomForAll
    <3>7. CASE PlaceBadFirstBit
      <4>1. FirstFlag[t] # TRUE
        BY <3>1, <3>7, InHandIsNext DEF PlaceBadFirstBit
      <4>2. \E u \in Ticks : ~FirstFlag[u]
        BY <4>1
      <4>3. pc' = "done" /\ ret' = "BAD_FIRST_LAST_BIT"
        BY <3>7 DEF PlaceBadFirstBit, ReturnError
      <4> QED
        BY <3>5, <4>2, <4>3 DEF FailuresHaveCauses, Returned
    <3>8. CASE PlaceThenReturn
      <4>1. pc' = "done" /\ ret' = "OK" /\ last' = cur.last
        BY <3>8 DEF PlaceThenReturn
      <4>2. ASSUME ~cur.last PROVE ~RoomForAll
        <5>1. remainingLen' < maxPacketBytes' /\ maxPacketBytes' \in 0..Payload
              /\ remainingLen' \in Int /\ expectedSequence' \in Nat
          BY <3>1, <3>8, <4>2, AdvanceKeeps DEF PlaceThenReturn, TooLittleRoom
        <5>2. expectedSequence + 1 <= NumPackets[t] - 1
          BY <2>1, <2>3, <3>2, <4>2
        <5>3. RoomForAll => bufLen - (expectedSequence + 1) * Payload >= Payload
          BY <2>1, <2>4, <5>2
        <5>4. remainingLen' + (expectedSequence + 1) * Payload >= bufLen
          BY <3>3, <3>5 DEF RoomBound
        <5>5. PICK k \in Int : k = (expectedSequence + 1) * Payload
          BY <2>1, <2>3
        <5>6. (RoomForAll => bufLen - k >= Payload) /\ remainingLen' + k >= bufLen
          BY <5>3, <5>4, <5>5
        <5>7. remainingLen' < Payload
          BY <2>3, <5>1
        <5>8. ASSUME RoomForAll PROVE FALSE
          <6>1. bufLen - k >= Payload /\ remainingLen' + k >= bufLen
            BY <5>6, <5>8
          <6>2. PICK r \in Int : r = remainingLen'
            BY <5>1
          <6>3. r + k >= bufLen /\ r < Payload
            BY <5>7, <6>1, <6>2
          <6> QED
            BY <2>1, <2>3, <6>1, <6>3
        <5> QED
          BY <5>8
      <4> QED
        BY <3>5, <3>6, <4>1, <4>2 DEF FailuresHaveCauses, Returned
    <3>9. CASE PlaceThenDrain \/ PlaceThenRead
      BY <3>5, <3>9 DEF PlaceThenDrain, PlaceThenRead, FailuresHaveCauses, Returned
    <3> QED
      BY <2>7, <3>7, <3>8, <3>9 DEF Place
  <2>8. CASE \E q \in stored : Drain(q)
    <3>1. PICK q \in stored : Drain(q)
      BY <2>8
    <3>2. /\ q.seq = expectedSequence /\ UNCHANGED <<expectedSequence, remainingLen, bufLen>>
          /\ pc' = IF q.len <= remainingLen THEN "place" ELSE "overrun"
      BY <3>1 DEF Drain, bufVars, argVars
    <3>3. RoomBound' /\ (RoomForAll' <=> RoomForAll)
      BY <2>1, <3>2 DEF RoomBound, RoomForAll
    <3>4. expectedSequence <= NumPackets[t] - 1 /\ q.len \in 1..Payload
      BY <2>1, <2>2, <2>3, <3>2
    <3>5. RoomForAll => pc' = "place"
      BY <2>1, <2>3, <2>5, <3>2, <3>4
    <3>6. pc' # "done"
      BY <3>2
    <3> QED
      BY <3>3, <3>5, <3>6 DEF FailuresHaveCauses, Returned
  <2>9. CASE RecvFails
    BY <2>1, <2>9 DEF RecvFails, ReturnError, bufVars, argVars, RoomBound, FailuresHaveCauses,
                      Returned
  <2>10. CASE \E p \in net : Lose(p)
    BY <2>1, <2>10 DEF Lose, bufVars, argVars, RoomBound, FailuresHaveCauses, Returned
  <2>11. CASE UNCHANGED vars
    BY <2>1, <2>11 DEF vars, netVars, bufVars, argVars, outVars, mapVars, RoomBound, RoomForAll,
                       FailuresHaveCauses, Returned, MapFull
  <2> QED
    BY <2>6, <2>7, <2>8, <2>9, <2>10, <2>11 DEF Next, Routine
<1>4. IndInv /\ Accounted /\ [Next]_vars => Accounted'
  BY AccountedInd
<1>5. Spec => [](Accounted /\ FirstInHand)
  BY <1>2, <1>4, FirstInHandInd, Inductive, PTL DEF Spec
<1>6. Spec => []R
  BY <1>1, <1>3, <1>5, Inductive, PTL DEF Spec
<1>7. R => FailuresHaveCauses
  OBVIOUS
<1> QED
  BY <1>6, <1>7, PTL
=============================================================================

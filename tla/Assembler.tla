----------------------------- MODULE Assembler -----------------------------
(***************************************************************************)
(* getPacketizedBuffer of ejfat_assemble.hpp: the loop that reads UDP      *)
(* packets from a socket and lays their data end to end in a buffer,       *)
(* keeping packets that arrive early in a map until their turn comes.      *)
(*                                                                         *)
(* The environment is the network between sendPacketizedBuffer and         *)
(* recvmsg: packets are delayed, reordered, lost and duplicated, and       *)
(* packets of several ticks may be on their way at once.                   *)
(*                                                                         *)
(* A packet is a record of the reassembly header's fields and the number   *)
(* of its data bytes; its data is the packet itself, so that "placed", the *)
(* sequence of packets copied into the buffer, is the buffer's contents.   *)
(***************************************************************************)
EXTENDS Integers, Sequences, FiniteSets

CONSTANTS
    Ticks,          \* the messages being sent, one per tick
    NumPackets,     \* how many packets each tick's message was cut into
    Payload,        \* data bytes of every packet but a message's last one
    LastLen,        \* data bytes of the last packet of each tick's message
    FirstFlag,      \* the firstBuffer argument each message was sent with
    BufLens,        \* the lengths of buffers the caller may pass
    MaxStored,      \* limit on the packets kept out of order (100 in the code)
    HeaderBytes,    \* HEADER_BYTES (16 in the code)
    Two32,          \* 2^32: uint32_t arithmetic wraps here
    MaxSkew,        \* bound: packets of its own tick that a packet may overtake
    MaxDups,        \* bound: duplicated deliveries
    MaxLosses,      \* bound: lost packets
    RecvMayFail,    \* whether recvmsg may return an error
    MallocMayFail   \* whether malloc may return a null pointer

ASSUME AssemblerAssumption ==
    /\ NumPackets \in [Ticks -> Nat \ {0}]
    /\ Payload \in Nat \ {0}
    /\ LastLen \in [Ticks -> 1..Payload]
    /\ FirstFlag \in [Ticks -> BOOLEAN]
    /\ BufLens \subseteq Nat
    /\ MaxStored \in Nat
    /\ HeaderBytes \in Nat
    /\ Two32 \in Nat \ {0}
    /\ MaxSkew \in Nat
    /\ MaxDups \in Nat
    /\ MaxLosses \in Nat
    /\ RecvMayFail \in BOOLEAN
    /\ MallocMayFail \in BOOLEAN

(* Packet number i of the message of tick t, as the sender cuts it.        *)
Packet(t, i) ==
    [tick  |-> t,
     seq   |-> i,
     first |-> i = 0 /\ FirstFlag[t],
     last  |-> i = NumPackets[t] - 1,
     len   |-> IF i = NumPackets[t] - 1 THEN LastLen[t] ELSE Payload]

PacketsOf(t) == {Packet(t, i) : i \in 0..(NumPackets[t] - 1)}

Sent == UNION {PacketsOf(t) : t \in Ticks}

(* The message of tick t as a sequence of packets.                         *)
MessageOf(t) == [i \in 1..NumPackets[t] |-> Packet(t, i - 1)]

(* "no packet yet", and "no tick yet"                                      *)
NoPacket == [tick |-> "none", seq |-> -1, first |-> FALSE, last |-> FALSE, len |-> 0]
NoTick   == "none"

ErrorCodes == {"RECV_MSG", "TRUNCATED_MSG", "OUT_OF_ORDER",
               "BAD_FIRST_LAST_BIT", "OUT_OF_MEM"}

VARIABLES
    net,                \* packets sent and neither received nor lost
    dups, losses,       \* how often the network has duplicated, lost a packet
    pc,                 \* where the routine is: see PCs
    veryFirstRead,      \* the arguments of these names
    bufLen,
    remainingLen,       \* room left in the buffer
    totalBytesRead,     \* bytes placed by this call
    expectedSequence,   \* *expSequence and the local copy of it
    firstReadForBuf,    \* set by the packet with sequence number 0
    maxPacketBytes,     \* size of that packet, 0 if this call did not read it
    bytesPerPacket,     \* *bytesPerPacket
    stored,             \* outOfOrderPackets: at most one packet per sequence
    freed,              \* freeMap has freed the buffers that stored points to
    leaked,             \* buffers allocated for a packet that was not stored
    cur,                \* sequence, nBytes, packetFirst, packetLast: the packet in hand
    packetTick,         \* tick of the packet read last
    placed,             \* the packets copied into the buffer, in order
    ret,                \* "OK" or one of ErrorCodes, once returned
    last, tick          \* *last and *tick, written on a successful return

argVars  == <<veryFirstRead, bufLen>>
netVars  == <<net, dups, losses>>
bufVars  == <<remainingLen, totalBytesRead, expectedSequence, placed>>
headVars == <<firstReadForBuf, maxPacketBytes, bytesPerPacket>>
mapVars  == <<stored, freed, leaked>>
outVars  == <<ret, last, tick>>
vars     == <<netVars, bufVars, headVars, mapVars, outVars,
              pc, argVars, cur, packetTick>>

(* "read": in recvmsg; "place": a packet whose turn it is, is in hand;     *)
(* "drain": the first stored packet is next; "done": returned; "overrun":  *)
(* a stored packet was copied past the end of the buffer, after which the  *)
(* program's behaviour is undefined and not followed further.              *)
PCs == {"read", "place", "drain", "done", "overrun"}

InitNet ==
    /\ net = Sent
    /\ dups = 0
    /\ losses = 0

(* The first call of the routine.                                          *)
InitCall ==
    /\ pc = "read"
    /\ veryFirstRead = TRUE
    /\ bufLen \in BufLens
    /\ remainingLen = bufLen
    /\ totalBytesRead = 0
    /\ expectedSequence = 0
    /\ firstReadForBuf = FALSE
    /\ maxPacketBytes = 0
    /\ bytesPerPacket = 0
    /\ stored = {}
    /\ freed = FALSE
    /\ leaked = 0
    /\ cur = NoPacket
    /\ packetTick = NoTick
    /\ placed = <<>>
    /\ ret = "OK"
    /\ last = FALSE
    /\ tick = NoTick

Init == InitNet /\ InitCall

-----------------------------------------------------------------------------
(* The network.                                                            *)

Lose(p) ==
    /\ pc = "read"
    /\ losses < MaxLosses
    /\ losses' = losses + 1
    /\ net' = net \ {p}
    /\ UNCHANGED <<dups, bufVars, headVars, mapVars, outVars, pc,
                   argVars, cur, packetTick>>

Overtaken(p) == {q \in net : q.tick = p.tick /\ q.seq < p.seq}

(* recvmsg takes p off the network; a duplicate of it may still be there.  *)
Arrive(p) ==
    /\ pc = "read"
    /\ Cardinality(Overtaken(p)) <= MaxSkew
    /\ \/ net' = net \ {p} /\ dups' = dups
       \/ dups < MaxDups /\ dups' = dups + 1 /\ net' = net
    /\ losses' = losses

-----------------------------------------------------------------------------
(* Reading a packet.                                                       *)

ReturnError(code) ==
    /\ pc' = "done"
    /\ ret' = code
    /\ UNCHANGED <<last, tick>>

(* recvmsg fails.                                                          *)
RecvFails ==
    /\ pc = "read"
    /\ RecvMayFail
    /\ ReturnError("RECV_MSG")
    /\ UNCHANGED <<netVars, bufVars, headVars, mapVars, argVars, cur, packetTick>>

(* The datagram does not fit in the room left: its end is discarded.       *)
Truncated(p) ==
    /\ Arrive(p)
    /\ p.len > remainingLen
    /\ ReturnError("TRUNCATED_MSG")
    /\ UNCHANGED <<bufVars, headVars, mapVars, argVars, cur, packetTick>>

(* readPacket succeeds: the header's fields are in the local variables.    *)
ReadPacket(p) ==
    /\ Arrive(p)
    /\ p.len <= remainingLen
    /\ packetTick' = p.tick
    /\ IF p.seq = 0
         THEN /\ firstReadForBuf' = TRUE
              /\ bytesPerPacket' = (p.len - HeaderBytes) % Two32
         ELSE UNCHANGED <<firstReadForBuf, bytesPerPacket>>
    /\ UNCHANGED <<maxPacketBytes, bufVars, argVars>>

(* Variant, not the code: any packet not seen yet is taken as the next.    *)
ReadInOrderAny(p) ==
    /\ ReadPacket(p)
    /\ p.seq >= expectedSequence
    /\ cur' = p
    /\ pc' = "place"
    /\ UNCHANGED <<mapVars, outVars>>

ReadInOrder(p) ==
    /\ ReadPacket(p)
    /\ p.seq = expectedSequence
    /\ cur' = p
    /\ pc' = "place"
    /\ UNCHANGED <<mapVars, outVars>>

FreeMap ==
    /\ freed' = TRUE
    /\ UNCHANGED <<stored, leaked>>

(* Variant, not the code: off by one, the next packet counts as a repeat.  *)
ReadAgainOffByOne(p) ==
    /\ ReadPacket(p)
    /\ p.seq <= expectedSequence
    /\ FreeMap
    /\ ReturnError("OUT_OF_ORDER")
    /\ UNCHANGED cur

(* A packet whose turn is past: "Already got seq once before".             *)
ReadAgain(p) ==
    /\ ReadPacket(p)
    /\ p.seq < expectedSequence
    /\ FreeMap
    /\ ReturnError("OUT_OF_ORDER")
    /\ UNCHANGED cur

MapFull == Cardinality(stored) >= MaxStored

ReadButMapFull(p) ==
    /\ ReadPacket(p)
    /\ p.seq > expectedSequence
    /\ MapFull
    /\ FreeMap
    /\ ReturnError("OUT_OF_ORDER")
    /\ UNCHANGED cur

ReadButNoMemory(p) ==
    /\ ReadPacket(p)
    /\ p.seq > expectedSequence
    /\ ~MapFull
    /\ MallocMayFail
    /\ FreeMap
    /\ ReturnError("OUT_OF_MEM")
    /\ UNCHANGED cur

(* Variant, not the code: the packet in hand is stored instead of the one  *)
(* just read.                                                              *)
ReadAndStoreStale(p) ==
    /\ ReadPacket(p)
    /\ p.seq > expectedSequence
    /\ ~MapFull
    /\ stored' = stored \union {cur}
    /\ UNCHANGED <<leaked, freed, outVars, pc, cur>>

(* emplace does nothing when a packet with that sequence number is stored: *)
(* the packet is dropped and the buffer it was copied to is never freed.   *)
ReadAndStore(p) ==
    /\ ReadPacket(p)
    /\ p.seq > expectedSequence
    /\ ~MapFull
    /\ IF \E q \in stored : q.seq = p.seq
         THEN leaked' = leaked + 1 /\ UNCHANGED stored
         ELSE stored' = stored \union {p} /\ UNCHANGED leaked
    /\ UNCHANGED <<freed, outVars, pc, cur>>

-----------------------------------------------------------------------------
(* Placing the packet in hand: one turn of the inner loop.                 *)

(* The local variables after putDataAt moved on.                           *)
Advance ==
    /\ placed' = Append(placed, cur)
    /\ remainingLen' = remainingLen - cur.len
    /\ totalBytesRead' = totalBytesRead + cur.len
    /\ expectedSequence' = expectedSequence + 1
    /\ maxPacketBytes' = IF firstReadForBuf THEN cur.len ELSE maxPacketBytes
    /\ firstReadForBuf' = FALSE
    /\ UNCHANGED <<netVars, bytesPerPacket, argVars, packetTick, cur>>

(* Variant, not the code: the first bit is not expected on any packet.     *)
BadFirstBitAlways == cur.first

BadFirstBit == IF firstReadForBuf THEN veryFirstRead /\ ~cur.first ELSE cur.first

PlaceBadFirstBit ==
    /\ BadFirstBit
    /\ Advance
    /\ FreeMap
    /\ ReturnError("BAD_FIRST_LAST_BIT")

(* Variant, not the code: compared before expectedSequence is advanced.    *)
NextIsStoredStale ==
    \E q \in stored : /\ q.seq = expectedSequence
                      /\ \A r \in stored : q.seq <= r.seq

(* outOfOrderPackets.begin() is the packet after the one in hand.          *)
NextIsStored ==
    \E q \in stored : /\ q.seq = expectedSequence + 1
                      /\ \A r \in stored : q.seq <= r.seq

PlaceThenDrain ==
    /\ ~BadFirstBit
    /\ NextIsStored
    /\ Advance
    /\ pc' = "drain"
    /\ UNCHANGED <<mapVars, outVars>>

TooLittleRoom == stored = {} /\ ~cur.last /\ remainingLen' < maxPacketBytes'

(* Variant, not the code: a full buffer is reported as a finished message. *)
PlaceThenReturnLast ==
    /\ ~BadFirstBit
    /\ ~NextIsStored
    /\ Advance
    /\ cur.last \/ TooLittleRoom
    /\ pc' = "done"
    /\ ret' = "OK"
    /\ last' = TRUE
    /\ tick' = packetTick
    /\ UNCHANGED mapVars

PlaceThenReturn ==
    /\ ~BadFirstBit
    /\ ~NextIsStored
    /\ Advance
    /\ cur.last \/ TooLittleRoom
    /\ pc' = "done"
    /\ ret' = "OK"
    /\ last' = cur.last
    /\ tick' = packetTick
    /\ UNCHANGED mapVars

PlaceThenRead ==
    /\ ~BadFirstBit
    /\ ~NextIsStored
    /\ Advance
    /\ ~(cur.last \/ TooLittleRoom)
    /\ pc' = "read"
    /\ UNCHANGED <<mapVars, outVars>>

(* Variant, not the code: the map is emptied, not only the packet taken.   *)
DrainAndClear(q) ==
    /\ pc = "drain"
    /\ q.seq = expectedSequence
    /\ cur' = q
    /\ stored' = {}
    /\ pc' = IF q.len <= remainingLen THEN "place" ELSE "overrun"
    /\ UNCHANGED <<netVars, bufVars, headVars, freed, leaked, outVars,
                   argVars, packetTick>>

(* The first stored packet becomes the packet in hand.  It is copied to    *)
(* the buffer with no look at the room left there.                         *)
Drain(q) ==
    /\ pc = "drain"
    /\ q.seq = expectedSequence
    /\ cur' = q
    /\ stored' = stored \ {q}
    /\ pc' = IF q.len <= remainingLen THEN "place" ELSE "overrun"
    /\ UNCHANGED <<netVars, bufVars, headVars, freed, leaked, outVars,
                   argVars, packetTick>>

-----------------------------------------------------------------------------
(* The routine's own steps, and the whole system: one call of the routine. *)

Read == \E p \in net : \/ Truncated(p)
                       \/ ReadInOrder(p)
                       \/ ReadAgain(p)
                       \/ ReadButMapFull(p)
                       \/ ReadButNoMemory(p)
                       \/ ReadAndStore(p)

Place ==
    /\ pc = "place"
    /\ PlaceBadFirstBit \/ PlaceThenDrain \/ PlaceThenReturn \/ PlaceThenRead

Routine == Read \/ Place \/ \E q \in stored : Drain(q)

Next == Routine \/ RecvFails \/ \E p \in net : Lose(p)

Spec == Init /\ [][Next]_vars

(* recvmsg returns a packet that is in the socket's queue, and the thread  *)
(* keeps running between two calls of it.                                  *)
FairSpec == Spec /\ WF_vars(Routine)
-----------------------------------------------------------------------------
(* Type invariant of getPacketizedBuffer's variables and of the network.   *)
TypeOK ==
    /\ net \subseteq Sent
    /\ dups \in 0..MaxDups
    /\ losses \in 0..MaxLosses
    /\ pc \in PCs
    /\ veryFirstRead \in BOOLEAN
    /\ bufLen \in Nat
    /\ remainingLen \in Int
    /\ totalBytesRead \in Nat
    /\ expectedSequence \in Nat
    /\ firstReadForBuf \in BOOLEAN
    /\ maxPacketBytes \in 0..Payload
    /\ bytesPerPacket \in 0..(Two32 - 1)
    /\ stored \subseteq Sent
    /\ freed \in BOOLEAN
    /\ leaked \in Nat
    /\ cur \in Sent \union {NoPacket}
    /\ packetTick \in Ticks \union {NoTick}
    /\ placed \in Seq(Sent)
    /\ ret \in ErrorCodes \union {"OK"}
    /\ last \in BOOLEAN
    /\ tick \in Ticks \union {NoTick}

(* The buffer holds packets 0, 1, 2, ... with no gap and none twice, and   *)
(* expectedSequence counts them, whichever of the two paths (read in order *)
(* or taken from the map) each one came by.                                *)
InSequence ==
    /\ Len(placed) = expectedSequence
    /\ \A i \in 1..Len(placed) : placed[i].seq = i - 1

(* While the routine waits in recvmsg no packet in the map has had its     *)
(* turn or is due now: the inner loop drained all it could, so that it is  *)
(* never the map that keeps the routine waiting.  No two stored packets    *)
(* have one sequence number, and the limit on them is kept.                *)
StoredAhead ==
    /\ pc = "read" => \A q \in stored : q.seq > expectedSequence
    /\ \A q, r \in stored : q.seq = r.seq => q = r
    /\ Cardinality(stored) <= MaxStored

(* With one message under way and none of its packets lost by the network, *)
(* the routine drops none itself: each one is still on its way, waits in   *)
(* the map, is in hand, or is in the buffer, and in one place only unless  *)
(* the network duplicated it.                                              *)
InHand == IF pc = "place" THEN {cur} ELSE {}

InBuffer == {placed[i] : i \in 1..Len(placed)}

NothingDropped ==
    (losses = 0 /\ pc \in {"read", "place", "drain"}) =>
        /\ Sent = net \union stored \union InHand \union InBuffer
        /\ InBuffer \intersect (stored \union InHand) = {}
        /\ dups = 0 => net \intersect (stored \union InHand \union InBuffer) = {}

(* When the routine returns successfully with *last set, the buffer holds  *)
(* the message of the tick it reports: all of it, in order and nothing     *)
(* else.  (This is what *tick is for: disentangling ticks that overlap.)   *)
Returned == pc = "done" /\ ret = "OK"

WholeMessage == (Returned /\ last) => placed = MessageOf(tick)

(* The routine fails only with a cause.  A sequence error means that the   *)
(* network duplicated a packet or that the map is full; a truncated packet,*)
(* a buffer handed back early or a copy past its end mean that the buffer  *)
(* is shorter than the message's packets at their full size.               *)
RoomForAll == \A t \in Ticks : NumPackets[t] * Payload <= bufLen

FailuresHaveCauses ==
    /\ (pc = "done" /\ ret = "OUT_OF_ORDER") => (dups > 0 \/ MapFull)
    /\ (pc = "done" /\ ret = "TRUNCATED_MSG") => (dups > 0 \/ ~RoomForAll)
    /\ (pc = "done" /\ ret = "BAD_FIRST_LAST_BIT") => \E t \in Ticks : ~FirstFlag[t]
    /\ (Returned /\ ~last) => ~RoomForAll
    /\ pc = "overrun" => ~RoomForAll

(* No packet's data is copied past the end of the buffer: the routine      *)
(* "will return when the buffer has less space left than it read from the  *)
(* first packet" before it goes on, also when the packets come reordered.  *)
StopsBeforeFull == pc # "overrun"

(* Unless the network loses a packet of the message, the call returns: no  *)
(* order of arrival, and no duplicate, leaves the routine waiting in       *)
(* recvmsg for a packet that it already has.                               *)
EventuallyReturns == <>(pc \in {"done", "overrun"}) \/ <>(losses > 0)

(* With one message under way, the routine delivers it in order: it is     *)
(* InOrderDelivery with the caller's buffer for buffer and the returned    *)
(* values for outcome.                                                     *)
Outcome ==
    IF pc = "overrun" THEN "failed"
    ELSE IF pc # "done" THEN "running"
    ELSE IF ret # "OK" THEN "failed"
    ELSE IF last THEN "complete" ELSE "partial"

TheTick == CHOOSE t \in Ticks : TRUE

Delivery == INSTANCE InOrderDelivery
                WITH Message <- MessageOf(TheTick), buffer <- placed, outcome <- Outcome

DeliversInOrder == Delivery!Spec
=============================================================================

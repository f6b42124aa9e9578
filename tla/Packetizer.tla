----------------------------- MODULE Packetizer -----------------------------
(***************************************************************************)
(* The sender of ejfat_packetize.hpp and ejfat_packetize_engine.cpp:       *)
(* sendBuffer chooses the payload of a packet from the MTU, and            *)
(* sendPacketizedBuffer cuts a buffer into packets, sends them one by one  *)
(* and, when the very first one is refused as too big, tries again with a  *)
(* payload a fifth smaller.                                                *)
(*                                                                         *)
(* A message is what is sent under one tick.  sendBuffer sends it as one   *)
(* buffer; sendPacketizedBuffer can also be called once per buffer of a    *)
(* series, with firstBuffer and lastBuffer set for the first and the last  *)
(* one and the sequence number carried from call to call by *offset.       *)
(*                                                                         *)
(* A packet is a record of the header's sequence number and bits and of    *)
(* the place and number of its data bytes in the message.                  *)
(***************************************************************************)
EXTENDS Integers, Sequences

CONSTANTS
    Messages,       \* the messages to send, each a sequence of buffer lengths
                    \* (uint32_t)
    SeriesStarts,   \* those whose first buffer is sent with firstBuffer set,
                    \* rather than as a later part of a series
    Mtus,           \* values the mtu argument may have, 0 meaning "not set"
    InterfaceMtus,  \* values getMTU may return
    PathLimits,     \* the most data bytes sendmsg takes without EMSGSIZE
    MaxPathChanges, \* bound: how often that limit changes
    MaxSendErrors,  \* bound: failures of sendmsg for another reason
    Two31           \* 2^31: a buffer this long has a negative length as an int

ASSUME PacketizerAssumption ==
    /\ Messages \in Seq(Seq(0..(2 * Two31 - 1)))
    /\ SeriesStarts \subseteq DOMAIN Messages
    /\ Mtus \subseteq Nat
    /\ InterfaceMtus \subseteq Nat
    /\ PathLimits \subseteq Nat \ {0}
    /\ MaxPathChanges \in Nat
    /\ MaxSendErrors \in Nat
    /\ Two31 \in Nat \ {0}

IpAndUdpBytes == 20 + 8     \* the headers of IPv4 and UDP
HeaderBytes   == 28         \* HEADER_BYTES: load balancer and reassembly header

(* A buffer's length, a uint32_t, as an int.                               *)
ToInt(n) == IF n < Two31 THEN n ELSE n - 2 * Two31

(* The payload that sendBuffer computes from the mtu argument and from     *)
(* what getMTU says of the interface.                                      *)
PayloadFor(mtu, interfaceMtu) ==
    LET known == IF mtu = 0 THEN interfaceMtu ELSE mtu
        safe  == IF known > 9000 THEN 9000 ELSE IF known = 0 THEN 1400 ELSE known
    IN  safe - IpAndUdpBytes - HeaderBytes

VARIABLES
    mtu, interfaceMtu,  \* the arguments of process, and the interface's MTU
    pathLimit,          \* what sendmsg takes at the moment
    pathChanges,
    sendErrors,
    pc,                 \* "call": between two calls, "loop", "done", "failed"
    message, buffer,    \* which message and which of its buffers is being sent
    offset,             \* *offset
    maxUdpPayload, remainingBytes, packetCounter,
    veryFirstPacket, veryLastPacket,
    sent                \* the packets of the message sent so far, in order

argVars   == <<mtu, interfaceMtu>>
pathVars  == <<pathLimit, pathChanges>>
envVars   == <<pathVars, sendErrors>>
callVars  == <<message, buffer, offset>>
loopVars  == <<maxUdpPayload, remainingBytes, packetCounter, veryFirstPacket, veryLastPacket>>
vars      == <<argVars, envVars, pc, callVars, loopVars, sent>>

Buffers     == Messages[message]
DataLen     == Buffers[buffer]
FirstBuffer == buffer = 1 /\ message \in SeriesStarts
LastBuffer  == buffer = Len(Buffers)

Init ==
    /\ mtu \in Mtus
    /\ interfaceMtu \in InterfaceMtus
    /\ pathLimit \in PathLimits
    /\ pathChanges = 0
    /\ sendErrors = 0
    /\ pc = "call"
    /\ message = 1
    /\ buffer = 1
    /\ offset = 0
    /\ maxUdpPayload = 0
    /\ remainingBytes = 0
    /\ packetCounter = 0
    /\ veryFirstPacket = FALSE
    /\ veryLastPacket = FALSE
    /\ sent = <<>>

(* The route to the receiver changes.                                      *)
PathChanges ==
    /\ pathChanges < MaxPathChanges
    /\ pathChanges' = pathChanges + 1
    /\ pathLimit' \in PathLimits \ {pathLimit}
    /\ UNCHANGED <<argVars, sendErrors, pc, callVars, loopVars, sent>>

(* Variant, not the code: the last byte is taken for a terminator.         *)
EnterWithoutLastByte ==
    /\ pc = "call"
    /\ message \in DOMAIN Messages /\ buffer \in DOMAIN Buffers
    /\ pc' = "loop"
    /\ maxUdpPayload' = PayloadFor(mtu, interfaceMtu)
    /\ remainingBytes' = ToInt(DataLen) - 1
    /\ packetCounter' = offset
    /\ veryFirstPacket' = FirstBuffer
    /\ veryLastPacket' = FALSE
    /\ UNCHANGED <<argVars, envVars, callVars, sent>>

(* sendPacketizedBuffer is entered for the next buffer; its payload        *)
(* argument is by value, so that no earlier reduction is remembered.       *)
Enter ==
    /\ pc = "call"
    /\ message \in DOMAIN Messages /\ buffer \in DOMAIN Buffers
    /\ pc' = "loop"
    /\ maxUdpPayload' = PayloadFor(mtu, interfaceMtu)
    /\ remainingBytes' = ToInt(DataLen)
    /\ packetCounter' = offset
    /\ veryFirstPacket' = FirstBuffer
    /\ veryLastPacket' = FALSE
    /\ UNCHANGED <<argVars, envVars, callVars, sent>>

BytesToWrite == IF remainingBytes > maxUdpPayload THEN maxUdpPayload ELSE remainingBytes

(* Variant, not the code: only a short packet is taken for the last one.   *)
IsVeryLastShort == BytesToWrite < maxUdpPayload /\ LastBuffer

(* veryLastPacket as the loop's body sets it before it sends.              *)
IsVeryLast == veryLastPacket \/ (BytesToWrite = remainingBytes /\ LastBuffer)

ThePacket ==
    [seq   |-> packetCounter,
     first |-> veryFirstPacket,
     last  |-> IsVeryLast,
     buf   |-> buffer,
     from  |-> ToInt(DataLen) - remainingBytes,
     len   |-> BytesToWrite]

InLoop  == pc = "loop" /\ remainingBytes > 0
TooBig  == BytesToWrite > pathLimit

SendPacket ==
    /\ InLoop
    /\ BytesToWrite >= 0 /\ ~TooBig
    /\ sent' = Append(sent, ThePacket)
    /\ packetCounter' = packetCounter + 1
    /\ remainingBytes' = remainingBytes - BytesToWrite
    /\ veryFirstPacket' = FALSE
    /\ veryLastPacket' = IsVeryLast
    /\ UNCHANGED <<argVars, envVars, pc, callVars, maxUdpPayload>>

(* Variants, not the code: the sequence number of the refused packet is    *)
(* skipped, is taken back twice; the last bit of the refused attempt is    *)
(* kept; any packet is retried; the reduced payload is rounded up.         *)
Reduce(smaller, counter, veryLast) ==
    /\ InLoop
    /\ TooBig
    /\ maxUdpPayload' = smaller
    /\ packetCounter' = counter
    /\ veryLastPacket' = veryLast
    /\ UNCHANGED <<argVars, envVars, pc, callVars, sent, remainingBytes, veryFirstPacket>>

FourFifths == (maxUdpPayload * 8) \div 10

ReduceSkipping   == veryFirstPacket /\ Reduce(FourFifths, packetCounter + 1, FALSE)
ReduceTakingBack == veryFirstPacket /\ Reduce(FourFifths, packetCounter - 1, FALSE)
ReduceKeepingBit == veryFirstPacket /\ Reduce(FourFifths, packetCounter, IsVeryLast)
ReduceAnyPacket  == Reduce(FourFifths, packetCounter, FALSE)
ReduceRoundingUp ==
    veryFirstPacket /\ Reduce((maxUdpPayload * 8 + 9) \div 10, packetCounter, FALSE)

(* EMSGSIZE on the very first packet: start again with a smaller payload.  *)
ReducePayload ==
    /\ InLoop
    /\ TooBig /\ veryFirstPacket
    /\ maxUdpPayload' = (maxUdpPayload * 8) \div 10
    /\ veryLastPacket' = FALSE
    /\ UNCHANGED <<argVars, envVars, pc, callVars, sent,
                   remainingBytes, packetCounter, veryFirstPacket>>

(* Variant, not the code: no packet is retried.                            *)
SendRefusedAlways ==
    /\ InLoop
    /\ TooBig \/ BytesToWrite < 0
    /\ pc' = "failed"
    /\ UNCHANGED <<argVars, envVars, callVars, loopVars, sent>>

(* EMSGSIZE on a later packet, or a negative length: -1 is returned and    *)
(* process exits the program.                                              *)
SendRefused ==
    /\ InLoop
    /\ (TooBig /\ ~veryFirstPacket) \/ BytesToWrite < 0
    /\ pc' = "failed"
    /\ UNCHANGED <<argVars, envVars, callVars, loopVars, sent>>

(* Any other error of sendmsg has the same consequence.                    *)
SendError ==
    /\ InLoop
    /\ sendErrors < MaxSendErrors
    /\ sendErrors' = sendErrors + 1
    /\ pc' = "failed"
    /\ UNCHANGED <<argVars, pathVars, callVars, loopVars, sent>>

(* The buffer is sent: *offset is where the next one of the message goes   *)
(* on.                                                                     *)
LeaveBuffer ==
    /\ pc = "loop"
    /\ remainingBytes <= 0
    /\ ~LastBuffer
    /\ pc' = "call"
    /\ offset' = packetCounter
    /\ buffer' = buffer + 1
    /\ UNCHANGED <<argVars, envVars, loopVars, message, sent>>

LeaveMessage ==
    /\ pc = "loop"
    /\ remainingBytes <= 0
    /\ LastBuffer
    /\ pc' = "done"
    /\ offset' = packetCounter
    /\ UNCHANGED <<argVars, envVars, loopVars, message, buffer, sent>>

(* The next message is sent, from sequence number 0.                       *)
NextMessage ==
    /\ pc = "done"
    /\ message < Len(Messages)
    /\ pc' = "call"
    /\ message' = message + 1
    /\ buffer' = 1
    /\ offset' = 0
    /\ sent' = <<>>
    /\ UNCHANGED <<argVars, envVars, loopVars>>

Sender == Enter \/ SendPacket \/ ReducePayload \/ SendRefused
             \/ LeaveBuffer \/ LeaveMessage \/ NextMessage

Next == Sender \/ SendError \/ PathChanges

Spec == Init /\ [][Next]_vars

(* The sending thread keeps running; sendmsg on a UDP socket returns.      *)
FairSpec == Spec /\ WF_vars(Sender)
-----------------------------------------------------------------------------
Packets == [seq : Nat, first : BOOLEAN, last : BOOLEAN, buf : Nat, from : Int, len : Nat]

(* Type invariant of sendPacketizedBuffer's variables.                     *)
TypeOK ==
    /\ mtu \in Mtus /\ interfaceMtu \in InterfaceMtus
    /\ pathLimit \in PathLimits /\ pathChanges \in 0..MaxPathChanges
    /\ sendErrors \in 0..MaxSendErrors
    /\ pc \in {"call", "loop", "done", "failed"}
    /\ message \in Nat \ {0} /\ buffer \in Nat \ {0}
    /\ offset \in Nat /\ packetCounter \in Nat
    /\ maxUdpPayload \in Int /\ remainingBytes \in Int
    /\ veryFirstPacket \in BOOLEAN /\ veryLastPacket \in BOOLEAN
    /\ sent \in Seq(Packets)

(* The packets of a message are numbered 0, 1, 2, ... without a gap, also  *)
(* across the buffers of a series and across attempts that were refused.   *)
NumberedInOrder == \A i \in 1..Len(sent) : sent[i].seq = i - 1

(* What is sent as int, and has bytes: the buffers sendBuffer is meant for.*)
Sendable == \A b \in 1..Len(Buffers) : Buffers[b] \in 1..(Two31 - 1)

(* The first bit is on the first packet of a message and on no other, and  *)
(* the last bit on the packet that ends it and on no other: an attempt     *)
(* refused as too big, during which the packet was taken for the last one, *)
(* leaves no trace in the packets sent after it.                           *)
BitsMarkTheEnds ==
    Sendable => \A i \in 1..Len(sent) :
        /\ sent[i].first <=> (i = 1 /\ message \in SeriesStarts)
        /\ sent[i].last <=> /\ i = Len(sent)
                            /\ LastBuffer
                            /\ pc = "done" \/ (pc = "loop" /\ remainingBytes = 0)

(* How many packets of "size" bytes n bytes fill, the last one perhaps not *)
(* to the end.                                                             *)
PacketCount(n, size) == (n + size - 1) \div size

(* The reference: a buffer is cut into packets of one size and a last one  *)
(* with what is left over, numbered from "at".                             *)
Cut(b, size, at) ==
    LET n     == ToInt(Buffers[b])
        count == PacketCount(n, size)
    IN  [i \in 1..count |->
            [seq   |-> at + i - 1,
             first |-> i = 1 /\ b = 1 /\ message \in SeriesStarts,
             last  |-> i = count /\ b = Len(Buffers),
             buf   |-> b,
             from  |-> (i - 1) * size,
             len   |-> IF i = count THEN n - (i - 1) * size ELSE size]]

FullPayload == PayloadFor(mtu, interfaceMtu)

(* The packets of the first b buffers, those of the first one of "size".   *)
CutUpTo(size) ==
    LET cuts[b \in 0..Len(Buffers)] ==
            IF b = 0 THEN <<>>
            ELSE cuts[b - 1] \o Cut(b, IF b = 1 THEN size ELSE FullPayload, Len(cuts[b - 1]))
    IN  cuts

(* There is room for data, and every length is one that an int can hold.   *)
CanBeCut == FullPayload > 0 /\ \A b \in 1..Len(Buffers) : ToInt(Buffers[b]) >= 0

(* A message reported as sent is its buffers cut in this way, one after the*)
(* other, so that each byte is in exactly one packet.  The first buffer's  *)
(* packets may be smaller than the MTU allows, and are all of one size: the*)
(* receiver takes the size of packet 0 for the most that a packet holds.   *)
SentAsCut ==
    (pc = "done" /\ CanBeCut) =>
        \E size \in 1..FullPayload : sent = CutUpTo(size)[Len(Buffers)]

(* Retrying with smaller packets always ends in a size the path takes: a   *)
(* message of one buffer fails only if sendmsg has another error, if the   *)
(* path changes under way or if the MTU leaves no room for data.  Only a   *)
(* message that starts a series is retried.                                *)
RetrySuffices ==
    pc = "failed" => \/ sendErrors > 0
                     \/ pathChanges > 0
                     \/ Len(Buffers) > 1 \/ message \notin SeriesStarts
                     \/ PayloadFor(mtu, interfaceMtu) < 0

(* Every message is sent, or the program exits: neither the retry loop nor *)
(* the sending loop goes on for ever.  (Not so for an MTU of exactly 56,   *)
(* which leaves a payload of 0: the loop then sends empty packets without  *)
(* end.  Mtus is meant not to hold it.)                                    *)
EventuallySent == <>(pc = "failed" \/ (pc = "done" /\ message = Len(Messages)))
=============================================================================

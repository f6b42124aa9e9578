------------------------------ MODULE EndToEnd ------------------------------
(***************************************************************************)
(* From the sender's buffer to the receiver's: the packets that            *)
(* sendPacketizedBuffer hands to sendmsg (Packetizer) are those that       *)
(* getPacketizedBuffer gets from recvmsg (Assembler), after the network    *)
(* has delayed, reordered, lost or duplicated them.  The load balancer     *)
(* between the two sends each tick to one receiver, whichever it likes.     *)
(*                                                                         *)
(* What Assembler assumes of the sender, packets of one size with          *)
(* consecutive numbers and the bits on the ends, is here what Packetizer   *)
(* sends, also with a payload reduced under way, a series of buffers, a    *)
(* second message, and a sender that fails half-way.                       *)
(***************************************************************************)
EXTENDS Packetizer, SequencesExt

CONSTANTS
    TickOf,         \* the tick of each message
    Routable,       \* those that the load balancer may send to this receiver
    BufLens, MaxStored, Two32, MaxSkew, MaxDups, MaxLosses  \* as in Assembler

ASSUME EndToEndAssumption ==
    /\ Routable \subseteq DOMAIN Messages
    /\ \A m, n \in Routable : TickOf[m] = TickOf[n] => m = n

VARIABLES
    routed,                                                     \* those that it does
    net, dups, losses,                                          \* the network
    place, veryFirstRead, bufLen, remainingLen, totalBytesRead, \* the receiver:
    expectedSequence, firstReadForBuf, maxPacketBytes,          \* Assembler's,
    bytesPerPacket, stored, freed, leaked, cur, packetTick,     \* with its pc
    placed, ret, last, tick                                     \* as place

received == <<place, veryFirstRead, bufLen, remainingLen, totalBytesRead,
              expectedSequence, firstReadForBuf, maxPacketBytes, bytesPerPacket,
              stored, freed, leaked, cur, packetTick, placed, ret, last, tick>>
allVars  == <<vars, routed, net, dups, losses, received>>

Ticks == {TickOf[m] : m \in Routable}

(* What Assembler says of the messages itself (Sent) is not used here.     *)
Receiver == INSTANCE Assembler
                WITH pc <- place, HeaderBytes <- 16, RecvMayFail <- FALSE,
                     MallocMayFail <- FALSE, Payload <- 1, NumPackets <- [t \in Ticks |-> 1],
                     LastLen <- [t \in Ticks |-> 1], FirstFlag <- [t \in Ticks |-> TRUE]

EEInit ==
    /\ Init
    /\ routed \in SUBSET Routable \ {{}}
    /\ net = {} /\ dups = 0 /\ losses = 0
    /\ Receiver!InitCall

(* The packet as it travels: with its tick, and its data known by where in *)
(* the message it is from.                                                 *)
OnTheWire ==
    LET p == ThePacket
    IN  [tick |-> TickOf[message], buf |-> <<message, buffer>>, from |-> p.from,
         seq  |-> p.seq, first |-> p.first, last |-> p.last, len |-> p.len]

Emit ==
    /\ SendPacket
    /\ net' = IF message \in routed THEN net \union {OnTheWire} ELSE net
    /\ UNCHANGED <<routed, dups, losses, received>>

SendNothing ==
    /\ \/ Enter \/ ReducePayload \/ SendRefused \/ LeaveBuffer \/ LeaveMessage \/ NextMessage
       \/ SendError \/ PathChanges
    /\ UNCHANGED <<routed, net, dups, losses, received>>

Receive == Receiver!Routine /\ UNCHANGED <<vars, routed>>

Lose == (\E p \in net : Receiver!Lose(p)) /\ UNCHANGED <<vars, routed>>

EENext == Emit \/ SendNothing \/ Receive \/ Lose

(* Both programs keep running, and a packet in the socket's queue is       *)
(* received.                                                               *)
EESpec ==
    /\ EEInit /\ [][EENext]_allVars
    /\ WF_allVars(Sender /\ (Emit \/ SendNothing))
    /\ WF_allVars(Receive)
-----------------------------------------------------------------------------
(* The bytes of a buffer of a message, of a message, and of a packet.      *)
BytesOfBuffer(m, b) == [n \in 1..ToInt(Messages[m][b]) |-> <<<<m, b>>, n - 1>>]

BytesOfMessage(m) ==
    FlattenSeq([b \in 1..Len(Messages[m]) |-> BytesOfBuffer(m, b)])

BytesOfPacket(p) == [n \in 1..p.len |-> <<p.buf, p.from + n - 1>>]

(* What the receiver reports as a finished message is, byte for byte, the  *)
(* message that was sent under the tick it reports: whatever payload it    *)
(* was cut to, however often that was reduced, and whatever came of the    *)
(* messages before and after.  Packets of another tick are the exception:  *)
(* the receiver mixes them in.                                             *)
OneTick == \A i, j \in 1..Len(placed) : placed[i].tick = placed[j].tick

DeliversWhatWasSent ==
    (place = "done" /\ ret = "OK" /\ last /\ OneTick) =>
        \E m \in routed :
            /\ TickOf[m] = tick
            /\ FlattenSeq([i \in 1..Len(placed) |-> BytesOfPacket(placed[i])])
                   = BytesOfMessage(m)

(* If the sender gets through and the network loses nothing, the receiver's*)
(* call returns: the last bit is on a packet that it comes to, and no      *)
(* number is left out on the way.                                          *)
ArrivesEventually ==
    <>(place \in {"done", "overrun"}) \/ <>(losses > 0) \/ <>(pc = "failed")
=============================================================================

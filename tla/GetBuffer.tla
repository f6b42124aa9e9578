----------------------------- MODULE GetBuffer -----------------------------
(***************************************************************************)
(* getBuffer of ejfat_assemble.hpp around getPacketizedBuffer (Assembler): *)
(* with noCopy it fills the caller's buffer by one call; without it, it    *)
(* allocates a buffer, calls until a packet with the last bit is placed,   *)
(* doubles the buffer when the room left in it runs out, and hands it to   *)
(* the caller.  The map of packets kept out of order and the next expected *)
(* sequence number are carried from call to call.                          *)
(***************************************************************************)
EXTENDS Assembler

CONSTANTS
    NoCopies,           \* the values of the argument noCopy
    InitialLens         \* lengths of the buffer first allocated (100000)

ASSUME GetBufferAssumption ==
    /\ NoCopies \subseteq BOOLEAN
    /\ InitialLens \subseteq Nat
    /\ \A len \in InitialLens : 2 * len < Two32

(* The values of errorCodes.                                               *)
ErrorValue ==
    [RECV_MSG |-> -1, TRUNCATED_MSG |-> -2, BUF_TOO_SMALL |-> -3, OUT_OF_ORDER |-> -4,
     BAD_FIRST_LAST_BIT |-> -5, OUT_OF_MEM |-> -6, BAD_ARG |-> -7]

VARIABLES
    noCopy,             \* the argument
    stage,              \* "start", "calling" getPacketizedBuffer, "returned",
                        \* or "aborted" by the C library
    dataBufLen,         \* length of the buffer getBuffer has allocated
    remaningBytes,      \* room left in it
    totalBytes,         \* bytes in it
    userBuf,            \* whether *userBuf has been set to it
    result              \* what getBuffer returned

copyVars == <<dataBufLen, remaningBytes, totalBytes, userBuf>>
callerVars == <<noCopy, stage, copyVars, result>>
allVars  == <<vars, callerVars>>

(* noCopy: bufLen is *userBufLen, the length of the caller's buffer.       *)
GBInit ==
    /\ Init
    /\ noCopy \in NoCopies
    /\ stage = "start"
    /\ dataBufLen = 0
    /\ remaningBytes = 0
    /\ totalBytes = 0
    /\ userBuf = FALSE
    /\ result = 0

Return(value) ==
    /\ stage' = "returned"
    /\ result' = value

-----------------------------------------------------------------------------
(* The first call.                                                         *)

StartNoCopy ==
    /\ stage = "start"
    /\ noCopy
    /\ stage' = "calling"
    /\ UNCHANGED <<vars, noCopy, copyVars, result>>

(* malloc of the first buffer fails: reported as OUT_OF_ORDER.             *)
StartNoMemory ==
    /\ stage = "start"
    /\ ~noCopy
    /\ MallocMayFail
    /\ Return(ErrorValue.OUT_OF_ORDER)
    /\ UNCHANGED <<vars, noCopy, copyVars>>

StartCopy ==
    /\ stage = "start"
    /\ ~noCopy
    /\ stage' = "calling"
    /\ \E len \in InitialLens : /\ dataBufLen' = len
                               /\ remaningBytes' = len
                               /\ bufLen' = len
                               /\ remainingLen' = len
    /\ UNCHANGED <<netVars, headVars, mapVars, outVars, pc, veryFirstRead, cur, packetTick,
                   totalBytesRead, expectedSequence, placed,
                   noCopy, totalBytes, userBuf, result>>

(* A step of getPacketizedBuffer, or of the network while it is called.    *)
InCall ==
    /\ stage = "calling"
    /\ Next
    /\ UNCHANGED callerVars

-----------------------------------------------------------------------------
(* After a call.                                                           *)

CallEnded == stage = "calling" /\ pc = "done"

(* freeMap over the map, after which getBuffer returns.  If                *)
(* getPacketizedBuffer has freed the same buffers already this is a double *)
(* free, which the C library may detect, and then ends the process.        *)
FreeMapAndReturn(value) ==
    /\ \/ Return(value)
       \/ freed /\ stored # {} /\ stage' = "aborted" /\ result' = result
    /\ freed' = TRUE
    /\ UNCHANGED <<netVars, bufVars, headVars, stored, leaked, outVars,
                   pc, argVars, cur, packetTick, noCopy>>

(* The caller's buffer has been filled, or not: totalBytes, which is 0, is *)
(* looked at for an error where nBytes is meant.  After an error "last"    *)
(* has not been written and may have any value.                            *)
LastAsSeen == IF ret = "OK" THEN {last} ELSE BOOLEAN

EndNoCopy ==
    /\ CallEnded
    /\ noCopy
    /\ \E seen \in LastAsSeen :
          /\ FreeMapAndReturn(IF seen THEN 0 ELSE ErrorValue.BUF_TOO_SMALL)
          /\ totalBytes' = IF seen /\ ret = "OK" THEN totalBytesRead ELSE totalBytes
    /\ UNCHANGED <<dataBufLen, remaningBytes, userBuf>>

(* An error of getPacketizedBuffer: what is returned is totalBytes, and    *)
(* *userBuf is not set.                                                    *)
EndOnError ==
    /\ CallEnded
    /\ ~noCopy
    /\ ret # "OK"
    /\ FreeMapAndReturn(totalBytes)
    /\ UNCHANGED copyVars

(* Variant, not the code: the buffer is handed over after any call.        *)
EndCompleteAny ==
    /\ CallEnded
    /\ ~noCopy
    /\ ret = "OK"
    /\ totalBytes' = totalBytes + totalBytesRead
    /\ remaningBytes' = remaningBytes - totalBytesRead
    /\ userBuf' = TRUE
    /\ FreeMapAndReturn(0)
    /\ UNCHANGED dataBufLen

(* The last packet is in the buffer: hand it to the caller.                *)
EndComplete ==
    /\ CallEnded
    /\ ~noCopy
    /\ ret = "OK" /\ last
    /\ totalBytes' = totalBytes + totalBytesRead
    /\ remaningBytes' = remaningBytes - totalBytesRead
    /\ userBuf' = TRUE
    /\ FreeMapAndReturn(0)
    /\ UNCHANGED dataBufLen

(* Variant, not the code: each call starts at sequence number 0.           *)
CallAgainFromZero(len) ==
    /\ pc' = "read"
    /\ veryFirstRead' = FALSE
    /\ bufLen' = len
    /\ remainingLen' = len
    /\ totalBytesRead' = 0
    /\ expectedSequence' = 0
    /\ firstReadForBuf' = FALSE
    /\ maxPacketBytes' = 0
    /\ cur' = NoPacket
    /\ UNCHANGED <<netVars, mapVars, outVars, bytesPerPacket, placed,
                   packetTick, noCopy, stage, userBuf, result>>

(* getPacketizedBuffer is called again, with len bytes of room.            *)
CallAgain(len) ==
    /\ pc' = "read"
    /\ veryFirstRead' = FALSE
    /\ bufLen' = len
    /\ remainingLen' = len
    /\ totalBytesRead' = 0
    /\ firstReadForBuf' = FALSE
    /\ maxPacketBytes' = 0
    /\ cur' = NoPacket
    /\ UNCHANGED <<netVars, mapVars, outVars, bytesPerPacket, expectedSequence, placed,
                   packetTick, noCopy, stage, userBuf, result>>

MoreToRead == CallEnded /\ ~noCopy /\ ret = "OK" /\ ~last

RoomLeft == remaningBytes - totalBytesRead

ContinueInBuffer ==
    /\ MoreToRead
    /\ RoomLeft >= bytesPerPacket
    /\ totalBytes' = totalBytes + totalBytesRead
    /\ remaningBytes' = RoomLeft
    /\ CallAgain(RoomLeft)
    /\ UNCHANGED dataBufLen

(* Variant, not the code: the doubled buffer is taken for empty.           *)
DoubleBufferEmpty ==
    /\ MoreToRead
    /\ RoomLeft < bytesPerPacket
    /\ totalBytes' = totalBytes + totalBytesRead
    /\ dataBufLen' = (2 * dataBufLen) % Two32
    /\ remaningBytes' = dataBufLen'
    /\ CallAgain(remaningBytes')

DoubleBuffer ==
    /\ MoreToRead
    /\ RoomLeft < bytesPerPacket
    /\ totalBytes' = totalBytes + totalBytesRead
    /\ dataBufLen' = (2 * dataBufLen) % Two32
    /\ remaningBytes' = dataBufLen' - totalBytes'
    /\ CallAgain(remaningBytes')

DoubleNoMemory ==
    /\ MoreToRead
    /\ RoomLeft < bytesPerPacket
    /\ MallocMayFail
    /\ totalBytes' = totalBytes + totalBytesRead
    /\ remaningBytes' = RoomLeft
    /\ FreeMapAndReturn(ErrorValue.OUT_OF_MEM)
    /\ UNCHANGED <<dataBufLen, userBuf>>

-----------------------------------------------------------------------------
Ending == EndNoCopy \/ EndOnError \/ EndComplete
              \/ ContinueInBuffer \/ DoubleBuffer \/ DoubleNoMemory

GBNext == StartNoCopy \/ StartNoMemory \/ StartCopy \/ InCall \/ Ending

GBSpec == GBInit /\ [][GBNext]_allVars

-----------------------------------------------------------------------------
(* Type invariant of getBuffer's own variables.                            *)
GBTypeOK ==
    /\ noCopy \in BOOLEAN
    /\ stage \in {"start", "calling", "returned", "aborted"}
    /\ dataBufLen \in Nat /\ remaningBytes \in Nat /\ totalBytes \in Nat
    /\ userBuf \in BOOLEAN
    /\ result \in Int

(* The bytes of the first n packets of a sequence, for any n, and of all   *)
(* those placed so far, over all calls.                                    *)
BytesUpTo(packets) ==
    LET upTo[n \in 0..Len(packets)] == IF n = 0 THEN 0 ELSE upTo[n - 1] + packets[n].len
    IN  upTo

PlacedBytes == BytesUpTo(placed)[Len(placed)]

(* While getBuffer fills its own buffer, the place it writes to is where   *)
(* the last packet placed ends and the room it passes on is what is left   *)
(* of the buffer, also after the buffer was doubled and its contents moved.*)
RoomIsAccountedFor ==
    (stage = "calling" /\ ~noCopy /\ pc # "overrun") =>
        /\ totalBytes + totalBytesRead = PlacedBytes
        /\ totalBytes + totalBytesRead + remainingLen = dataBufLen

(* A buffer that the caller is given, or told is filled, holds the whole   *)
(* message, however many calls it took, and with no packet of it left in   *)
(* the map.  (For noCopy only if the call it was filled by succeeded.)     *)
Filled == stage = "returned" /\ (userBuf \/ (noCopy /\ ret = "OK" /\ result = 0))

FilledIsWhole ==
    Filled => placed = MessageOf(tick) /\ stored = {} /\ totalBytes = PlacedBytes

(* Unless a packet is lost, getBuffer returns: no number of calls leaves   *)
(* it waiting for a packet it has.                                         *)
EventuallyBack == <>(stage \in {"returned", "aborted"} \/ pc = "overrun") \/ <>(losses > 0)

(* Without noCopy the message may be of any length: "If it's too small, it *)
(* will be reallocated and data copied over."  When nothing goes wrong     *)
(* outside, getBuffer hands the caller the message.                        *)
Untroubled == dups = 0 /\ losses = 0 /\ ~RecvMayFail /\ ~MallocMayFail

GrowsAsNeeded == (stage = "returned" /\ ~noCopy /\ Untroubled) => userBuf
=============================================================================

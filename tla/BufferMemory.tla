---------------------------- MODULE BufferMemory ----------------------------
(***************************************************************************)
(* The bytes of the buffer that getBuffer and getPacketizedBuffer fill,    *)
(* for the routines of ejfat_assemble.hpp and for their second version in  *)
(* ejfat_assemble_ersap.hpp.  The loops are those of Assembler and         *)
(* GetBuffer; the versions differ in how a datagram gets into the buffer:  *)
(*   - "recvmsg": getBuffer of ejfat_assemble.hpp, by readPacket;          *)
(*   - "recvfrom": getBuffer of ejfat_assemble_ersap.hpp, whose            *)
(*     useRecvfrom is true, by way of a local array;                       *)
(*   - "fast": a call of getPacketizedBufferFast, which from the second    *)
(*     packet on receives header and data right into the buffer, and puts  *)
(*     back what the header has overwritten.                               *)
(*                                                                         *)
(* The len of a packet in hand or in the map is nBytes, what the routine   *)
(* takes its size to be; "fast" counts the header as well.                 *)
(***************************************************************************)
EXTENDS GetBuffer, SequencesExt

CONSTANT Readers        \* which versions are called: see above

ASSUME BufferMemoryAssumption == Readers \subseteq {"recvmsg", "recvfrom", "fast"}

VARIABLES
    reader,     \* which version was called
    memory,     \* the bytes of the buffer, from its first to its last
    saved,      \* by sequence number, the bytes stored in the map
    direct      \* the sequence numbers of packets that were received
                \* directly, and placed or stored

memVars == <<reader, memory, saved, direct>>
bmVars  == <<allVars, memVars>>

Junk == <<NoTick, -1, 0>>       \* a byte that is not of any packet's data

NewMemory(size) == [j \in 1..size |-> Junk]

(* The first n bytes of p's data, and a memory with bytes copied to it     *)
(* after its first "at" bytes.                                             *)
DataOf(p, n) == [k \in 1..n |-> <<p.tick, p.seq, k>>]

Copied(mem, at, bytes) ==
    [j \in DOMAIN mem |-> IF j - at \in DOMAIN bytes THEN bytes[j - at] ELSE mem[j]]

Smaller(m, n) == IF m < n THEN m ELSE n

BMInit ==
    /\ GBInit
    /\ reader \in Readers
    /\ reader = "fast" => noCopy
    /\ memory = <<>>
    /\ saved = <<>>
    /\ direct = {}

(* putDataAt, as the number of bytes before it.                            *)
PutDataAt == totalBytes + totalBytesRead

-----------------------------------------------------------------------------
(* Receiving a datagram.                                                   *)

(* By recvfrom into a local array, also the fast routine's first packet    *)
(* and those that come before it; and by recvfrom into the buffer.         *)
ThroughArray == reader = "recvfrom" \/ (reader = "fast" /\ placed = <<>>)
Directly     == reader = "fast" /\ placed # <<>>

(* Variant, not the code: the header is always counted.                    *)
NBytesWithHeader(p) == Smaller(p.len + HeaderBytes, remainingLen)

NBytes(p) == IF Directly THEN Smaller(p.len + HeaderBytes, remainingLen) ELSE p.len

(* How many bytes of data arrive: received directly, a datagram longer     *)
(* than the room is cut without notice.                                    *)
DataBytes(p) == IF Directly THEN NBytes(p) - HeaderBytes ELSE p.len

Handed(p) == [p EXCEPT !.len = NBytes(p)]

Fits(p) ==
    \/ reader = "recvmsg" /\ p.len <= remainingLen
    \/ ThroughArray /\ p.len + HeaderBytes <= remainingLen
    \/ Directly /\ HeaderBytes <= remainingLen

(* Variant, not the code: what the header has overwritten is not put back. *)
HeaderLeft(p) ==
    IF Directly
      THEN Copied(memory, PutDataAt - HeaderBytes,
                  [k \in 1..HeaderBytes |-> Junk] \o DataOf(p, DataBytes(p)))
      ELSE Copied(memory, PutDataAt, DataOf(p, DataBytes(p)))

(* The buffer with the packet's data in it.  From the array, memcpy copies *)
(* as many bytes as the datagram had, header included, and what follows    *)
(* the data there comes along.                                             *)
After(p) ==
    Copied(memory, PutDataAt,
           DataOf(p, DataBytes(p)) \o [k \in 1..(IF ThroughArray THEN HeaderBytes ELSE 0) |-> Junk])

Receive(p) ==
    /\ stage = "calling"
    /\ Arrive(p)
    /\ Fits(p)
    /\ packetTick' = p.tick
    /\ memory' = After(p)
    /\ IF p.seq = 0
         THEN /\ firstReadForBuf' = TRUE
              /\ bytesPerPacket' = (NBytes(p) - HeaderBytes) % Two32
         ELSE UNCHANGED <<firstReadForBuf, bytesPerPacket>>
    /\ UNCHANGED <<maxPacketBytes, bufVars, argVars, reader, callerVars>>

Refuse(p) ==
    /\ stage = "calling"
    /\ Arrive(p)
    /\ ~Fits(p)
    /\ UNCHANGED <<bufVars, headVars, mapVars, argVars, cur, packetTick, reader, saved,
                   direct, callerVars>>

RecvMsgTruncated(p) ==
    /\ Refuse(p)
    /\ reader = "recvmsg"
    /\ ReturnError("TRUNCATED_MSG")
    /\ memory' = Copied(memory, PutDataAt, DataOf(p, remainingLen))

RecvFromTooSmall(p) ==
    /\ Refuse(p)
    /\ ThroughArray
    /\ ReturnError("BUF_TOO_SMALL")
    /\ memory' = memory

(* Not even the header fits, and what is parsed is partly what was in the  *)
(* buffer: not followed further.                                           *)
HeaderCut(p) ==
    /\ Refuse(p)
    /\ Directly
    /\ pc' = "overrun"
    /\ UNCHANGED <<outVars, memory>>

-----------------------------------------------------------------------------
(* What is done with a packet received: as in Assembler.                   *)

NowDirect(p) == direct' = IF Directly THEN direct \union {p.seq} ELSE direct

BMReadInOrder(p) ==
    /\ Receive(p)
    /\ p.seq = expectedSequence
    /\ cur' = Handed(p)
    /\ pc' = "place"
    /\ NowDirect(p)
    /\ UNCHANGED <<mapVars, outVars, saved>>

GiveUp(p, code) ==
    /\ Receive(p)
    /\ FreeMap
    /\ ReturnError(code)
    /\ UNCHANGED <<cur, saved, direct>>

BMReadAgain(p) == p.seq < expectedSequence /\ GiveUp(p, "OUT_OF_ORDER")

BMReadButMapFull(p) == p.seq > expectedSequence /\ MapFull /\ GiveUp(p, "OUT_OF_ORDER")

BMReadButNoMemory(p) ==
    p.seq > expectedSequence /\ ~MapFull /\ MallocMayFail /\ GiveUp(p, "OUT_OF_MEM")

(* Variant, not the code: saved before the data is there.                  *)
SavedTooSoon(p) == SubSeq(memory, PutDataAt + 1, PutDataAt + NBytes(p))

(* The bytes that are kept of a packet that comes early.                   *)
SavedBytes(p) == SubSeq(memory', PutDataAt + 1, PutDataAt + NBytes(p))

BMReadAndStore(p) ==
    /\ Receive(p)
    /\ p.seq > expectedSequence
    /\ ~MapFull
    /\ IF p.seq \in DOMAIN saved
         THEN leaked' = leaked + 1 /\ UNCHANGED <<stored, saved, direct>>
         ELSE /\ stored' = stored \union {Handed(p)}
              /\ saved' = [n \in DOMAIN saved \union {p.seq} |->
                              IF n = p.seq THEN SavedBytes(p) ELSE saved[n]]
              /\ NowDirect(p)
              /\ UNCHANGED leaked
    /\ UNCHANGED <<freed, outVars, pc, cur>>

BMRead == \E p \in net : \/ RecvMsgTruncated(p) \/ RecvFromTooSmall(p) \/ HeaderCut(p)
                         \/ BMReadInOrder(p) \/ BMReadAgain(p)
                         \/ BMReadButMapFull(p) \/ BMReadButNoMemory(p)
                         \/ BMReadAndStore(p)

BMPlace == stage = "calling" /\ Place /\ UNCHANGED <<memVars, callerVars>>

(* Variant, not the code: the entry stays in the map.                      *)
BMDrainKeeping(q) ==
    /\ stage = "calling"
    /\ Drain(q)
    /\ memory' = Copied(memory, PutDataAt, saved[q.seq])
    /\ UNCHANGED <<reader, saved, direct, callerVars>>

BMDrain(q) ==
    /\ stage = "calling"
    /\ Drain(q)
    /\ memory' = Copied(memory, PutDataAt, saved[q.seq])
    /\ saved' = [n \in DOMAIN saved \ {q.seq} |-> saved[n]]
    /\ UNCHANGED <<reader, direct, callerVars>>

Trouble ==
    /\ stage = "calling"
    /\ RecvFails \/ \E p \in net : Lose(p)
    /\ UNCHANGED <<memVars, callerVars>>

-----------------------------------------------------------------------------
(* The calls: as in GetBuffer, and what becomes of the buffer.             *)

BMStart ==
    /\ StartNoCopy \/ StartNoMemory \/ StartCopy
    /\ memory' = NewMemory(bufLen')
    /\ UNCHANGED <<reader, saved, direct>>

(* realloc keeps what was in the buffer.                                   *)
Reallocated ==
    [j \in 1..dataBufLen' |-> IF j \in DOMAIN memory THEN memory[j] ELSE Junk]

BMDouble ==
    /\ reader # "fast"
    /\ DoubleBuffer
    /\ memory' = Reallocated
    /\ UNCHANGED <<reader, saved, direct>>

BMEnd ==
    /\ reader # "fast"
    /\ EndNoCopy \/ EndOnError \/ EndComplete \/ ContinueInBuffer \/ DoubleNoMemory
    /\ UNCHANGED memVars

(* The caller of getPacketizedBufferFast gets what it returns.             *)
EndFast ==
    /\ reader = "fast"
    /\ CallEnded
    /\ Return(IF ret = "OK" THEN totalBytesRead ELSE ErrorValue[ret])
    /\ UNCHANGED <<vars, noCopy, copyVars, memVars>>

BMRoutine == BMRead \/ BMPlace \/ (\E q \in stored : BMDrain(q))
                 \/ BMDouble \/ BMEnd \/ EndFast

BMNext == BMStart \/ BMRoutine \/ Trouble

BMSpec == BMInit /\ [][BMNext]_bmVars

(* A packet in the socket's queue is received, and the thread keeps        *)
(* running.                                                                *)
BMFairSpec == BMSpec /\ WF_bmVars(BMStart \/ BMRoutine)
-----------------------------------------------------------------------------
(* Type invariant of this module's and getBuffer's variables.              *)
BMTypeOK ==
    /\ GBTypeOK
    /\ reader \in Readers
    /\ stage = "calling" => Len(memory) = totalBytes + bufLen
    /\ DOMAIN saved = {q.seq : q \in stored}
    /\ \A q \in stored : Len(saved[q.seq]) = q.len
    /\ direct \subseteq 0..expectedSequence \union {q.seq : q \in stored}

(* Where the n-th packet placed begins in the buffer, and how much data it *)
(* has there.                                                              *)
StartOf(n) == BytesUpTo(placed)[n - 1]

DataIn(q) == IF q.seq \in direct THEN q.len - HeaderBytes ELSE q.len

(* The data of every packet placed is in the buffer, intact, where the     *)
(* routine put it: neither the packets that came early and were written to *)
(* the same place, nor the bytes copied too many, nor the headers received *)
(* over its end have left a trace in it, nor has the buffer's doubling.    *)
DataIntact ==
    pc # "overrun" => \A n \in 1..Len(placed) :
        SubSeq(memory, StartOf(n) + 1, StartOf(n) + DataIn(placed[n]))
            = DataOf(placed[n], DataIn(placed[n]))

(* A buffer that getBuffer hands over, or says it has filled, has the bytes*)
(* of the message and no others in it.  (Not so that of "fast", which      *)
(* counts the header of every packet but the first as data.)               *)
MessageBytes(t) ==
    FlattenSeq([i \in 1..NumPackets[t] |-> DataOf(MessageOf(t)[i], MessageOf(t)[i].len)])

FilledWithTheMessage ==
    Filled => SubSeq(memory, 1, totalBytes) = MessageBytes(tick)

(* With room for all packets of a message at their full size, and for a    *)
(* header more, no packet is refused, no message cut short and nothing     *)
(* copied past the buffer's end, also when ticks overlap and packets come  *)
(* twice.  "fast" needs the size of a header for every packet.             *)
AmpleRoom ==
    \A t \in Ticks :
        NumPackets[t] * Payload + HeaderBytes * (IF reader = "fast" THEN NumPackets[t] ELSE 1)
            <= Len(memory)

AmpleRoomSuffices ==
    AmpleRoom =>
        /\ pc # "overrun"
        /\ pc = "done" => ret \notin {"BUF_TOO_SMALL", "TRUNCATED_MSG"}
        /\ (pc = "done" /\ ret = "OK") => last
=============================================================================

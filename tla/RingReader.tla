----------------------------- MODULE RingReader -----------------------------
(***************************************************************************)
(* EjfatReader: the thread of ReAssembleReceiver reads events from a TCP   *)
(* connection and publishes them in a ring; ReAssembleConsumer, on the     *)
(* thread that asks EjfatReaderEngine for events, copies them out of it.   *)
(* The sequences of the ring and of the barrier are the Disruptor's        *)
(* (external): a slot is claimed when the consumer's sequence has passed   *)
(* it, and published by moving the cursor.                                 *)
(*                                                                         *)
(* The sender, the connection and the process around the reader are the    *)
(* environment: the connection may break, the length that precedes an      *)
(* event may be negative, the reader may be closed at any time.            *)
(***************************************************************************)
EXTENDS Integers, Sequences

CONSTANTS
    RingSize,       \* maxRingItems (4)
    Stream,         \* the events the client sends, given by their lengths
    MayBreak,       \* whether the connection may break
    MayClose        \* whether close may be called

ASSUME RingReaderAssumption ==
    /\ RingSize \in Nat \ {0}
    /\ Stream \in Seq(Int)
    /\ MayBreak \in BOOLEAN
    /\ MayClose \in BOOLEAN

VARIABLES
    process,            \* "up", or "exited" by System.exit
    running,            \* the receiver's flag
    connection,         \* dataInputStream: "null", "open", "broken", "closed"
    serverSocket,       \* "null", "open", "closed"
    closing,            \* close(): "no", "stream", "socket", "done", "threw"
    rpc,                \* the receiver's thread: see ReceiverPCs
    readEvents,         \* how many events have been read from the connection
    sequenceNumber,     \* the slot the receiver has claimed last
    cursor,             \* the last sequence published
    slots,              \* the payload of each slot: an event's number, 0 at first
    cpc,                \* the caller's thread: see ConsumerPCs
    sequence,           \* the consumer's sequence, which gates the receiver
    nextSequence, availableSequence,
    clone,              \* the copy of a slot's payload
    given               \* the events returned to the caller, in order

receiverVars == <<rpc, readEvents, sequenceNumber>>
ringVars     == <<cursor, slots>>
callerVars   == <<cpc, sequence, nextSequence, availableSequence, clone, given>>
closeVars    == <<running, serverSocket, closing>>
vars         == <<process, connection, closeVars, receiverVars, ringVars, callerVars>>

(* "listen": about to open the server socket; "accept": in accept; "claim" *)
(* in ringBuffer.next; "read": about to read an event; "fill": about to    *)
(* set the payload of the slot; "publish"; "ended": out of the loop;       *)
(* "died": of an exception that run does not catch.                        *)
ReceiverPCs == {"listen", "accept", "loop", "claim", "read", "fill", "publish", "ended", "died"}

(* "idle": no call of getEvent; "wait": in barrier.waitFor; "clone": about *)
(* to copy the payload of the slot; "put": about to give the slot back.    *)
ConsumerPCs == {"idle", "wait", "clone", "put"}

Slot(n) == n % RingSize

Init ==
    /\ process = "up"
    /\ running = TRUE
    /\ connection = "null" /\ serverSocket = "null"
    /\ closing = "no"
    /\ rpc = "listen"
    /\ readEvents = 0
    /\ sequenceNumber = -1
    /\ cursor = -1
    /\ slots = [i \in 0..(RingSize - 1) |-> 0]
    /\ cpc = "idle"
    /\ sequence = -1
    /\ nextSequence = 0
    /\ availableSequence = -1
    /\ clone = 0
    /\ given = <<>>

-----------------------------------------------------------------------------
(* The receiver's thread.                                                  *)

Listen ==
    /\ rpc = "listen"
    /\ \/ rpc' = "accept" /\ serverSocket' = "open"
       \/ rpc' = "loop" /\ serverSocket' = serverSocket     \* IOException
    /\ UNCHANGED <<process, connection, running, closing, readEvents, sequenceNumber,
                   ringVars, callerVars>>

(* A client connects; or accept fails, and the exception is printed.       *)
Accept ==
    /\ rpc = "accept"
    /\ rpc' = "loop"
    /\ connection' \in {"open", "null"}
    /\ UNCHANGED <<process, closeVars, readEvents, sequenceNumber, ringVars, callerVars>>

Loop ==
    /\ rpc = "loop"
    /\ rpc' = IF running THEN "claim" ELSE "ended"
    /\ UNCHANGED <<process, connection, closeVars, readEvents, sequenceNumber,
                   ringVars, callerVars>>

(* Variant, not the code: off by one, a slot is claimed too early.         *)
ClaimOneAhead ==
    /\ rpc = "claim"
    /\ sequenceNumber - RingSize <= sequence
    /\ sequenceNumber' = sequenceNumber + 1
    /\ rpc' = "read"
    /\ UNCHANGED <<process, connection, closeVars, readEvents, ringVars, callerVars>>

(* ringBuffer.next waits until the consumer has left the slot.             *)
Claim ==
    /\ rpc = "claim"
    /\ sequenceNumber + 1 - RingSize <= sequence
    /\ sequenceNumber' = sequenceNumber + 1
    /\ rpc' = "read"
    /\ UNCHANGED <<process, connection, closeVars, readEvents, ringVars, callerVars>>

ReadEvent ==
    /\ rpc = "read"
    /\ connection = "open"
    /\ readEvents < Len(Stream)
    /\ readEvents' = readEvents + 1
    /\ rpc' = IF Stream[readEvents + 1] < 0 THEN "died" ELSE "fill"
    /\ UNCHANGED <<process, connection, closeVars, sequenceNumber, ringVars, callerVars>>

(* There is no stream to read from: the thread ends with an exception.     *)
ReadFromNull ==
    /\ rpc = "read"
    /\ connection = "null"
    /\ rpc' = "died"
    /\ UNCHANGED <<process, connection, closeVars, readEvents, sequenceNumber,
                   ringVars, callerVars>>

(* Variant, not the code: the claimed slot is published as it is.          *)
ReadFailsPublishing ==
    /\ rpc = "read"
    /\ connection \in {"broken", "closed"}
    /\ rpc' = "publish"
    /\ UNCHANGED <<process, connection, closeVars, readEvents, sequenceNumber,
                   ringVars, callerVars>>

(* IOException: the process exits.                                         *)
ReadFails ==
    /\ rpc = "read"
    /\ connection \in {"broken", "closed"}
    /\ process' = "exited"
    /\ UNCHANGED <<connection, closeVars, receiverVars, ringVars, callerVars>>

SetPayload ==
    /\ rpc = "fill"
    /\ slots' = [slots EXCEPT ![Slot(sequenceNumber)] = readEvents]
    /\ rpc' = "publish"
    /\ UNCHANGED <<process, connection, closeVars, readEvents, sequenceNumber,
                   cursor, callerVars>>

Publish ==
    /\ rpc = "publish"
    /\ cursor' = sequenceNumber
    /\ rpc' = "loop"
    /\ UNCHANGED <<process, connection, closeVars, readEvents, sequenceNumber,
                   slots, callerVars>>

Receiver == Listen \/ Accept \/ Loop \/ Claim \/ ReadEvent \/ ReadFromNull
                \/ ReadFails \/ SetPayload \/ Publish

-----------------------------------------------------------------------------
(* The caller's thread: getEjfatEvent.                                     *)

GetEvent ==
    /\ cpc = "idle"
    /\ cpc' = IF availableSequence < nextSequence THEN "wait" ELSE "clone"
    /\ UNCHANGED <<process, connection, closeVars, receiverVars, ringVars,
                   sequence, nextSequence, availableSequence, clone, given>>

(* Variants, not the code: off by one; the slot is left before it is read. *)
WaitForMore ==
    /\ cpc = "wait"
    /\ cursor > nextSequence
    /\ availableSequence' = cursor
    /\ cpc' = "clone"
    /\ UNCHANGED <<process, connection, closeVars, receiverVars, ringVars,
                   sequence, nextSequence, clone, given>>

WaitForAndLeave ==
    /\ cpc = "wait"
    /\ cursor >= nextSequence
    /\ availableSequence' = cursor
    /\ sequence' = nextSequence
    /\ cpc' = "clone"
    /\ UNCHANGED <<process, connection, closeVars, receiverVars, ringVars,
                   nextSequence, clone, given>>

WaitFor ==
    /\ cpc = "wait"
    /\ cursor >= nextSequence
    /\ availableSequence' = cursor
    /\ cpc' = "clone"
    /\ UNCHANGED <<process, connection, closeVars, receiverVars, ringVars,
                   sequence, nextSequence, clone, given>>

GetPayloadBuffer ==
    /\ cpc = "clone"
    /\ clone' = slots[Slot(nextSequence)]
    /\ cpc' = "put"
    /\ UNCHANGED <<process, connection, closeVars, receiverVars, ringVars,
                   sequence, nextSequence, availableSequence, given>>

(* Variant, not the code: the wrong way.                                   *)
PutMovingBack ==
    /\ cpc = "put"
    /\ sequence' = nextSequence
    /\ nextSequence' = nextSequence - 1
    /\ given' = Append(given, clone)
    /\ cpc' = "idle"
    /\ UNCHANGED <<process, connection, closeVars, receiverVars, ringVars,
                   availableSequence, clone>>

(* The slot is left, and the copy returned.                                *)
Put ==
    /\ cpc = "put"
    /\ sequence' = nextSequence
    /\ nextSequence' = nextSequence + 1
    /\ given' = Append(given, clone)
    /\ cpc' = "idle"
    /\ UNCHANGED <<process, connection, closeVars, receiverVars, ringVars,
                   availableSequence, clone>>

Caller == GetEvent \/ WaitFor \/ GetPayloadBuffer \/ Put

-----------------------------------------------------------------------------
(* The environment: the connection breaks; close is called, one step after *)
(* the other of receiver.exit.                                             *)

Break ==
    /\ MayBreak
    /\ connection = "open"
    /\ connection' = "broken"
    /\ UNCHANGED <<process, closeVars, receiverVars, ringVars, callerVars>>

Close ==
    /\ MayClose /\ closing = "no"
    /\ running' = FALSE
    /\ closing' = "stream"
    /\ UNCHANGED <<process, connection, serverSocket, receiverVars, ringVars, callerVars>>

CloseStream ==
    /\ closing = "stream"
    /\ IF connection = "null"
         THEN closing' = "threw" /\ connection' = connection
         ELSE closing' = "socket" /\ connection' = "closed"
    /\ UNCHANGED <<process, running, serverSocket, receiverVars, ringVars, callerVars>>

CloseServerSocket ==
    /\ closing = "socket"
    /\ serverSocket' = "closed"
    /\ closing' = "done"
    /\ UNCHANGED <<process, connection, running, receiverVars, ringVars, callerVars>>

Closer == Close \/ CloseStream \/ CloseServerSocket

-----------------------------------------------------------------------------
Next == process = "up" /\ (Receiver \/ Caller \/ Break \/ Closer)

Spec == Init /\ [][Next]_vars

(* Threads keep running; a client connects in the end, events that it has  *)
(* sent are read, and the framework asks for one event after the other.    *)
FairSpec ==
    /\ Spec
    /\ WF_vars(process = "up" /\ Receiver)
    /\ WF_vars(process = "up" /\ Caller)
    /\ WF_vars(process = "up" /\ (CloseStream \/ CloseServerSocket))
-----------------------------------------------------------------------------
(* Type invariant of the reader's objects.                                 *)
TypeOK ==
    /\ process \in {"up", "exited"}
    /\ running \in BOOLEAN
    /\ connection \in {"null", "open", "broken", "closed"}
    /\ serverSocket \in {"null", "open", "closed"}
    /\ closing \in {"no", "stream", "socket", "done", "threw"}
    /\ rpc \in ReceiverPCs
    /\ readEvents \in Nat
    /\ sequenceNumber \in Nat \union {-1}
    /\ cursor \in Nat \union {-1}
    /\ slots \in [0..(RingSize - 1) -> Nat]
    /\ cpc \in ConsumerPCs
    /\ sequence \in Nat \union {-1}
    /\ nextSequence \in Nat
    /\ availableSequence \in Nat \union {-1}
    /\ clone \in Nat
    /\ given \in Seq(Nat)

(* An event that was published and not yet left by the caller is still in  *)
(* its slot: the receiver overwrites none, also not the one that is being  *)
(* copied.                                                                 *)
NotOverwritten ==
    \A n \in (sequence + 1)..cursor : slots[Slot(n)] = n + 1

(* Nothing that happens to the connection, and no close, makes the caller  *)
(* miss an event, get one twice or get a slot that was claimed but never   *)
(* filled.                                                                 *)
GivenInOrder == \A i \in 1..Len(given) : given[i] = i

(* Every event that is published reaches the caller, unless the process    *)
(* exits first.                                                            *)
PublishedIsGiven ==
    \A n \in 1..Len(Stream) : cursor >= n - 1 ~> (Len(given) >= n \/ process = "exited")

(* The reader is EventQueue, with the ring for the queue.                  *)
Queue == INSTANCE EventQueue
             WITH Capacity <- RingSize, entered <- cursor + 1, given <- given

IsAQueue == Queue!Spec
=============================================================================

----------------------------- MODULE EtReceiver -----------------------------
(***************************************************************************)
(* The way of a tick's data from getBuffers (EtAssembler) by way of the ET *)
(* system to the caller of EjfatEtReader: the thread of                    *)
(* ReAssembleReceiverET takes an entry from the fifo, publishes each of its*)
(* buffers in the ring, and gives the entry back.  The ring with the       *)
(* caller's end of it, which are those of RingReader, are EventQueue here, *)
(* which RingReader implements.                                            *)
(*                                                                         *)
(* The caller gets arrays and nothing else: neither whose data is in one,  *)
(* as getFifoId is commented out, nor how much of it is valid, as what     *)
(* getLength returns is dropped.  An array is the memory of one buffer: the*)
(* data laid in it for the tick, and behind that what remains of the data  *)
(* of earlier ticks.  It is a sequence with the data of one packet in each *)
(* place; at which byte the remains begin, and the bytes never written to, *)
(* are left out.  What getData returns (external) is taken for an array    *)
(* that the ET system does not write to again.                             *)
(***************************************************************************)
EXTENDS EtAssembler

CONSTANTS
    RingItems,      \* maxRingItems (4)
    MayClose,       \* whether close may be called
    MaxFifoErrors   \* bound: errors of an open fifo

ASSUME EtReceiverAssumption ==
    RingItems \in Nat \ {0} /\ MayClose \in BOOLEAN /\ MaxFifoErrors \in Nat

VARIABLES
    running,        \* the receiver's flag
    fifo,           \* the connection to the ET system: "open" or "closed"
    stage,          \* the receiver's thread: see Stages
    entry,          \* the entry it has got last
    idCount,        \* how many of its buffers have been published
    fifoErrors,     \* errors of the open fifo so far
    remains,        \* what was in each buffer when its entry was taken for
                    \* the tick that it has now
    entered, given, \* the ring, as EventQueue
    published,      \* the payloads published, in order (history)
    fifoIds         \* whose each is (history): nobody is told

ringVars     == <<entered, given, published, fifoIds>>
receiverVars == <<running, fifo, stage, entry, idCount, fifoErrors>>
etReaderVars == <<vars, receiverVars, remains, ringVars>>

(* "loop": about to look at running; "get": in fifo.getEntry; "publish":   *)
(* with an entry whose buffers are not all published; "give": about to give*)
(* it back; "ended".                                                       *)
Stages == {"loop", "get", "publish", "give", "ended"}

Ring == INSTANCE EventQueue WITH Capacity <- RingItems

ERInit ==
    /\ Init
    /\ Ring!Init
    /\ running = TRUE
    /\ fifo = "open"
    /\ stage = "loop"
    /\ entry = NoEntry
    /\ idCount = 0
    /\ fifoErrors = 0
    /\ remains = [e \in Entries |-> [i \in 1..Capacity |-> <<>>]]
    /\ published = <<>> /\ fifoIds = <<>>

-----------------------------------------------------------------------------
(* The receiver's thread.                                                  *)

Loop ==
    /\ stage = "loop"
    /\ stage' = IF running THEN "get" ELSE "ended"
    /\ UNCHANGED <<vars, running, fifo, entry, idCount, fifoErrors, remains, ringVars>>

GetEntryFrom(e) ==
    /\ stage = "get"
    /\ fifo = "open"
    /\ GetEntry(e)
    /\ entry' = e
    /\ idCount' = 0
    /\ stage' = "publish"
    /\ UNCHANGED <<running, fifo, fifoErrors, remains, ringVars>>

(* An exception of getEntry, which has taken nothing then, or of putEntry, *)
(* and then the entry stays with this consumer for good: it is printed, and*)
(* the loop goes on.  A closed fifo always throws, an open one may.        *)
Thrown ==
    /\ stage \in {"get", "give"}
    /\ stage' = "loop"
    /\ UNCHANGED <<vars, running, fifo, entry, idCount, remains, ringVars>>

ClosedThrows ==
    /\ Thrown
    /\ fifo = "closed"
    /\ UNCHANGED fifoErrors

OpenThrows ==
    /\ Thrown
    /\ fifo = "open"
    /\ fifoErrors < MaxFifoErrors
    /\ fifoErrors' = fifoErrors + 1

(* The memory of a buffer: data written from its beginning over what was   *)
(* there.                                                                  *)
Over(data, old) == data \o SubSeq(old, Len(data) + 1, Len(old))

DataArray(e, i) == Over(bufs[e][i].pkts, remains[e][i])

(* ringBuffer.next waits for room; then the whole array of the buffer is   *)
(* set and published.                                                      *)
PublishNext ==
    /\ stage = "publish"
    /\ Ring!Enter
    /\ idCount' = idCount + 1
    /\ published' = Append(published, DataArray(entry, idCount'))
    /\ fifoIds' = Append(fifoIds, bufs[entry][idCount'].id)
    /\ UNCHANGED <<running, fifo, entry, fifoErrors, remains>>

(* Variants, not the code: one buffer too many; the first buffer only; the *)
(* entry is given back with all but the first buffer still to be published.*)
PublishBufferOneMore ==
    /\ PublishNext
    /\ stage' = IF idCount' > Capacity THEN "give" ELSE "publish"
    /\ UNCHANGED vars


PublishBufferLate ==
    /\ PublishNext
    /\ IF idCount' = 1
         THEN owner' = [owner EXCEPT ![entry] = "free"]
         ELSE owner' = owner
    /\ stage' = IF idCount' = Capacity THEN "loop" ELSE "publish"
    /\ UNCHANGED <<netVars, bufSizeMax, pc, ret, mapVars, cur, bufs, garbled, put>>

(* Every buffer, also one that nobody has used: hasFifoData is commented   *)
(* out.                                                                    *)
PublishBuffer ==
    /\ PublishNext
    /\ stage' = IF idCount' = Capacity THEN "give" ELSE "publish"
    /\ UNCHANGED vars

GiveEntryBack ==
    /\ stage = "give"
    /\ fifo = "open"
    /\ GiveBack(entry)
    /\ stage' = "loop"
    /\ UNCHANGED <<running, fifo, entry, idCount, fifoErrors, remains, ringVars>>

Receiver == Loop \/ (\E e \in Entries : GetEntryFrom(e)) \/ ClosedThrows
                \/ PublishBuffer \/ GiveEntryBack

-----------------------------------------------------------------------------
(* The caller of getEjfatEvent, and of close.                              *)

Caller ==
    /\ Ring!Give
    /\ UNCHANGED <<vars, receiverVars, remains, published, fifoIds>>

Close ==
    /\ MayClose
    /\ running
    /\ running' = FALSE
    /\ UNCHANGED <<vars, fifo, stage, entry, idCount, fifoErrors, remains, ringVars>>

(* fifo.close and sys.close.                                               *)
CloseFifo ==
    /\ ~running
    /\ fifo = "open"
    /\ fifo' = "closed"
    /\ UNCHANGED <<vars, running, stage, entry, idCount, fifoErrors, remains, ringVars>>

-----------------------------------------------------------------------------
(* A new entry's buffers count as empty, but their memory is not cleared.  *)
Producer ==
    /\ Routine
    /\ remains' = [e \in Entries |->
           IF owner[e] = "free" /\ owner'[e] = "producer"
             THEN [i \in 1..Capacity |-> DataArray(e, i)]
             ELSE remains[e]]
    /\ UNCHANGED <<receiverVars, ringVars>>

Trouble ==
    /\ Fails \/ \E p \in net : Lose(p)
    /\ UNCHANGED <<receiverVars, remains, ringVars>>

ERNext == Producer \/ Trouble \/ Receiver \/ OpenThrows \/ Caller \/ Close \/ CloseFifo

ERSpec == ERInit /\ [][ERNext]_etReaderVars

(* As in EtAssembler and RingReader: the threads run, packets that have    *)
(* reached the socket are received, and the framework asks for one event   *)
(* after the other until it closes the reader.  Nothing is said of errors  *)
(* of the open fifo.                                                       *)
ERFairSpec ==
    /\ ERSpec
    /\ WF_etReaderVars(Producer)
    /\ WF_etReaderVars(Receiver)
    /\ WF_etReaderVars(running /\ Caller)
-----------------------------------------------------------------------------
(* Type invariant, of what this module adds too.                           *)
ERTypeOK ==
    /\ TypeOK
    /\ running \in BOOLEAN
    /\ fifo \in {"open", "closed"}
    /\ stage \in Stages
    /\ entry \in Entries \union {NoEntry}
    /\ idCount \in 0..Capacity
    /\ fifoErrors \in 0..MaxFifoErrors
    /\ remains \in [Entries -> [1..Capacity -> Seq(Sent)]]
    /\ entered = Len(published) /\ entered = Len(fifoIds)
    /\ given = [n \in 1..Len(given) |-> n]
    /\ stage = "publish" => idCount < Capacity /\ entry # NoEntry

(* What the caller can tell of an array: whether it begins with the data of*)
(* a source for a tick.                                                    *)
BeginsWith(n, t, d) == IsPrefix(MessageOf(t, d), published[n])

(* A buffer was published that a source the fifo does not know had taken.  *)
StrangerPublished == \E n \in 1..Len(published) : fifoIds[n] \notin BufIds \union {NoId}

(* The entry whose buffers the receiver publishes is its own until it gives*)
(* it back: the array published for a source begins with the whole data of *)
(* that source for a tick, and no other array published begins with it,    *)
(* though the entries are used over and over for new ticks, the remains of *)
(* the old ones are left in the buffers, and buffers not used are published*)
(* with them.  Only a source that the fifo does not know, if a packet of it*)
(* is kept out of order, makes the receiver publish such remains.          *)
PublishedWholeAndOnce ==
    Orderly => \A n \in 1..Len(published) : fifoIds[n] \in BufIds =>
        \E t \in put :
            /\ BeginsWith(n, t, fifoIds[n])
            /\ \A m \in 1..Len(published) : BeginsWith(m, t, fifoIds[n]) =>
                   m = n \/ (fifoIds[m] # fifoIds[n] /\ StrangerPublished)

(* An entry that putEntry has failed to give back is lost.                 *)
EntryLost(e) == owner[e] = "consumer" /\ ~(stage \in {"publish", "give"} /\ entry = e)

(* What every source sent for a tick reaches the caller, at the beginning  *)
(* of an array, from one end of the chain to the other, unless a packet is *)
(* lost, getBuffers stops with an error before the tick is complete, the   *)
(* reader is closed, or every entry has been lost to an error of putEntry: *)
(* then getBuffers waits for a free one for ever.  But for that,           *)
(* getBuffers, waiting for a free entry, the receiver, waiting for room in *)
(* the ring, and the caller, waiting for an event, never all wait for one  *)
(* another, whichever calls of the fifo fail; and what getBuffers has put  *)
(* is given though getBuffers then stops.                                  *)
Complete(t) == \A d \in BufIds : expSequence[<<t, d>>] = Len(Messages[<<t, d>>])

Given(t) == \A d \in BufIds : \E n \in 1..Len(given) : BeginsWith(given[n], t, d)

=============================================================================

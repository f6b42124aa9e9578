---------------------------- MODULE EtAssembler ----------------------------
(***************************************************************************)
(* getBuffers of ejfat_assemble_ersap_et.hpp: the endless loop that reads  *)
(* UDP packets of several ticks and data sources, lays the data of each    *)
(* tick and source in a buffer of its own, and hands the entry with all    *)
(* buffers of a tick to the ET system once every source has ended.         *)
(*                                                                         *)
(* The ET system (external) is a pool of entries.  An entry is free, held  *)
(* by this producer, queued for the consumer, or held by the consumer (the *)
(* Java receiver), which gives it back to the pool.  getBuffers keeps the  *)
(* entry of every tick in a map from which it never removes one.           *)
(***************************************************************************)
EXTENDS Integers, Sequences, FiniteSets, SequencesExt

CONSTANTS
    Ticks,          \* ticks, as numbers in the order in which they are sent
    Ids,            \* data source ids (dataId) of the packets sent
    BufIds,         \* the ids that the ET fifo was opened with
    Messages,       \* what source d sends for tick t: the lengths of its packets
    Unmarked,       \* pairs of tick and source sent with firstBuffer = false
    Overlap,        \* whether packets of a later tick may overtake a tick's
    Entries,        \* the entries of the ET fifo
    Capacity,       \* buffers in an entry
    BufSizes,       \* what et_fifo_getBufSize may return: bytes in a buffer
    MaxStored,      \* limit on the packets kept out of order (1000 in the code)
    MaxFaults,      \* bound: duplicated deliveries and lost packets together
    CallsMayFail    \* whether recvfrom, or the making of an entry, may fail

ASSUME EtAssemblerAssumption ==
    /\ Ticks \subseteq Nat /\ Ids \subseteq Nat /\ BufIds \subseteq Nat
    /\ IsFiniteSet(BufIds)
    /\ Messages \in [Ticks \X Ids -> Seq(Nat)]
    /\ Unmarked \subseteq Ticks \X Ids
    /\ Overlap \in BOOLEAN /\ CallsMayFail \in BOOLEAN
    /\ Capacity \in Nat /\ BufSizes \subseteq Nat /\ MaxStored \in Nat
    /\ MaxFaults \in Nat

NoId    == -1
NoEntry == "none"
ASSUME NoEntryAssumption == NoEntry \notin Entries

(* Packet number i of what source d sends for tick t.                      *)
Packet(t, d, i) ==
    [tick  |-> t,
     id    |-> d,
     seq   |-> i,
     first |-> i = 0 /\ <<t, d>> \notin Unmarked,
     last  |-> i = Len(Messages[<<t, d>>]) - 1,
     len   |-> Messages[<<t, d>>][i + 1]]

MessageOf(t, d) == [i \in DOMAIN Messages[<<t, d>>] |-> Packet(t, d, i - 1)]

Sent == UNION {{Packet(t, d, i) : i \in 0..(Len(Messages[<<t, d>>]) - 1)} :
                   t \in Ticks, d \in Ids}

VARIABLES
    net, dups, losses,  \* packets under way; duplications and losses so far
    bufSizeMax,         \* bytes in a buffer
    pc,                 \* where the routine is: see PCs
    ret,                \* what it returned
    buffers,            \* the entry of each tick
    expSequence,        \* next expected sequence of each tick and source
    endCondition,       \* the keys of the map endCondition (its values are true)
    stored,             \* outOfOrderPackets
    cur,                \* the packet placed last: tick, dataId and sequence
    owner,              \* who has each entry of the ET fifo
    bufs,               \* the buffers of each entry: source id and packets
    garbled,            \* packets whose data was read after it was freed
    put                 \* the ticks whose entry has been put (history)

netVars == <<net, dups, losses>>
mapVars == <<buffers, expSequence, endCondition, stored>>
etVars  == <<owner, bufs>>
vars    == <<netVars, bufSizeMax, pc, ret, mapVars, cur, etVars, garbled, put>>

(* "recv": in recvfrom; "drain": the packet after cur is stored; "put": the*)
(* tick of cur is complete; "stopped": returned; "threw": an exception was *)
(* thrown.                                                                 *)
PCs == {"recv", "drain", "put", "stopped", "threw"}

NoPacket == [tick |-> 0, id |-> NoId, seq |-> 0, first |-> FALSE, last |-> FALSE, len |-> 0]

Unused   == [id |-> NoId, pkts |-> <<>>]
NewEntry == [i \in 1..Capacity |-> Unused]

(* It returns at once unless the fifo was opened with the sources' ids.    *)
Init ==
    /\ net = Sent /\ dups = 0 /\ losses = 0
    /\ bufSizeMax \in BufSizes
    /\ pc = IF BufIds = {} THEN "stopped" ELSE "recv"
    /\ ret = IF BufIds = {} THEN "NO_IDS" ELSE "none"
    /\ buffers = [t \in Ticks |-> NoEntry]
    /\ expSequence = [s \in Ticks \X Ids |-> 0]
    /\ endCondition = {}
    /\ stored = {}
    /\ cur = NoPacket
    /\ owner = [e \in Entries |-> "free"]
    /\ bufs = [e \in Entries |-> NewEntry]
    /\ garbled = {}
    /\ put = {}

-----------------------------------------------------------------------------
(* The network.                                                            *)

Lose(p) ==
    /\ pc = "recv"
    /\ dups + losses < MaxFaults
    /\ losses' = losses + 1
    /\ net' = net \ {p}
    /\ UNCHANGED <<dups, bufSizeMax, pc, ret, mapVars, cur, etVars, garbled, put>>

(* recvfrom takes p off the network; a duplicate of it may still be there. *)
Arrive(p) ==
    /\ pc = "recv"
    /\ Overlap \/ \A q \in net : q.tick >= p.tick
    /\ \/ net' = net \ {p} /\ dups' = dups
       \/ dups + losses < MaxFaults /\ dups' = dups + 1 /\ net' = net
    /\ losses' = losses
    /\ bufSizeMax' = bufSizeMax

RecvFails ==
    /\ pc = "recv"
    /\ CallsMayFail
    /\ pc' = "stopped"
    /\ ret' = "RECV"
    /\ UNCHANGED <<netVars, bufSizeMax, mapVars, cur, etVars, garbled, put>>

-----------------------------------------------------------------------------
(* The entry and the buffer a packet belongs to.                           *)

Throw ==
    /\ pc' = "threw"
    /\ ret' = "none"

(* The entry of p's tick; for the first packet of a tick a free one, for   *)
(* which et_fifo_newEntry waits.                                           *)
Locate(p, e) ==
    /\ Arrive(p)
    /\ \/ /\ buffers[p.tick] = e
          /\ UNCHANGED <<buffers, owner>>
       \/ /\ buffers[p.tick] = NoEntry
          /\ owner[e] = "free"
          /\ buffers' = [buffers EXCEPT ![p.tick] = e]
          /\ owner' = [owner EXCEPT ![e] = "producer"]

(* Or there is no memory for an entry, or et_fifo_newEntry fails.          *)
NoNewEntry(p) ==
    /\ Arrive(p)
    /\ CallsMayFail
    /\ buffers[p.tick] = NoEntry
    /\ Throw
    /\ UNCHANGED <<mapVars, cur, etVars, garbled, put>>

Fails == RecvFails \/ \E p \in net : NoNewEntry(p)

EntryOf(p, e) == IF buffers[p.tick] = e THEN bufs[e] ELSE NewEntry

(* et_fifo_getBuf: the buffer of source d, or the first unused one.        *)
Usable(entry, d) == {i \in DOMAIN entry : entry[i].id \in {d, NoId}}

GetBuf(entry, d) ==
    CHOOSE i \in Usable(entry, d) : \A j \in Usable(entry, d) : i <= j

Bytes(pkts) == FoldSeq(LAMBDA p, sum : p.len + sum, 0, pkts)

HasRoom(p, entry) == Bytes(entry[GetBuf(entry, p.id)].pkts) + p.len <= bufSizeMax

NoBuffer(p, e) ==
    /\ Locate(p, e)
    /\ Usable(EntryOf(p, e), p.id) = {}
    /\ bufs' = [bufs EXCEPT ![e] = EntryOf(p, e)]
    /\ Throw
    /\ UNCHANGED <<expSequence, endCondition, stored, cur, garbled, put>>

(* Room is looked for only if the entry was there before, and before the   *)
(* packet's sequence number is looked at.                                  *)
NoRoom(p, e) ==
    /\ Locate(p, e)
    /\ buffers[p.tick] = e
    /\ Usable(bufs[e], p.id) # {}
    /\ ~HasRoom(p, bufs[e])
    /\ bufs' = [bufs EXCEPT ![e][GetBuf(bufs[e], p.id)].id = p.id]
    /\ Throw
    /\ UNCHANGED <<expSequence, endCondition, stored, cur, garbled, put>>

(* The buffer is found, marked as its source's, and there is room.         *)
Found(p, e) ==
    /\ Locate(p, e)
    /\ Usable(EntryOf(p, e), p.id) # {}
    /\ buffers[p.tick] = e => HasRoom(p, bufs[e])

Marked(p, e) == [EntryOf(p, e) EXCEPT ![GetBuf(EntryOf(p, e), p.id)].id = p.id]

-----------------------------------------------------------------------------
(* A packet that is not placed.                                            *)

BadFirstBit(p) == p.first # (p.seq = 0)

NotPlaced(p, e) ==
    /\ Found(p, e)
    /\ bufs' = [bufs EXCEPT ![e] = Marked(p, e)]
    /\ UNCHANGED <<expSequence, endCondition, cur, garbled, put>>

ReturnError(code) ==
    /\ pc' = "stopped"
    /\ ret' = code
    /\ UNCHANGED stored

ReadBadFirstBit(p, e) ==
    /\ NotPlaced(p, e)
    /\ BadFirstBit(p)
    /\ ReturnError("BAD_FIRST_LAST_BIT")

ReadAgain(p, e) ==
    /\ NotPlaced(p, e)
    /\ ~BadFirstBit(p)
    /\ p.seq < expSequence[<<p.tick, p.id>>]
    /\ ReturnError("OUT_OF_ORDER")

ReadButMapFull(p, e) ==
    /\ NotPlaced(p, e)
    /\ ~BadFirstBit(p)
    /\ p.seq > expSequence[<<p.tick, p.id>>]
    /\ Cardinality(stored) >= MaxStored
    /\ ReturnError("OUT_OF_ORDER")

(* emplace does nothing if the packet is stored already.                   *)
ReadAndStore(p, e) ==
    /\ NotPlaced(p, e)
    /\ ~BadFirstBit(p)
    /\ p.seq > expSequence[<<p.tick, p.id>>]
    /\ Cardinality(stored) < MaxStored
    /\ stored' = stored \union {p}
    /\ UNCHANGED <<pc, ret>>

-----------------------------------------------------------------------------
(* Placing a packet: one turn of the inner loop.                           *)

(* Variant, not the code: any source's end ends the tick.                  *)
AnyLastBitReceived(t, ended) == ended # {}

(* allLastBitsReceived: as many entries, of whatever tick, as there are    *)
(* sources, and none of this tick for which bufIds.count(id == 0) is not 0.*)
AllLastBitsReceived(t, ended) ==
    /\ Cardinality(ended) = Cardinality(BufIds)
    /\ \A end \in ended :
           end[1] = t => (IF end[2] = 0 THEN 1 ELSE 0) \notin BufIds

(* Variant, not the code: looked for before expectedSequence is advanced.  *)
NextIsStoredStale(p) ==
    \E q \in stored : q.tick = p.tick /\ q.id = p.id /\ q.seq = p.seq

NextIsStored(p) ==
    \E q \in stored : q.tick = p.tick /\ q.id = p.id /\ q.seq = p.seq + 1

(* p is copied to the end of buffer i of entry e, which is "entry" now.    *)
Copy(p, e, entry, i) ==
    /\ bufs' = [bufs EXCEPT ![e] = [entry EXCEPT ![i].pkts = Append(@, p)]]
    /\ expSequence' = [expSequence EXCEPT ![<<p.tick, p.id>>] = p.seq + 1]
    /\ cur' = p
    /\ ret' = ret
    /\ LET ended == IF p.last THEN endCondition \union {<<p.tick, p.id>>} ELSE endCondition
       IN  \/ /\ p.last /\ AllLastBitsReceived(p.tick, ended)
              /\ endCondition' = {end \in ended : end[1] # p.tick}
              /\ pc' = "put"
           \/ /\ ~(p.last /\ AllLastBitsReceived(p.tick, ended))
              /\ endCondition' = ended
              /\ pc' = IF NextIsStored(p) THEN "drain" ELSE "recv"
    /\ put' = put

(* Variants, not the code: a packet that comes early is placed at once; a  *)
(* packet placed before is placed once more.                               *)
ReadInOrderAny(p, e) ==
    /\ Found(p, e)
    /\ ~BadFirstBit(p)
    /\ p.seq >= expSequence[<<p.tick, p.id>>]
    /\ Copy(p, e, Marked(p, e), GetBuf(EntryOf(p, e), p.id))
    /\ UNCHANGED <<stored, garbled>>

ReadInOrderAgain(p, e) ==
    /\ Found(p, e)
    /\ ~BadFirstBit(p)
    /\ p.seq <= expSequence[<<p.tick, p.id>>]
    /\ Copy(p, e, Marked(p, e), GetBuf(EntryOf(p, e), p.id))
    /\ UNCHANGED <<stored, garbled>>

ReadInOrder(p, e) ==
    /\ Found(p, e)
    /\ ~BadFirstBit(p)
    /\ p.seq = expSequence[<<p.tick, p.id>>]
    /\ Copy(p, e, Marked(p, e), GetBuf(EntryOf(p, e), p.id))
    /\ UNCHANGED <<stored, garbled>>

(* The stored packet after cur.  It is erased from the map first, which    *)
(* frees its data, and then copied: what is copied is its data, if the     *)
(* memory has not been touched, or not.                                    *)
TheEntry == buffers[cur.tick]
ThePlace == GetBuf(bufs[TheEntry], cur.id)

IsNext(q) == q.tick = cur.tick /\ q.id = cur.id /\ q.seq = cur.seq + 1

DrainNoRoom(q) ==
    /\ pc = "drain"
    /\ IsNext(q)
    /\ stored' = stored \ {q}
    /\ ~HasRoom(q, bufs[TheEntry])
    /\ Throw
    /\ UNCHANGED <<netVars, bufSizeMax, buffers, expSequence, endCondition, cur, etVars, garbled, put>>

Drain(q) ==
    /\ pc = "drain"
    /\ IsNext(q)
    /\ stored' = stored \ {q}
    /\ HasRoom(q, bufs[TheEntry])
    /\ Copy(q, TheEntry, bufs[TheEntry], ThePlace)
    /\ garbled' \in {garbled, garbled \union {q}}
    /\ UNCHANGED <<netVars, bufSizeMax, buffers, owner>>

(* et_fifo_putEntry: the entry goes to the consumer.                       *)
PutEntry ==
    /\ pc = "put"
    /\ owner' = [owner EXCEPT ![TheEntry] = "queued"]
    /\ put' = put \union {cur.tick}
    /\ pc' = "recv"
    /\ UNCHANGED <<netVars, bufSizeMax, ret, mapVars, cur, bufs, garbled>>

-----------------------------------------------------------------------------
(* The consumer of the entries: fifo.getEntry and fifo.putEntry.           *)

GetEntry(e) ==
    /\ owner[e] = "queued"
    /\ owner' = [owner EXCEPT ![e] = "consumer"]
    /\ UNCHANGED <<netVars, bufSizeMax, pc, ret, mapVars, cur, bufs, garbled, put>>

GiveBack(e) ==
    /\ owner[e] = "consumer"
    /\ owner' = [owner EXCEPT ![e] = "free"]
    /\ UNCHANGED <<netVars, bufSizeMax, pc, ret, mapVars, cur, bufs, garbled, put>>

-----------------------------------------------------------------------------
Read == \E p \in net, e \in Entries :
            \/ NoBuffer(p, e) \/ NoRoom(p, e)
            \/ ReadBadFirstBit(p, e) \/ ReadAgain(p, e) \/ ReadButMapFull(p, e)
            \/ ReadAndStore(p, e) \/ ReadInOrder(p, e)

DrainNext == \E q \in stored : Drain(q) \/ DrainNoRoom(q)

Routine == Read \/ DrainNext \/ PutEntry

Consumer(e) == GetEntry(e) \/ GiveBack(e)

Next == Routine \/ Fails \/ (\E p \in net : Lose(p)) \/ \E e \in Entries : Consumer(e)

Spec == Init /\ [][Next]_vars
-----------------------------------------------------------------------------
(* Type invariant of getBuffers's variables and of the ET system's.        *)
TypeOK ==
    /\ net \subseteq Sent
    /\ dups \in Nat /\ losses \in Nat /\ dups + losses <= MaxFaults
    /\ bufSizeMax \in BufSizes
    /\ pc \in PCs
    /\ ret \in {"none", "NO_IDS", "RECV", "OUT_OF_ORDER", "BAD_FIRST_LAST_BIT"}
    /\ buffers \in [Ticks -> Entries \union {NoEntry}]
    /\ expSequence \in [Ticks \X Ids -> Nat]
    /\ endCondition \subseteq Ticks \X Ids
    /\ stored \subseteq Sent /\ Cardinality(stored) <= MaxStored
    /\ cur \in Sent \union {NoPacket}
    /\ owner \in [Entries -> {"free", "producer", "queued", "consumer"}]
    /\ bufs \in [Entries -> [1..Capacity -> [id : Ids \union {NoId}, pkts : Seq(Sent)]]]
    /\ garbled \subseteq Sent
    /\ put \subseteq Ticks

(* While it waits in recvfrom, every stored packet is one whose turn, among*)
(* the packets of its own tick and source, is still to come: none is ever  *)
(* left behind in the map, whatever the other ticks and sources do.        *)
StoredAhead == pc = "recv" => \A q \in stored : q.seq > expSequence[<<q.tick, q.id>>]

(* No packet was lost and none came from a source the fifo does not know.  *)
Orderly ==
    /\ losses = 0
    /\ \A s \in Ticks \X (Ids \ BufIds) : expSequence[s] = 0

(* The buffers of a tick under construction hold the packets 0, 1, 2, ...  *)
(* of that very tick, each buffer those of one source, as many as the map  *)
(* expSequence says; nothing of another tick or source gets in between.    *)
DataIn(entry, d) ==
    IF \E i \in 1..Capacity : entry[i].id = d
      THEN entry[CHOOSE i \in 1..Capacity : entry[i].id = d].pkts
      ELSE <<>>

PlacedIn(e, d) == DataIn(bufs[e], d)

BuffersInSequence ==
    Orderly => \A t \in Ticks, d \in BufIds :
        (buffers[t] # NoEntry /\ t \notin put) =>
            PlacedIn(buffers[t], d) = SubSeq(MessageOf(t, d), 1, expSequence[<<t, d>>])

(* An entry in the queue or with the consumer has the whole data of every  *)
(* source for one tick.                                                    *)
QueuedIsWhole ==
    Orderly => \A e \in Entries : owner[e] \in {"queued", "consumer"} =>
        \E t \in put : /\ buffers[t] = e
                       /\ \A d \in BufIds : PlacedIn(e, d) = MessageOf(t, d)

(* The routine never touches the data in an entry that it has put, though  *)
(* the map of entries still leads to it from any packet of that tick.  (A  *)
(* packet of a source the fifo does not know may still take a buffer there,*)
(* if there is one left.)                                                  *)
LeavesQueuedAlone ==
    [][\A e \in Entries, d \in BufIds :
          (Orderly /\ owner[e] \in {"queued", "consumer"}) =>
              PlacedIn(e, d)' = PlacedIn(e, d)]_vars

(* An entry is put when "all data sources for given tick have set the last *)
(* bit", also while packets of other ticks arrive.                         *)
AllSourcesEnded ==
    pc = "put" => \A d \in BufIds :
        expSequence[<<cur.tick, d>>] = Len(Messages[<<cur.tick, d>>])

(* "This routine allows for out-of-order packets": what it copies from the *)
(* map is the data of the packet.                                          *)
CopiesWhatCame == garbled = {}
=============================================================================

-------------------------- MODULE EtReceiverProofs --------------------------
(***************************************************************************)
(* Proofs about EtAssembler and EtReceiver, for any number of ticks,       *)
(* sources, entries and buffers, and messages of any length.               *)
(***************************************************************************)
EXTENDS EtReceiver, WellFoundedInduction, FiniteSetTheorems, TLAPS

(* An entry as getBuffers leaves it: its buffers are taken from the first  *)
(* on, each by another source, and one not taken is empty.                 *)
Entry == [1..Capacity -> [id : Ids \union {NoId}, pkts : Seq(Sent)]]

WellFormed(ent) ==
    /\ ent \in Entry
    /\ \A i \in 1..Capacity : ent[i].id = NoId => ent[i].pkts = <<>>
    /\ \A i, j \in 1..Capacity :
           (i < j /\ ent[j].id # NoId) => ent[i].id # NoId /\ ent[i].id # ent[j].id

Has(ent, d) == \E i \in 1..Capacity : ent[i].id = d

-----------------------------------------------------------------------------
(* A set of natural numbers that is not empty has a least one.             *)
LEMMA LeastNumber ==
    ASSUME NEW T, T \subseteq Nat, T # {}
    PROVE  \E m \in T : \A k \in T : m <= k
<1>1. PICK m \in T : \A k \in T : <<k, m>> \notin {ss \in Nat \X Nat : ss[1] < ss[2]}
  BY NatLessThanWellFounded, WFMin DEF OpToRel
<1>2. \A k \in T : ~(k < m)
  BY <1>1
<1> QED
  BY <1>2

(* What a packet says of itself is true.                                   *)
LEMMA SentFields ==
    ASSUME NEW p \in Sent
    PROVE  /\ p.tick \in Ticks /\ p.id \in Ids /\ p.tick \in Nat /\ p.id \in Nat
           /\ Messages[<<p.tick, p.id>>] \in Seq(Nat)
           /\ p.seq \in 0..(Len(Messages[<<p.tick, p.id>>]) - 1)
           /\ p = Packet(p.tick, p.id, p.seq)
           /\ p.last <=> p.seq = Len(Messages[<<p.tick, p.id>>]) - 1
           /\ p.last \in BOOLEAN
<1> DEFINE From(t, d) == {Packet(t, d, i) : i \in 0..(Len(Messages[<<t, d>>]) - 1)}
<1>1. Sent = UNION {From(t, d) : t \in Ticks, d \in Ids}
  BY DEF Sent
<1> HIDE DEF From
<1>2. \E S \in {From(t, d) : t \in Ticks, d \in Ids} : p \in S
  BY <1>1
<1>3. PICK t \in Ticks, d \in Ids : p \in From(t, d)
  BY <1>2
<1>4. PICK i \in 0..(Len(Messages[<<t, d>>]) - 1) : p = Packet(t, d, i)
  BY <1>3 DEF From
<1>5. p.tick = t /\ p.id = d /\ p.seq = i /\ p.last = (i = Len(Messages[<<t, d>>]) - 1)
  BY <1>4 DEF Packet
<1>6. Messages[<<t, d>>] \in Seq(Nat) /\ t \in Nat /\ d \in Nat
  BY EtAssemblerAssumption
<1>7. p = Packet(p.tick, p.id, p.seq)
  BY <1>4, <1>5
<1>8. p.last \in BOOLEAN /\ (p.last <=> p.seq = Len(Messages[<<p.tick, p.id>>]) - 1)
  BY <1>5
<1> QED
  BY <1>5, <1>6, <1>7, <1>8

(* The message of a source for a tick is a sequence of packets.            *)
LEMMA MessageFields ==
    ASSUME NEW t \in Ticks, NEW d \in Ids
    PROVE  /\ MessageOf(t, d) \in Seq(Sent)
           /\ Len(MessageOf(t, d)) = Len(Messages[<<t, d>>])
           /\ Len(Messages[<<t, d>>]) \in Nat
           /\ \A i \in 1..Len(Messages[<<t, d>>]) : MessageOf(t, d)[i] = Packet(t, d, i - 1)
<1> DEFINE n == Len(Messages[<<t, d>>])
<1>1. Messages[<<t, d>>] \in Seq(Nat)
  BY EtAssemblerAssumption
<1>2. n \in Nat /\ DOMAIN Messages[<<t, d>>] = 1..n
  BY <1>1
<1>3. \A i \in 1..n : Packet(t, d, i - 1) \in Sent
  <2> TAKE i \in 1..n
  <2>1. i - 1 \in 0..(Len(Messages[<<t, d>>]) - 1)
    BY <1>2
  <2> DEFINE From(tt, dd) == {Packet(tt, dd, k) : k \in 0..(Len(Messages[<<tt, dd>>]) - 1)}
  <2>2. Packet(t, d, i - 1) \in From(t, d)
    BY <2>1
  <2>3. Sent = UNION {From(tt, dd) : tt \in Ticks, dd \in Ids}
    BY DEF Sent
  <2>4. From(t, d) \in {From(tt, dd) : tt \in Ticks, dd \in Ids}
    OBVIOUS
  <2> HIDE DEF From
  <2> QED
    BY <2>2, <2>3, <2>4
<1>4. MessageOf(t, d) = [i \in 1..n |-> Packet(t, d, i - 1)]
  BY <1>2 DEF MessageOf
<1> HIDE DEF n
<1>5. MessageOf(t, d) \in [1..n -> Sent]
  BY <1>3, <1>4
<1>6. MessageOf(t, d) \in Seq(Sent) /\ Len(MessageOf(t, d)) = n
  BY <1>2, <1>5
<1> QED
  BY <1>2, <1>4, <1>6 DEF n

-----------------------------------------------------------------------------
(* The buffer of a source is where the entry has one for it.               *)
LEMMA DataIs ==
    ASSUME NEW ent, WellFormed(ent), NEW d \in Ids, NEW i \in 1..Capacity, ent[i].id = d
    PROVE  DataIn(ent, d) = ent[i].pkts
<1> DEFINE c == CHOOSE j \in 1..Capacity : ent[j].id = d
<1>1. c \in 1..Capacity /\ ent[c].id = d
  OBVIOUS
<1>2. d # NoId
  BY EtAssemblerAssumption DEF NoId
<1>3. c = i
  BY <1>1, <1>2 DEF WellFormed
<1> QED
  BY <1>3 DEF DataIn

(* A new entry holds nothing.                                              *)
LEMMA NewIsEmpty ==
    /\ WellFormed(NewEntry)
    /\ \A d \in Ids : ~Has(NewEntry, d) /\ DataIn(NewEntry, d) = <<>>
<1>1. NewEntry \in Entry
  BY DEF NewEntry, Entry, Unused
<1>2. \A i \in 1..Capacity : NewEntry[i].id = NoId /\ NewEntry[i].pkts = <<>>
  BY DEF NewEntry, Unused
<1> QED
  BY EtAssemblerAssumption, <1>1, <1>2 DEF WellFormed, Has, DataIn, NoId

(* et_fifo_getBuf finds the buffer of the source, or the first not taken.  *)
LEMMA GetBufIs ==
    ASSUME NEW ent, WellFormed(ent), NEW d \in Ids, Usable(ent, d) # {}
    PROVE  /\ GetBuf(ent, d) \in 1..Capacity
           /\ ent[GetBuf(ent, d)].id \in {d, NoId}
           /\ \A j \in 1..Capacity : j < GetBuf(ent, d) => ent[j].id \notin {d, NoId}
           /\ Has(ent, d) => ent[GetBuf(ent, d)].id = d
<1> DEFINE g == GetBuf(ent, d)
<1>1. DOMAIN ent = 1..Capacity
  BY DEF WellFormed, Entry
<1>2. Usable(ent, d) \subseteq 1..Capacity
  BY <1>1 DEF Usable
<1>3. \E m \in Usable(ent, d) : \A k \in Usable(ent, d) : m <= k
  BY <1>2, LeastNumber
<1>4. g \in Usable(ent, d) /\ \A k \in Usable(ent, d) : g <= k
  BY <1>3 DEF GetBuf
<1>5. g \in 1..Capacity /\ ent[g].id \in {d, NoId}
  BY <1>2, <1>4 DEF Usable
<1>6. \A j \in 1..Capacity : j < g => ent[j].id \notin {d, NoId}
  BY <1>1, <1>4, <1>5 DEF Usable
<1>7. ASSUME Has(ent, d) PROVE ent[g].id = d
  <2>1. PICK i \in 1..Capacity : ent[i].id = d
    BY <1>7 DEF Has
  <2>2. d # NoId
    BY EtAssemblerAssumption DEF NoId
  <2>3. i \in Usable(ent, d)
    BY <1>1, <2>1 DEF Usable
  <2>4. g <= i
    BY <1>4, <2>3
  <2> HIDE DEF g
  <2> QED
    BY <1>5, <2>1, <2>2, <2>4 DEF WellFormed
<1> QED
  BY <1>5, <1>6, <1>7

(* What a step of getBuffers does to an entry: no buffer changes hands.    *)
Keeps(old, new) ==
    /\ WellFormed(new)
    /\ \A i \in 1..Capacity : old[i].id # NoId => new[i].id = old[i].id

(* Marking the buffer that et_fifo_getBuf finds adds no data.              *)
LEMMA MarkKeeps ==
    ASSUME NEW ent, WellFormed(ent), NEW d \in Ids, Usable(ent, d) # {},
           NEW m, m = [ent EXCEPT ![GetBuf(ent, d)].id = d]
    PROVE  /\ Keeps(ent, m)
           /\ GetBuf(ent, d) \in 1..Capacity /\ m[GetBuf(ent, d)].id = d
           /\ \A k \in Ids : DataIn(m, k) = DataIn(ent, k)
<1> DEFINE g == GetBuf(ent, d)
<1>1. /\ g \in 1..Capacity /\ ent[g].id \in {d, NoId}
      /\ \A j \in 1..Capacity : j < g => ent[j].id \notin {d, NoId}
  BY GetBufIs
<1>2. d # NoId /\ NoId \notin Ids /\ Capacity \in Nat
  BY EtAssemblerAssumption DEF NoId
<1> HIDE DEF g
<1>3. m = [ent EXCEPT ![g] = [ent[g] EXCEPT !.id = d]]
  BY DEF g
<1>4. ent \in Entry
  BY DEF WellFormed
<1>5. /\ m \in Entry
      /\ m[g].id = d /\ m[g].pkts = ent[g].pkts
      /\ \A i \in 1..Capacity : i # g => m[i] = ent[i]
  BY ZenonT(40), <1>1, <1>3, <1>4 DEF Entry
<1>6. \A i \in 1..Capacity : m[i].id = NoId => m[i].pkts = <<>>
  BY <1>2, <1>5 DEF WellFormed
<1>7. ASSUME NEW i \in 1..Capacity, NEW j \in 1..Capacity, i < j, m[j].id # NoId
      PROVE  m[i].id # NoId /\ m[i].id # m[j].id
  <2>1. CASE j = g
    BY ZenonT(40), <1>1, <1>2, <1>5, <1>7, <2>1 DEF WellFormed
  <2>2. CASE i = g
    <3>1. m[j] = ent[j] /\ m[i].id = d /\ ent[j].id # NoId
      BY <1>1, <1>5, <1>7, <2>2
    <3>2. ent[i].id # NoId /\ ent[i].id # ent[j].id
      BY <1>7, <3>1 DEF WellFormed
    <3> QED
      BY <1>1, <1>2, <2>2, <3>1, <3>2
  <2>3. CASE i # g /\ j # g
    BY ZenonT(40), <1>5, <1>7, <2>3 DEF WellFormed
  <2> QED
    BY <2>1, <2>2, <2>3
<1>8. WellFormed(m)
  BY <1>5, <1>6, <1>7 DEF WellFormed
<1>9. ASSUME NEW k \in Ids PROVE DataIn(m, k) = DataIn(ent, k)
  <2>1. CASE \E i \in 1..Capacity : ent[i].id = k
    <3>1. PICK i \in 1..Capacity : ent[i].id = k
      BY <2>1
    <3>2. m[i].id = k /\ m[i].pkts = ent[i].pkts
      BY <1>1, <1>2, <1>5, <3>1
    <3>3. DataIn(m, k) = m[i].pkts
      BY <1>8, <3>2, DataIs
    <3>4. DataIn(ent, k) = ent[i].pkts
      BY <3>1, DataIs
    <3> QED
      BY <3>2, <3>3, <3>4
  <2>2. CASE ~\E i \in 1..Capacity : ent[i].id = k
    <3>1. DataIn(ent, k) = <<>>
      BY <2>2 DEF DataIn
    <3>2. CASE k = d
      <4>1. ent[g].id = NoId
        BY <1>1, <2>2, <3>2
      <4>2. m[g].pkts = <<>>
        BY <1>1, <1>5, <4>1 DEF WellFormed
      <4>3. DataIn(m, k) = m[g].pkts
        BY <1>1, <1>5, <1>8, <3>2, DataIs
      <4> QED
        BY <3>1, <4>2, <4>3
    <3>3. CASE k # d
      <4>1. ~\E i \in 1..Capacity : m[i].id = k
        BY <1>5, <2>2, <3>3
      <4> QED
        BY <3>1, <4>1 DEF DataIn
    <3> QED
      BY <3>2, <3>3
  <2> QED
    BY <2>1, <2>2
<1>10. \A i \in 1..Capacity : ent[i].id # NoId => m[i].id = ent[i].id
  BY <1>1, <1>5
<1> QED
  BY <1>1, <1>5, <1>8, <1>9, <1>10 DEF Keeps, g

(* A packet that is copied to the end of its source's buffer.              *)
Appended(ent, i, p) == [ent EXCEPT ![i].pkts = Append(@, p)]

LEMMA AppendData ==
    ASSUME NEW ent, WellFormed(ent), NEW i \in 1..Capacity, NEW p \in Sent,
           ent[i].id = p.id,
           NEW a, a = Appended(ent, i, p)
    PROVE  /\ Keeps(ent, a)
           /\ Has(a, p.id)
           /\ DataIn(a, p.id) = Append(DataIn(ent, p.id), p)
           /\ \A k \in Ids : k # p.id => DataIn(a, k) = DataIn(ent, k)
<1>1. p.id \in Ids /\ p.id # NoId
  <2>1. p.id \in Ids /\ p.id \in Nat
    BY SentFields
  <2> QED
    BY <2>1 DEF NoId
<1>2. ent \in Entry
  BY DEF WellFormed
<1>3. a = [ent EXCEPT ![i] = [ent[i] EXCEPT !.pkts = Append(ent[i].pkts, p)]]
  BY DEF Appended
<1>4. Append(ent[i].pkts, p) \in Seq(Sent)
  BY <1>2 DEF Entry
<1>5. /\ a \in Entry
      /\ a[i].id = p.id /\ a[i].pkts = Append(ent[i].pkts, p)
      /\ \A j \in 1..Capacity : j # i => a[j] = ent[j]
      /\ \A j \in 1..Capacity : a[j].id = ent[j].id
  BY <1>2, <1>3, <1>4 DEF Entry
<1>6. WellFormed(a)
  BY <1>1, <1>5 DEF WellFormed
<1>7. DataIn(a, p.id) = Append(DataIn(ent, p.id), p)
  BY <1>1, <1>5, <1>6, DataIs
<1>8. ASSUME NEW k \in Ids, k # p.id PROVE DataIn(a, k) = DataIn(ent, k)
  <2>1. CASE \E j \in 1..Capacity : ent[j].id = k
    <3>1. PICK j \in 1..Capacity : ent[j].id = k
      BY <2>1
    <3>2. a[j].id = k /\ a[j].pkts = ent[j].pkts
      BY <1>5, <1>8, <3>1
    <3>3. DataIn(a, k) = a[j].pkts
      BY <1>6, <3>2, DataIs
    <3>4. DataIn(ent, k) = ent[j].pkts
      BY <3>1, DataIs
    <3> QED
      BY <3>2, <3>3, <3>4
  <2>2. CASE ~\E j \in 1..Capacity : ent[j].id = k
    BY <1>5, <2>2 DEF DataIn
  <2> QED
    BY <2>1, <2>2
<1> QED
  BY <1>5, <1>6, <1>7, <1>8 DEF Keeps, Has

-----------------------------------------------------------------------------
(* The inductive invariant of getBuffers, first what holds whatever the    *)
(* network does.                                                           *)

Running == pc \in {"recv", "drain", "put"}

(* cur is placed, and the map of entries leads to the buffer it is in.     *)
CurIsPlaced ==
    /\ pc \in {"drain", "put"} =>
           /\ cur \in Sent
           /\ expSequence[<<cur.tick, cur.id>>] = cur.seq + 1
           /\ buffers[cur.tick] \in Entries
           /\ Has(bufs[buffers[cur.tick]], cur.id)
    /\ pc = "drain" => \E q \in stored : IsNext(q)

(* A stored packet waits for its turn, or it is the one about to be placed.*)
StoredWaits ==
    Running => \A q \in stored :
        \/ q.seq > expSequence[<<q.tick, q.id>>]
        \/ pc = "drain" /\ IsNext(q)

Basic ==
    /\ TypeOK
    /\ IsFiniteSet(stored) /\ IsFiniteSet(endCondition)
    /\ \A e \in Entries : WellFormed(bufs[e])
    /\ \A e \in Entries : owner[e] \in {"queued", "consumer"} => Capacity > 0
    /\ \A s \in Ticks \X Ids : expSequence[s] <= Len(Messages[s])
    /\ CurIsPlaced
    /\ StoredWaits

(* Then what holds as long as no tick is overtaken by a later one and every*)
(* source sends something for every tick.                                  *)
OneTickAtATime ==
    /\ ~Overlap
    /\ BufIds \subseteq Ids
    /\ \A t \in Ticks, d \in BufIds : Messages[<<t, d>>] # <<>>

Whole(t) == \A d \in BufIds : expSequence[<<t, d>>] = Len(Messages[<<t, d>>])

(* The ticks that getBuffers takes for complete.                           *)
Closed == put \union (IF pc = "put" THEN {cur.tick} ELSE {})

(* What is still under way is not of a tick before one that has an entry,  *)
(* and a tick for which something was placed has one.                      *)
InOrderOfTicks ==
    /\ \A t \in Ticks : buffers[t] # NoEntry => \A q \in net : q.tick >= t
    /\ \A s \in Ticks \X Ids : expSequence[s] > 0 => buffers[s[1]] # NoEntry
    /\ \A t \in put : buffers[t] # NoEntry

(* No packet of the sources is lost: it is under way, stored or placed.    *)
NothingMissing ==
    \A p \in Sent : p.id \in BufIds =>
        p \in net \/ p \in stored \/ p.seq < expSequence[<<p.tick, p.id>>]

(* A tick that has been overtaken is whole, and so is one that was closed. *)
WholeBefore ==
    /\ \A t, u \in Ticks : (t < u /\ buffers[u] # NoEntry) => Whole(t)
    /\ \A t \in Closed : Whole(t)

(* endCondition has the sources that have ended, of the ticks not closed.  *)
EndsAreOfOpenTicks ==
    \A t \in Ticks, d \in Ids :
        <<t, d>> \in endCondition <=>
            /\ d \in BufIds /\ t \notin Closed
            /\ expSequence[<<t, d>>] = Len(Messages[<<t, d>>])

(* An entry is the producer's until its tick is put, and is not taken for  *)
(* another tick before.                                                    *)
OwnEntries ==
    /\ \A t \in Ticks : (buffers[t] # NoEntry /\ t \notin put) => owner[buffers[t]] = "producer"
    /\ \A t, u \in Ticks :
           (t < u /\ buffers[t] = buffers[u] /\ buffers[t] # NoEntry) => t \in put
    /\ pc \in {"drain", "put"} => cur.tick \notin put

(* The last tick that the entry e was taken for.                           *)
IsLatest(t, e) ==
    /\ t \in Ticks /\ buffers[t] = e
    /\ \A u \in Ticks : buffers[u] = e => u <= t

LatestIsQueued ==
    \A e \in Entries : owner[e] \in {"queued", "consumer"} =>
        \E t \in put : IsLatest(t, e) /\ \A d \in BufIds : PlacedIn(e, d) = MessageOf(t, d)

EtInv ==
    /\ Basic
    /\ InOrderOfTicks
    /\ (Orderly /\ Running) => NothingMissing /\ WholeBefore /\ EndsAreOfOpenTicks
    /\ Orderly => OwnEntries /\ LatestIsQueued
    /\ BuffersInSequence

(* The receiver publishes the buffers of an entry that the ET system lets  *)
(* it have, and of no tick twice: while the entry still has the data of a  *)
(* tick that was published, it is not handed to the receiver again.        *)
HoldsItsEntry ==
    stage \in {"publish", "give"} => entry \in Entries /\ owner[entry] = "consumer"

PublishedIsPast ==
    \A n \in 1..Len(published), t \in Ticks :
        (/\ fifoIds[n] \in BufIds
         /\ BeginsWith(n, t, fifoIds[n])
         /\ IsLatest(t, buffers[t])) =>
            /\ owner[buffers[t]] # "queued"
            /\ (stage = "publish" /\ entry = buffers[t]) =>
                   \E i \in 1..idCount : bufs[entry][i].id = fifoIds[n]

(* The sources' data lie in the first buffers of an entry, as many as there*)
(* are sources, and so do the remains of them; what is published of any    *)
(* other buffer is empty.                                                  *)
InPlace(memory) == \A i \in 1..Capacity : memory[i] # <<>> => i <= Cardinality(BufIds)

Data(e) == [i \in 1..Capacity |-> bufs[e][i].pkts]

EmptyFrom(ent, i) == \A j \in 1..Capacity : i <= j => ent[j].pkts = <<>>

RemainsInPlace ==
    /\ \A e \in Entries : InPlace(remains[e])
    /\ \A e \in Entries : owner[e] = "free" => InPlace(Data(e))
    /\ stage \in {"publish", "give"} =>
           \A i \in 1..idCount : bufs[entry][i].id \in BufIds \/ EmptyFrom(bufs[entry], i)
    /\ \A n \in 1..Len(published) : fifoIds[n] = NoId => published[n] = <<>>

ERBasic ==
    /\ ERTypeOK
    /\ published \in Seq(Seq(Sent))
    /\ fifoIds \in Seq(Ids \union {NoId})
    /\ given \in Seq(Nat)
    /\ stage \in {"publish", "give"} => entry \in Entries
    /\ stage = "give" => idCount = Capacity

ERInv ==
    /\ EtInv
    /\ ERBasic
    /\ PublishedWholeAndOnce
    /\ Orderly => HoldsItsEntry /\ PublishedIsPast
    /\ (Orderly /\ ~StrangerPublished) => RemainsInPlace

-----------------------------------------------------------------------------
(* The steps of getBuffers, told by what they do: p is received; its tick  *)
(* has the entry e, or gets it; it is not placed, or it is.                *)

Receives(p) ==
    /\ pc = "recv" /\ p \in net
    /\ Overlap \/ \A q \in net : q.tick >= p.tick
    /\ net' \in {net, net \ {p}}
    /\ dups' \in Nat /\ losses' = losses /\ dups' + losses <= MaxFaults

Opens(p, e) ==
    /\ e \in Entries
    /\ \/ buffers[p.tick] = e /\ UNCHANGED <<buffers, owner>>
       \/ /\ pc = "recv" /\ buffers[p.tick] = NoEntry /\ owner[e] = "free"
          /\ buffers' = [buffers EXCEPT ![p.tick] = e]
          /\ owner' = [owner EXCEPT ![e] = "producer"]

Changes(p, e) ==
    /\ bufs' = [bufs EXCEPT ![e] = bufs'[e]]
    /\ Keeps(EntryOf(p, e), bufs'[e])
    /\ \A d \in Ids : d # p.id => DataIn(bufs'[e], d) = DataIn(EntryOf(p, e), d)

Refuses(p, e) ==
    /\ Receives(p) /\ Opens(p, e) /\ Changes(p, e)
    /\ DataIn(bufs'[e], p.id) = DataIn(EntryOf(p, e), p.id)
    /\ UNCHANGED <<bufSizeMax, expSequence, endCondition, cur, garbled, put>>
    /\ \/ /\ pc' \in {"stopped", "threw"}
          /\ ret' \in {"none", "OUT_OF_ORDER", "BAD_FIRST_LAST_BIT"}
          /\ stored' = stored
       \/ /\ pc' = "recv" /\ ret' = ret
          /\ p.seq > expSequence[<<p.tick, p.id>>]
          /\ Cardinality(stored) < MaxStored
          /\ stored' = stored \union {p}

Ended(p) == IF p.last THEN endCondition \union {<<p.tick, p.id>>} ELSE endCondition

Closes(p) == p.last /\ AllLastBitsReceived(p.tick, Ended(p))

Places(p, e) ==
    /\ \/ Receives(p) /\ UNCHANGED <<stored, garbled>>
       \/ /\ pc = "drain" /\ p \in stored /\ IsNext(p)
          /\ stored' = stored \ {p} /\ garbled' \in {garbled, garbled \union {p}}
          /\ UNCHANGED netVars
    /\ Opens(p, e) /\ Changes(p, e)
    /\ p.seq = expSequence[<<p.tick, p.id>>]
    /\ Has(bufs'[e], p.id)
    /\ DataIn(bufs'[e], p.id) = Append(DataIn(EntryOf(p, e), p.id), p)
    /\ expSequence' = [expSequence EXCEPT ![<<p.tick, p.id>>] = p.seq + 1]
    /\ cur' = p
    /\ UNCHANGED <<bufSizeMax, ret, put>>
    /\ \/ /\ Closes(p) /\ pc' = "put"
          /\ endCondition' = {end \in Ended(p) : end[1] # p.tick}
       \/ /\ ~Closes(p) /\ endCondition' = Ended(p)
          /\ pc' = IF NextIsStored(p) THEN "drain" ELSE "recv"

(* The entry of p's tick, as it is found or new.                           *)
LEMMA EntryLocated ==
    ASSUME Basic, NEW p \in net, NEW e \in Entries, Locate(p, e)
    PROVE  p \in Sent /\ WellFormed(EntryOf(p, e)) /\ Receives(p) /\ Opens(p, e)
<1>1. p \in Sent
  BY DEF Basic, TypeOK
<1>2. WellFormed(EntryOf(p, e))
  BY NewIsEmpty DEF Basic, EntryOf
<1>3. dups' \in Nat /\ dups' + losses <= MaxFaults
  <2>1. dups \in Nat /\ losses \in Nat /\ MaxFaults \in Nat /\ dups + losses <= MaxFaults
    BY EtAssemblerAssumption DEF Basic, TypeOK
  <2>2. dups' = dups \/ (dups' = dups + 1 /\ dups + losses < MaxFaults)
    BY DEF Locate, Arrive
  <2> QED
    BY <2>1, <2>2
<1>4. Receives(p)
  BY <1>3 DEF Receives, Locate, Arrive
<1>5. Opens(p, e)
  BY DEF Opens, Locate, Arrive
<1> QED
  BY <1>1, <1>2, <1>4, <1>5

LEMMA MarkedChanges ==
    ASSUME Basic, NEW p \in net, NEW e \in Entries, Locate(p, e),
           Usable(EntryOf(p, e), p.id) # {},
           bufs' = [bufs EXCEPT ![e] = Marked(p, e)]
    PROVE  Changes(p, e) /\ DataIn(bufs'[e], p.id) = DataIn(EntryOf(p, e), p.id)
<1>1. p \in Sent /\ p.id \in Ids /\ WellFormed(EntryOf(p, e))
  BY EntryLocated, SentFields
<1>2. bufs \in [Entries -> Entry]
  BY DEF Basic, TypeOK, Entry
<1>3. bufs'[e] = Marked(p, e) /\ bufs' = [bufs EXCEPT ![e] = bufs'[e]]
  BY <1>2
<1>4. /\ Keeps(EntryOf(p, e), Marked(p, e))
      /\ \A k \in Ids : DataIn(Marked(p, e), k) = DataIn(EntryOf(p, e), k)
  BY <1>1, MarkKeeps DEF Marked
<1> QED
  BY <1>1, <1>3, <1>4 DEF Changes

LEMMA ReadEffect ==
    ASSUME Basic, NEW p \in net, NEW e \in Entries
    PROVE  /\ (\/ NoBuffer(p, e) \/ NoRoom(p, e) \/ ReadBadFirstBit(p, e)
               \/ ReadAgain(p, e) \/ ReadButMapFull(p, e) \/ ReadAndStore(p, e)) => Refuses(p, e)
           /\ ReadInOrder(p, e) => Places(p, e)
<1>0. bufs \in [Entries -> Entry]
  BY DEF Basic, TypeOK, Entry
<1>1. ASSUME NoBuffer(p, e) PROVE Refuses(p, e)
  <2>1. Receives(p) /\ Opens(p, e) /\ WellFormed(EntryOf(p, e))
    BY <1>1, EntryLocated DEF NoBuffer
  <2>2. bufs'[e] = EntryOf(p, e) /\ bufs' = [bufs EXCEPT ![e] = bufs'[e]]
    BY <1>0, <1>1 DEF NoBuffer
  <2>3. Changes(p, e) /\ DataIn(bufs'[e], p.id) = DataIn(EntryOf(p, e), p.id)
    BY <2>1, <2>2 DEF Changes, Keeps
  <2> QED
    BY <1>1, <2>1, <2>3 DEF NoBuffer, Throw, Refuses, Locate, Arrive
<1>2. ASSUME NoRoom(p, e) PROVE Refuses(p, e)
  <2>1. Receives(p) /\ Opens(p, e) /\ EntryOf(p, e) = bufs[e]
    BY <1>2, EntryLocated DEF NoRoom, EntryOf
  <2>2. bufs' = [bufs EXCEPT ![e] = Marked(p, e)]
    BY <1>0, <1>2, <2>1 DEF NoRoom, Marked
  <2>3. Changes(p, e) /\ DataIn(bufs'[e], p.id) = DataIn(EntryOf(p, e), p.id)
    BY <1>2, <2>1, <2>2, MarkedChanges DEF NoRoom
  <2> QED
    BY <1>2, <2>1, <2>3 DEF NoRoom, Throw, Refuses, Locate, Arrive
<1>3. ASSUME NotPlaced(p, e)
      PROVE  /\ Receives(p) /\ Opens(p, e) /\ Changes(p, e)
             /\ DataIn(bufs'[e], p.id) = DataIn(EntryOf(p, e), p.id)
             /\ UNCHANGED <<bufSizeMax, expSequence, endCondition, cur, garbled, put>>
  <2>1. Receives(p) /\ Opens(p, e)
    BY <1>3, EntryLocated DEF NotPlaced, Found
  <2>2. Changes(p, e) /\ DataIn(bufs'[e], p.id) = DataIn(EntryOf(p, e), p.id)
    BY <1>3, MarkedChanges DEF NotPlaced, Found
  <2> QED
    BY <1>3, <2>1, <2>2 DEF NotPlaced, Found, Locate, Arrive
<1>4. ASSUME ReadBadFirstBit(p, e) \/ ReadAgain(p, e) \/ ReadButMapFull(p, e)
      PROVE  Refuses(p, e)
  BY <1>3, <1>4 DEF ReadBadFirstBit, ReadAgain, ReadButMapFull, ReturnError, Refuses
<1>5. ASSUME ReadAndStore(p, e) PROVE Refuses(p, e)
  BY <1>3, <1>5 DEF ReadAndStore, Refuses, Receives
<1>6. ASSUME ReadInOrder(p, e) PROVE Places(p, e)
  <2> DEFINE m == Marked(p, e)
             g == GetBuf(EntryOf(p, e), p.id)
  <2>1. /\ Receives(p) /\ Opens(p, e)
        /\ WellFormed(EntryOf(p, e)) /\ Usable(EntryOf(p, e), p.id) # {}
        /\ p \in Sent /\ p.id \in Ids
    BY <1>6, EntryLocated, SentFields DEF ReadInOrder, Found
  <2>2. /\ Keeps(EntryOf(p, e), m)
        /\ g \in 1..Capacity /\ m[g].id = p.id
        /\ \A k \in Ids : DataIn(m, k) = DataIn(EntryOf(p, e), k)
    BY ZenonT(40), <2>1, MarkKeeps DEF Marked
  <2>3. /\ bufs'[e] = Appended(m, g, p)
        /\ bufs' = [bufs EXCEPT ![e] = bufs'[e]]
    BY <1>0, <1>6 DEF ReadInOrder, Copy, Appended
  <2> HIDE DEF m, g
  <2>4. /\ Keeps(m, bufs'[e]) /\ Has(bufs'[e], p.id)
        /\ DataIn(bufs'[e], p.id) = Append(DataIn(m, p.id), p)
        /\ \A k \in Ids : k # p.id => DataIn(bufs'[e], k) = DataIn(m, k)
    <3>1. WellFormed(m)
      BY <2>2 DEF Keeps
    <3> QED
      BY <2>1, <2>2, <2>3, <3>1, AppendData
  <2>5. Changes(p, e)
    BY <2>2, <2>3, <2>4 DEF Changes, Keeps
  <2>6. DataIn(bufs'[e], p.id) = Append(DataIn(EntryOf(p, e), p.id), p)
    BY <2>1, <2>2, <2>4
  <2>7. p.seq = expSequence[<<p.tick, p.id>>] /\ UNCHANGED <<bufSizeMax, stored, garbled>>
    BY <1>6 DEF ReadInOrder, Found, Locate, Arrive
  <2>8. /\ expSequence' = [expSequence EXCEPT ![<<p.tick, p.id>>] = p.seq + 1]
        /\ cur' = p /\ ret' = ret /\ put' = put
        /\ \/ /\ Closes(p) /\ pc' = "put"
              /\ endCondition' = {end \in Ended(p) : end[1] # p.tick}
           \/ /\ ~Closes(p) /\ endCondition' = Ended(p)
              /\ pc' = IF NextIsStored(p) THEN "drain" ELSE "recv"
    BY <1>6 DEF ReadInOrder, Copy, Closes, Ended
  <2> QED
    BY <2>1, <2>4, <2>5, <2>6, <2>7, <2>8 DEF Places
<1> QED
  BY <1>1, <1>2, <1>4, <1>5, <1>6

LEMMA DrainEffect ==
    ASSUME Basic, NEW q \in stored, Drain(q)
    PROVE  Places(q, TheEntry)
<1> DEFINE e == TheEntry
<1>1. /\ pc = "drain" /\ IsNext(q) /\ cur \in Sent /\ e \in Entries /\ Has(bufs[e], cur.id)
      /\ expSequence[<<cur.tick, cur.id>>] = cur.seq + 1
  BY DEF Drain, Basic, CurIsPlaced, TheEntry
<1>2. /\ bufs \in [Entries -> Entry] /\ WellFormed(bufs[e])
      /\ q \in Sent /\ q.id \in Ids /\ q.id = cur.id /\ q.tick = cur.tick /\ q.seq = cur.seq + 1
  BY <1>1, SentFields DEF Basic, TypeOK, Entry, IsNext
<1>3. EntryOf(q, e) = bufs[e] /\ Opens(q, e)
  BY <1>1, <1>2 DEF EntryOf, Opens, TheEntry, Drain
<1>4. Usable(bufs[e], q.id) # {}
  <2>1. PICK i \in 1..Capacity : bufs[e][i].id = q.id
    BY <1>1, <1>2 DEF Has
  <2>2. DOMAIN bufs[e] = 1..Capacity
    BY <1>2 DEF WellFormed, Entry
  <2> QED
    BY <2>1, <2>2 DEF Usable
<1>5. ThePlace \in 1..Capacity /\ bufs[e][ThePlace].id = q.id
  BY <1>1, <1>2, <1>4, GetBufIs DEF ThePlace
<1>6. /\ bufs'[e] = Appended(bufs[e], ThePlace, q)
      /\ bufs' = [bufs EXCEPT ![e] = bufs'[e]]
  BY <1>1, <1>2 DEF Drain, Copy, Appended
<1>7. /\ Keeps(bufs[e], bufs'[e]) /\ Has(bufs'[e], q.id)
      /\ DataIn(bufs'[e], q.id) = Append(DataIn(bufs[e], q.id), q)
      /\ \A k \in Ids : k # q.id => DataIn(bufs'[e], k) = DataIn(bufs[e], k)
  BY <1>2, <1>5, <1>6, AppendData
<1>8. Changes(q, e)
  BY <1>3, <1>6, <1>7 DEF Changes
<1>9. /\ stored' = stored \ {q} /\ garbled' \in {garbled, garbled \union {q}}
      /\ UNCHANGED <<netVars, bufSizeMax>>
  BY DEF Drain
<1>10. q.seq = expSequence[<<q.tick, q.id>>]
  BY <1>1, <1>2
<1>11. /\ expSequence' = [expSequence EXCEPT ![<<q.tick, q.id>>] = q.seq + 1]
       /\ cur' = q /\ ret' = ret /\ put' = put
       /\ \/ /\ Closes(q) /\ pc' = "put"
             /\ endCondition' = {end \in Ended(q) : end[1] # q.tick}
          \/ /\ ~Closes(q) /\ endCondition' = Ended(q)
             /\ pc' = IF NextIsStored(q) THEN "drain" ELSE "recv"
  BY DEF Drain, Copy, Closes, Ended
<1> QED
  BY <1>1, <1>2, <1>3, <1>7, <1>8, <1>9, <1>10, <1>11 DEF Places

(* What a step that places a packet tells of it.                           *)
LEMMA PlacedFacts ==
    ASSUME Basic, NEW p, NEW e, Places(p, e)
    PROVE  /\ p \in Sent /\ p.tick \in Ticks /\ p.id \in Ids /\ p.seq \in Nat
           /\ p.seq + 1 <= Len(Messages[<<p.tick, p.id>>])
           /\ e \in Entries /\ buffers'[p.tick] = e
           /\ expSequence' \in [Ticks \X Ids -> Nat]
           /\ \A s \in Ticks \X Ids : expSequence[s] <= expSequence'[s]
           /\ \A s \in Ticks \X Ids : s # <<p.tick, p.id>> => expSequence'[s] = expSequence[s]
           /\ expSequence'[<<p.tick, p.id>>] = p.seq + 1
<1>1. p \in Sent
  BY DEF Basic, TypeOK, Places, Receives
<1>2. /\ p.tick \in Ticks /\ p.id \in Ids /\ p.seq \in Nat
      /\ p.seq + 1 <= Len(Messages[<<p.tick, p.id>>])
  <2>1. /\ p.tick \in Ticks /\ p.id \in Ids /\ Messages[<<p.tick, p.id>>] \in Seq(Nat)
        /\ p.seq \in 0..(Len(Messages[<<p.tick, p.id>>]) - 1)
    BY <1>1, SentFields
  <2> QED
    BY <2>1
<1>3. buffers \in [Ticks -> Entries \union {NoEntry}] /\ expSequence \in [Ticks \X Ids -> Nat]
  BY DEF Basic, TypeOK
<1>4. e \in Entries /\ buffers'[p.tick] = e
  BY <1>2, <1>3 DEF Places, Opens
<1>5. /\ expSequence' = [expSequence EXCEPT ![<<p.tick, p.id>>] = p.seq + 1]
      /\ p.seq = expSequence[<<p.tick, p.id>>]
  BY DEF Places
<1>6. <<p.tick, p.id>> \in Ticks \X Ids
  BY <1>2
<1>7. \A s \in Ticks \X Ids :
          expSequence'[s] = IF s = <<p.tick, p.id>> THEN p.seq + 1 ELSE expSequence[s]
  BY <1>3, <1>5
<1>8. expSequence' \in [Ticks \X Ids -> Nat]
  BY <1>2, <1>3, <1>5
<1>9. ASSUME NEW s \in Ticks \X Ids PROVE expSequence[s] <= expSequence'[s]
  <2>1. expSequence[s] \in Nat
    BY <1>3
  <2>2. CASE s = <<p.tick, p.id>>
    <3>1. expSequence[s] = p.seq /\ expSequence'[s] = p.seq + 1
      BY <1>5, <1>7, <2>2
    <3> QED
      BY <1>2, <3>1
  <2>3. CASE s # <<p.tick, p.id>>
    BY <1>7, <2>1, <2>3
  <2> QED
    BY <2>2, <2>3
<1> QED
  BY <1>1, <1>2, <1>4, <1>6, <1>7, <1>8, <1>9

-----------------------------------------------------------------------------
(* Basic is inductive.                                                     *)

LEMMA BasicInit == Init => Basic
<1> SUFFICES ASSUME Init PROVE Basic
  OBVIOUS
<1>1. /\ Cardinality({}) = 0 /\ IsFiniteSet({})
      /\ MaxStored \in Nat /\ MaxFaults \in Nat
  BY FS_EmptySet, EtAssemblerAssumption
<1>2. NewEntry \in Entry /\ WellFormed(NewEntry)
  BY NewIsEmpty DEF WellFormed
<1>3. TypeOK
  BY <1>1, <1>2 DEF Init, TypeOK, PCs, Entry
<1>4. \A e \in Entries : WellFormed(bufs[e]) /\ owner[e] = "free"
  BY <1>2 DEF Init
<1>5. \A s \in Ticks \X Ids : expSequence[s] <= Len(Messages[s])
  <2> TAKE s \in Ticks \X Ids
  <2>1. Messages[s] \in Seq(Nat)
    BY EtAssemblerAssumption
  <2>2. Len(Messages[s]) \in Nat /\ expSequence[s] = 0
    BY <2>1 DEF Init
  <2> QED
    BY <2>2
<1>6. CurIsPlaced /\ StoredWaits
  BY DEF Init, CurIsPlaced, StoredWaits
<1> QED
  BY <1>1, <1>3, <1>4, <1>5, <1>6 DEF Basic, Init

(* A step leaves the other entries alone, and each one well formed.        *)
LEMMA EntriesStayWellFormed ==
    ASSUME Basic, NEW p, NEW e, Changes(p, e), Opens(p, e)
    PROVE  /\ bufs' \in [Entries -> Entry]
           /\ \A x \in Entries : WellFormed(bufs'[x])
           /\ \A x \in Entries : x # e => bufs'[x] = bufs[x]
<1>1. bufs \in [Entries -> Entry] /\ \A x \in Entries : WellFormed(bufs[x])
  BY DEF Basic, TypeOK, Entry
<1>2. e \in Entries /\ WellFormed(bufs'[e]) /\ bufs' = [bufs EXCEPT ![e] = bufs'[e]]
  BY DEF Opens, Changes, Keeps
<1>3. bufs'[e] \in Entry
  BY <1>2 DEF WellFormed
<1> QED
  BY <1>1, <1>2, <1>3

LEMMA OwnersTyped ==
    ASSUME Basic, NEW p \in Sent, NEW e, Opens(p, e)
    PROVE  /\ buffers' \in [Ticks -> Entries \union {NoEntry}]
           /\ owner' \in [Entries -> {"free", "producer", "queued", "consumer"}]
           /\ \A x \in Entries : owner'[x] \in {"queued", "consumer"} => owner[x] = owner'[x]
           /\ \A x \in Entries : owner[x] # "free" => owner'[x] = owner[x]
           /\ \A t \in Ticks : t # p.tick => buffers'[t] = buffers[t]
           /\ \A t \in Ticks : buffers[t] # NoEntry => buffers'[t] = buffers[t]
           /\ buffers'[p.tick] = e /\ e \in Entries
<1>1. /\ buffers \in [Ticks -> Entries \union {NoEntry}]
      /\ owner \in [Entries -> {"free", "producer", "queued", "consumer"}]
      /\ p.tick \in Ticks
  BY SentFields DEF Basic, TypeOK
<1> QED
  BY <1>1, NoEntryAssumption DEF Opens

LEMMA RefusesBasic ==
    ASSUME Basic, NEW p, NEW e, Refuses(p, e)
    PROVE  Basic'
<1>1. p \in Sent /\ pc = "recv" /\ p \in net /\ net' \subseteq net
  BY DEF Refuses, Receives, Basic, TypeOK
<1>2. /\ bufs' \in [Entries -> Entry]
      /\ \A x \in Entries : WellFormed(bufs'[x])
  BY EntriesStayWellFormed DEF Refuses
<1>3. IsFiniteSet(stored') /\ Cardinality(stored') <= MaxStored /\ stored' \subseteq Sent
  <2>1. /\ IsFiniteSet(stored) /\ Cardinality(stored) <= MaxStored /\ MaxStored \in Nat
        /\ Cardinality(stored) \in Nat /\ stored \subseteq Sent
    BY EtAssemblerAssumption, FS_CardinalityType DEF Basic, TypeOK
  <2>2. CASE stored' = stored
    BY <2>1, <2>2
  <2>3. CASE stored' = stored \union {p} /\ Cardinality(stored) < MaxStored
    <3>1. /\ IsFiniteSet(stored \union {p})
          /\ Cardinality(stored \union {p}) \in {Cardinality(stored), Cardinality(stored) + 1}
      BY <2>1, FS_AddElement
    <3> QED
      BY <1>1, <2>1, <2>3, <3>1
  <2> QED
    BY <2>2, <2>3 DEF Refuses
<1>4. /\ buffers' \in [Ticks -> Entries \union {NoEntry}]
      /\ owner' \in [Entries -> {"free", "producer", "queued", "consumer"}]
      /\ \A x \in Entries : owner'[x] \in {"queued", "consumer"} => owner[x] = owner'[x]
  BY <1>1, OwnersTyped DEF Refuses
<1>5. TypeOK'
  <2>1. dups' \in Nat /\ losses' = losses /\ losses \in Nat /\ dups' + losses' <= MaxFaults
    BY DEF Refuses, Receives, Basic, TypeOK
  <2>2. pc' \in PCs /\ ret' \in {"none", "NO_IDS", "RECV", "OUT_OF_ORDER", "BAD_FIRST_LAST_BIT"}
    BY DEF Refuses, PCs, Basic, TypeOK
  <2>3. UNCHANGED <<bufSizeMax, expSequence, endCondition, cur, garbled, put>>
    BY DEF Refuses
  <2> QED
    BY <1>1, <1>2, <1>3, <1>4, <2>1, <2>2, <2>3 DEF TypeOK, Basic, Entry
<1>6. CurIsPlaced'
  BY DEF Refuses, CurIsPlaced
<1>7. StoredWaits'
  <2>1. SUFFICES ASSUME pc' = "recv", NEW q \in stored'
                 PROVE  q.seq > expSequence[<<q.tick, q.id>>]
    BY DEF StoredWaits, Running, Refuses
  <2> QED
    BY <1>1, <2>1 DEF Refuses, Basic, StoredWaits, Running
<1>8. UNCHANGED <<expSequence, endCondition>>
  BY DEF Refuses
<1> QED
  BY <1>2, <1>3, <1>4, <1>5, <1>6, <1>7, <1>8 DEF Basic

LEMMA PlacesBasic ==
    ASSUME Basic, NEW p, NEW e, Places(p, e)
    PROVE  Basic'
<1>1. /\ p \in Sent /\ p.tick \in Ticks /\ p.id \in Ids /\ p.seq \in Nat
      /\ p.seq + 1 <= Len(Messages[<<p.tick, p.id>>])
      /\ e \in Entries /\ buffers'[p.tick] = e
      /\ expSequence' \in [Ticks \X Ids -> Nat]
      /\ \A s \in Ticks \X Ids : s # <<p.tick, p.id>> => expSequence'[s] = expSequence[s]
      /\ expSequence'[<<p.tick, p.id>>] = p.seq + 1
  BY PlacedFacts
<1>2. /\ bufs' \in [Entries -> Entry]
      /\ \A x \in Entries : WellFormed(bufs'[x])
  BY EntriesStayWellFormed DEF Places
<1>3. /\ IsFiniteSet(stored') /\ Cardinality(stored') <= MaxStored /\ stored' \subseteq Sent
      /\ stored' \subseteq stored
  <2>1. /\ IsFiniteSet(stored) /\ Cardinality(stored) <= MaxStored /\ MaxStored \in Nat
        /\ Cardinality(stored) \in Nat /\ stored \subseteq Sent
    BY EtAssemblerAssumption, FS_CardinalityType DEF Basic, TypeOK
  <2>2. stored' \subseteq stored
    BY DEF Places
  <2>3. IsFiniteSet(stored') /\ Cardinality(stored') <= Cardinality(stored)
    BY <2>1, <2>2, FS_Subset
  <2>4. Cardinality(stored') \in Nat
    BY <2>3, FS_CardinalityType
  <2> QED
    BY <2>1, <2>2, <2>3, <2>4
<1>4. /\ buffers' \in [Ticks -> Entries \union {NoEntry}]
      /\ owner' \in [Entries -> {"free", "producer", "queued", "consumer"}]
      /\ \A x \in Entries : owner'[x] \in {"queued", "consumer"} => owner[x] = owner'[x]
  BY <1>1, OwnersTyped DEF Places
<1>5. endCondition' \subseteq Ticks \X Ids /\ IsFiniteSet(endCondition')
  <2>1. IsFiniteSet(endCondition) /\ endCondition \subseteq Ticks \X Ids
    BY DEF Basic, TypeOK
  <2>2. Ended(p) \subseteq Ticks \X Ids /\ IsFiniteSet(Ended(p))
    <3>1. IsFiniteSet(endCondition \union {<<p.tick, p.id>>})
      BY <2>1, FS_AddElement
    <3> QED
      BY <1>1, <2>1, <3>1 DEF Ended
  <2>3. endCondition' \subseteq Ended(p)
    BY DEF Places
  <2> QED
    BY <2>2, <2>3, FS_Subset
<1>6. TypeOK'
  <2>1. /\ net' \subseteq Sent /\ losses' = losses /\ losses \in Nat
        /\ dups' \in Nat /\ dups' + losses' <= MaxFaults
    BY DEF Places, Receives, netVars, Basic, TypeOK
  <2>2. pc' \in PCs
    BY DEF Places, PCs
  <2>3. UNCHANGED <<bufSizeMax, ret, put>> /\ cur' = p
    BY DEF Places
  <2>4. garbled' \subseteq Sent
    BY <1>1 DEF Places, Basic, TypeOK
  <2> QED
    BY <1>1, <1>2, <1>3, <1>4, <1>5, <2>1, <2>2, <2>3, <2>4 DEF TypeOK, Basic, Entry
<1>7. \A s \in Ticks \X Ids : expSequence'[s] <= Len(Messages[s])
  BY <1>1 DEF Basic
<1>8. CurIsPlaced'
  <2>1. cur' = p /\ Has(bufs'[e], p.id)
    BY DEF Places
  <2>2. ASSUME pc' = "drain" PROVE \E q \in stored' : IsNext(q)'
    <3>1. PICK q \in stored : q.tick = p.tick /\ q.id = p.id /\ q.seq = p.seq + 1
      BY <2>2 DEF Places, NextIsStored
    <3>2. q # p
      BY <1>1, <3>1
    <3>3. q \in stored'
      BY <3>1, <3>2 DEF Places
    <3> QED
      BY <2>1, <3>1, <3>3 DEF IsNext
  <2> QED
    BY <1>1, <2>1, <2>2 DEF CurIsPlaced, Has
<1>9. StoredWaits'
  <2>1. SUFFICES ASSUME NEW q \in stored'
                 PROVE  \/ q.seq > expSequence'[<<q.tick, q.id>>]
                        \/ pc' = "drain" /\ IsNext(q)'
    BY DEF StoredWaits
  <2>2. q \in stored /\ q \in Sent /\ q.tick \in Ticks /\ q.id \in Ids /\ q.seq \in Nat
        /\ q = Packet(q.tick, q.id, q.seq)
        /\ q.seq <= Len(Messages[<<q.tick, q.id>>]) - 1
        /\ Len(Messages[<<q.tick, q.id>>]) \in Nat
    <3>1. q \in stored /\ q \in Sent
      BY <1>3
    <3>2. /\ q.tick \in Ticks /\ q.id \in Ids /\ Messages[<<q.tick, q.id>>] \in Seq(Nat)
          /\ q.seq \in 0..(Len(Messages[<<q.tick, q.id>>]) - 1)
          /\ q = Packet(q.tick, q.id, q.seq)
      BY <3>1, SentFields
    <3> QED
      BY <3>1, <3>2
  <2>3. p = Packet(p.tick, p.id, p.seq) /\ (p.last <=> p.seq = Len(Messages[<<p.tick, p.id>>]) - 1)
    BY <1>1, SentFields
  <2>4. \/ q.seq > expSequence[<<q.tick, q.id>>]
        \/ pc = "drain" /\ IsNext(q)
    BY <2>2 DEF Basic, StoredWaits, Running, Places, Receives
  <2>5. ASSUME pc = "drain", IsNext(q) PROVE FALSE
    <3>1. IsNext(p) /\ stored' = stored \ {p}
      BY <2>5 DEF Places, Receives
    <3>2. q = p
      BY <2>2, <2>3, <2>5, <3>1 DEF IsNext
    <3> QED
      BY <2>1, <3>1, <3>2
  <2>6. q.seq > expSequence[<<q.tick, q.id>>]
    BY <2>4, <2>5
  <2>7. CASE <<q.tick, q.id>> # <<p.tick, p.id>>
    BY <1>1, <2>2, <2>6, <2>7
  <2>8. CASE <<q.tick, q.id>> = <<p.tick, p.id>>
    <3>1. q.tick = p.tick /\ q.id = p.id /\ q.seq > p.seq
      BY <2>6, <2>8 DEF Places
    <3>2. CASE q.seq > p.seq + 1
      BY <1>1, <3>1, <3>2
    <3>3. CASE q.seq = p.seq + 1
      <4>1. NextIsStored(p)
        BY <2>2, <3>1, <3>3 DEF NextIsStored
      <4>2. ~p.last
        BY <1>1, <2>2, <2>3, <3>1, <3>3
      <4>3. pc' = "drain" /\ cur' = p
        BY <4>1, <4>2 DEF Places, Closes
      <4> QED
        BY <3>1, <3>3, <4>3 DEF IsNext
    <3> QED
      BY <1>1, <2>2, <3>1, <3>2, <3>3
  <2> QED
    BY <2>7, <2>8
<1>10. \A x \in Entries : owner'[x] \in {"queued", "consumer"} => Capacity > 0
  BY <1>4 DEF Basic
<1> QED
  BY <1>2, <1>3, <1>5, <1>6, <1>7, <1>8, <1>9, <1>10 DEF Basic

LEMMA PutBasic ==
    ASSUME Basic, PutEntry
    PROVE  Basic'
<1>1. pc = "put" /\ cur \in Sent /\ TheEntry \in Entries /\ Has(bufs[TheEntry], cur.id)
  BY DEF PutEntry, Basic, CurIsPlaced, TheEntry
<1>2. Capacity > 0 /\ cur.tick \in Ticks
  <2>1. PICK i \in 1..Capacity : bufs[TheEntry][i].id = cur.id
    BY <1>1 DEF Has
  <2>2. Capacity \in Nat
    BY EtAssemblerAssumption
  <2>3. Capacity > 0
    BY <2>1, <2>2
  <2> QED
    BY <1>1, <2>3, SentFields
<1>3. TypeOK'
  BY <1>1, <1>2 DEF PutEntry, Basic, TypeOK, PCs, netVars, mapVars
<1>4. CurIsPlaced'
  BY DEF PutEntry, CurIsPlaced
<1>5. StoredWaits'
  BY <1>1 DEF PutEntry, StoredWaits, Running, Basic, mapVars
<1> QED
  BY <1>2, <1>3, <1>4, <1>5 DEF PutEntry, Basic, mapVars

(* The steps that neither receive nor place a packet nor put an entry.     *)
Aside ==
    \/ Fails
    \/ \E p \in net : Lose(p)
    \/ \E q \in stored : DrainNoRoom(q)
    \/ \E e \in Entries : Consumer(e)
    \/ UNCHANGED vars

LEMMA AsideBasic ==
    ASSUME Basic, Aside
    PROVE  Basic'
<1> USE DEF Basic
<1>1. CASE Fails
  <2>1. dups' \in Nat /\ losses' = losses /\ dups' + losses' <= MaxFaults
    <3>1. dups \in Nat /\ losses \in Nat /\ MaxFaults \in Nat /\ dups + losses <= MaxFaults
      BY EtAssemblerAssumption DEF TypeOK
    <3>2. /\ losses' = losses
          /\ dups' = dups \/ (dups + losses < MaxFaults /\ dups' = dups + 1)
      BY <1>1 DEF Fails, RecvFails, NoNewEntry, Arrive, netVars
    <3> QED
      BY <3>1, <3>2
  <2>2. /\ net' \subseteq net /\ pc' \in PCs /\ ret' \in {"none", "RECV"}
        /\ UNCHANGED <<bufSizeMax, buffers, expSequence, endCondition, stored, cur, owner, bufs,
                       garbled, put>>
    BY <1>1 DEF Fails, RecvFails, NoNewEntry, Arrive, Throw, PCs, netVars, mapVars, etVars
  <2>3. TypeOK'
    BY <2>1, <2>2 DEF TypeOK
  <2>4. pc' \in {"stopped", "threw"}
    BY <1>1 DEF Fails, RecvFails, NoNewEntry, Throw
  <2> QED
    BY <2>2, <2>3, <2>4 DEF CurIsPlaced, StoredWaits, Running
<1>2. ASSUME NEW p \in net, Lose(p) PROVE Basic'
  <2>1. TypeOK'
    <3>1. losses' \in Nat /\ dups' = dups /\ dups' + losses' <= MaxFaults
      <4>1. dups \in Nat /\ losses \in Nat /\ MaxFaults \in Nat
        BY EtAssemblerAssumption DEF TypeOK
      <4>2. dups' = dups /\ losses' = losses + 1 /\ dups + losses < MaxFaults
        BY <1>2 DEF Lose
      <4> QED
        BY <4>1, <4>2
    <3> QED
      BY <1>2, <3>1 DEF Lose, TypeOK, mapVars, etVars
  <2> QED
    BY <1>2, <2>1 DEF Lose, mapVars, etVars, CurIsPlaced, StoredWaits, Running, IsNext
<1>3. ASSUME NEW q \in stored, DrainNoRoom(q) PROVE Basic'
  <2>1. IsFiniteSet(stored') /\ Cardinality(stored') <= MaxStored
    <3>1. stored' = stored \ {q}
      BY <1>3 DEF DrainNoRoom
    <3>2. IsFiniteSet(stored') /\ Cardinality(stored') <= Cardinality(stored)
      BY <3>1, FS_Subset
    <3>3. Cardinality(stored) \in Nat /\ Cardinality(stored') \in Nat /\ Cardinality(stored) <= MaxStored
      BY <3>2, FS_CardinalityType DEF TypeOK
    <3> QED
      BY <3>2, <3>3, EtAssemblerAssumption
  <2>2. TypeOK'
    BY <1>3, <2>1 DEF DrainNoRoom, Throw, TypeOK, PCs, netVars, etVars
  <2> QED
    BY <1>3, <2>1, <2>2 DEF DrainNoRoom, Throw, etVars, CurIsPlaced, StoredWaits, Running
<1>4. ASSUME NEW e \in Entries, Consumer(e) PROVE Basic'
  <2>1. TypeOK'
    BY <1>4 DEF Consumer, GetEntry, GiveBack, TypeOK, netVars, mapVars
  <2>2. CurIsPlaced' /\ StoredWaits'
    BY <1>4 DEF Consumer, GetEntry, GiveBack, mapVars, CurIsPlaced, StoredWaits, Running, IsNext, Has
  <2>3. \A x \in Entries : owner'[x] \in {"queued", "consumer"} => owner[x] \in {"queued", "consumer"}
    BY <1>4 DEF Consumer, GetEntry, GiveBack, TypeOK
  <2> QED
    BY <1>4, <2>1, <2>2, <2>3 DEF Consumer, GetEntry, GiveBack, mapVars
<1>5. CASE UNCHANGED vars
  BY <1>5 DEF vars, netVars, mapVars, etVars, TypeOK, CurIsPlaced, StoredWaits, Running, IsNext, Has
<1> QED
  BY <1>1, <1>2, <1>3, <1>4, <1>5 DEF Aside

(* Every step of the routine is one of these, and every step at all.       *)
LEMMA StepsOfRoutine ==
    ASSUME Basic, Routine
    PROVE  \/ \E p, e : Refuses(p, e)
           \/ \E p, e : Places(p, e)
           \/ PutEntry
           \/ \E q \in stored : DrainNoRoom(q)
<1>1. ASSUME Read PROVE \E p, e : Refuses(p, e) \/ Places(p, e)
  <2>1. PICK p \in net, e \in Entries :
            \/ NoBuffer(p, e) \/ NoRoom(p, e)
            \/ ReadBadFirstBit(p, e) \/ ReadAgain(p, e) \/ ReadButMapFull(p, e)
            \/ ReadAndStore(p, e) \/ ReadInOrder(p, e)
    BY <1>1 DEF Read
  <2>2. Refuses(p, e) \/ Places(p, e)
    BY <2>1, ReadEffect
  <2> QED
    BY <2>2
<1>2. ASSUME NEW q \in stored, Drain(q) PROVE Places(q, TheEntry)
  BY <1>2, DrainEffect
<1> QED
  BY <1>1, <1>2 DEF Routine, DrainNext

LEMMA StepsOfNext ==
    ASSUME Basic, [Next]_vars
    PROVE  \/ \E p, e : Refuses(p, e)
           \/ \E p, e : Places(p, e)
           \/ PutEntry
           \/ Aside
  BY StepsOfRoutine DEF Next, Aside

LEMMA BasicStep == Basic /\ [Next]_vars => Basic'
  BY StepsOfNext, RefusesBasic, PlacesBasic, PutBasic, AsideBasic

(* The variables of getBuffers and the ET system always have their types.  *)
THEOREM EtTypeCorrect == Spec => []TypeOK
<1>1. Basic => TypeOK
  BY DEF Basic
<1> QED
  BY BasicInit, BasicStep, <1>1, PTL DEF Spec

(* Whatever is lost, duplicated or overtaken: while getBuffers waits for   *)
(* the next packet, every stored packet is still to come.                  *)
THEOREM StoredAreAhead == Spec => []StoredAhead
<1>1. Basic => StoredAhead
  BY DEF Basic, StoredWaits, Running, StoredAhead
<1> QED
  BY BasicInit, BasicStep, <1>1, PTL DEF Spec

-----------------------------------------------------------------------------
(* EtInv is inductive.                                                     *)

LEMMA SourcesSend ==
    ASSUME OneTickAtATime, NEW t \in Ticks, NEW d \in BufIds
    PROVE  /\ d \in Ids /\ Messages[<<t, d>>] \in Seq(Nat)
           /\ Len(Messages[<<t, d>>]) \in Nat /\ Len(Messages[<<t, d>>]) > 0
<1>1. d \in Ids /\ Messages[<<t, d>>] \in Seq(Nat) /\ Messages[<<t, d>>] # <<>>
  BY EtAssemblerAssumption DEF OneTickAtATime
<1> QED
  BY <1>1

LEMMA EtInit == OneTickAtATime /\ Init => EtInv
<1> SUFFICES ASSUME OneTickAtATime, Init PROVE EtInv
  OBVIOUS
<1>1. Basic
  BY BasicInit
<1>2. InOrderOfTicks
  BY DEF Init, InOrderOfTicks
<1>3. NothingMissing
  BY DEF Init, NothingMissing
<1>4. WholeBefore
  BY DEF Init, WholeBefore, Closed
<1>5. EndsAreOfOpenTicks
  <2>1. ASSUME NEW t \in Ticks, NEW d \in BufIds PROVE expSequence[<<t, d>>] # Len(Messages[<<t, d>>])
    <3>1. Len(Messages[<<t, d>>]) > 0 /\ d \in Ids
      BY SourcesSend
    <3> QED
      BY <3>1 DEF Init
  <2> QED
    BY <2>1 DEF Init, EndsAreOfOpenTicks
<1>6. OwnEntries /\ LatestIsQueued
  BY DEF Init, OwnEntries, LatestIsQueued
<1>7. BuffersInSequence
  BY DEF Init, BuffersInSequence
<1> QED
  BY <1>1, <1>2, <1>3, <1>4, <1>5, <1>6, <1>7 DEF EtInv

(* When a packet of a later tick is received, all of a tick is placed.     *)
LEMMA OvertakenIsWhole ==
    ASSUME OneTickAtATime, EtInv, Orderly, NEW p, Receives(p), NEW t \in Ticks, t < p.tick
    PROVE  Whole(t)
<1>1. SUFFICES ASSUME NEW d \in BufIds PROVE expSequence[<<t, d>>] = Len(Messages[<<t, d>>])
  BY DEF Whole
<1> DEFINE k == expSequence[<<t, d>>]
           n == Len(Messages[<<t, d>>])
           q == Packet(t, d, k)
<1>2. d \in Ids /\ n \in Nat /\ Messages[<<t, d>>] \in Seq(Nat)
  BY SourcesSend
<1>3. k \in Nat /\ k <= n
  BY <1>2 DEF EtInv, Basic, TypeOK
<1>4. SUFFICES ASSUME k < n PROVE FALSE
  BY <1>2, <1>3
<1>5. q.tick = t /\ q.id = d /\ q.seq = k
  BY DEF Packet
<1>6. q \in Sent
  <2>1. MessageOf(t, d) \in Seq(Sent) /\ Len(MessageOf(t, d)) = n
        /\ \A i \in 1..n : MessageOf(t, d)[i] = Packet(t, d, i - 1)
    BY <1>2, MessageFields
  <2>2. k + 1 \in 1..n /\ (k + 1) - 1 = k
    BY <1>2, <1>3, <1>4
  <2>3. MessageOf(t, d)[k + 1] \in Sent /\ MessageOf(t, d)[k + 1] = q
    BY <2>1, <2>2
  <2> QED
    BY <2>3
<1> HIDE DEF k, n, q
<1>7. pc = "recv" /\ p \in net /\ p.tick \in Nat /\ t \in Nat
  BY SentFields, EtAssemblerAssumption DEF Receives, EtInv, Basic, TypeOK
<1>8. q \notin net
  <2>1. SUFFICES ASSUME q \in net PROVE FALSE
    OBVIOUS
  <2>2. q.tick >= p.tick
    BY <2>1 DEF Receives, OneTickAtATime
  <2> QED
    BY <1>5, <1>7, <2>2
<1>9. expSequence[<<q.tick, q.id>>] = k
  BY <1>5 DEF k
<1>10. q \in stored
  BY <1>3, <1>5, <1>6, <1>7, <1>8, <1>9 DEF EtInv, Running, NothingMissing
<1>11. q.seq > k
  BY <1>7, <1>9, <1>10 DEF EtInv, Basic, StoredWaits, Running
<1> QED
  BY <1>3, <1>5, <1>11

(* Orderly is lost for good.                                               *)
LEMMA OrderlyBefore ==
    ASSUME OneTickAtATime, Basic, NEW p, NEW e, Refuses(p, e) \/ Places(p, e), Orderly'
    PROVE  Orderly /\ (Places(p, e) => p.id \in BufIds)
<1>1. losses' = losses
  BY DEF Refuses, Places, Receives, netVars
<1>2. CASE Refuses(p, e)
  <2>2. expSequence' = expSequence
    BY <1>2 DEF Refuses
  <2>3. ~Places(p, e)
    <3>1. SUFFICES ASSUME Places(p, e) PROVE FALSE
      OBVIOUS
    <3>2. /\ p.tick \in Ticks /\ p.id \in Ids /\ expSequence'[<<p.tick, p.id>>] = p.seq + 1
          /\ p.seq \in Nat /\ p.seq = expSequence[<<p.tick, p.id>>]
      BY <3>1, PlacedFacts DEF Places
    <3> QED
      BY <2>2, <3>2
  <2> QED
    BY <1>1, <2>2, <2>3 DEF Orderly
<1>3. CASE Places(p, e)
  <2>1. /\ p.tick \in Ticks /\ p.id \in Ids /\ p.seq \in Nat
        /\ \A s \in Ticks \X Ids : expSequence[s] <= expSequence'[s]
        /\ expSequence'[<<p.tick, p.id>>] = p.seq + 1
    BY <1>3, PlacedFacts
  <2>2. ASSUME NEW s \in Ticks \X (Ids \ BufIds) PROVE expSequence[s] = 0
    <3>1. s \in Ticks \X Ids /\ expSequence'[s] = 0
      BY DEF Orderly
    <3>2. expSequence[s] \in Nat /\ expSequence[s] <= 0
      BY <2>1, <3>1 DEF Basic, TypeOK
    <3> QED
      BY <3>2
  <2>3. p.id \in BufIds
    <3>1. SUFFICES ASSUME p.id \notin BufIds PROVE FALSE
      OBVIOUS
    <3>2. <<p.tick, p.id>> \in Ticks \X (Ids \ BufIds)
      BY <2>1, <3>1
    <3>3. expSequence'[<<p.tick, p.id>>] = 0
      BY <3>2 DEF Orderly
    <3> QED
      BY <2>1, <3>3
  <2> QED
    BY <1>1, <2>2, <2>3 DEF Orderly
<1> QED
  BY <1>2, <1>3

(* A packet is placed only in a tick that is not closed.                   *)
LEMMA PlacedInOpenTick ==
    ASSUME OneTickAtATime, EtInv, Orderly, NEW p, NEW e, Places(p, e), p.id \in BufIds
    PROVE  p.tick \notin put /\ Closed = put
<1>1. pc \in {"recv", "drain"} /\ Closed = put
  BY DEF Places, Receives, Closed
<1>2. SUFFICES ASSUME p.tick \in put PROVE FALSE
  BY <1>1
<1>3. Whole(p.tick)
  BY <1>1, <1>2 DEF EtInv, Running, WholeBefore
<1>4. /\ expSequence[<<p.tick, p.id>>] = p.seq /\ p.seq \in Nat
      /\ p.seq + 1 <= Len(Messages[<<p.tick, p.id>>])
  BY PlacedFacts DEF Places, EtInv
<1>5. expSequence[<<p.tick, p.id>>] = Len(Messages[<<p.tick, p.id>>])
  BY <1>3 DEF Whole
<1> QED
  BY <1>4, <1>5

(* A tick with no entry gets a free one.                                   *)
LEMMA OpensKeeps ==
    ASSUME OneTickAtATime, EtInv, NEW p \in Sent, NEW e, Opens(p, e), put' = put,
           pc = "recv" => Receives(p)
    PROVE  /\ \A t \in Ticks : (buffers'[t] # NoEntry /\ net' \subseteq net) =>
                   \A q \in net' : q.tick >= t
           /\ Orderly =>
                 /\ \A t \in Ticks : (buffers'[t] # NoEntry /\ t \notin put) =>
                        owner'[buffers'[t]] = "producer"
                 /\ \A t, u \in Ticks :
                        (t < u /\ buffers'[t] = buffers'[u] /\ buffers'[t] # NoEntry) => t \in put
                 /\ \A x \in Entries, t \in put :
                        (owner'[x] \in {"queued", "consumer"} /\ IsLatest(t, x)) => IsLatest(t, x)'
<1>1. /\ buffers \in [Ticks -> Entries \union {NoEntry}]
      /\ owner \in [Entries -> {"free", "producer", "queued", "consumer"}]
      /\ p.tick \in Ticks /\ e \in Entries /\ Ticks \subseteq Nat /\ put \subseteq Ticks
      /\ NoEntry \notin Entries
  BY SentFields, EtAssemblerAssumption, NoEntryAssumption DEF EtInv, Basic, TypeOK, Opens
<1>2. CASE buffers' = buffers /\ owner' = owner
  BY <1>2 DEF EtInv, InOrderOfTicks, OwnEntries, IsLatest
<1>3. CASE /\ pc = "recv" /\ buffers[p.tick] = NoEntry /\ owner[e] = "free"
           /\ buffers' = [buffers EXCEPT ![p.tick] = e]
           /\ owner' = [owner EXCEPT ![e] = "producer"]
  <2>1. /\ p \in net /\ \A q \in net : q.tick >= p.tick
    BY <1>3 DEF Receives, OneTickAtATime
  <2>2. /\ buffers'[p.tick] = e /\ \A t \in Ticks : t # p.tick => buffers'[t] = buffers[t]
        /\ owner'[e] = "producer" /\ \A x \in Entries : x # e => owner'[x] = owner[x]
    BY <1>1, <1>3
  <2>3. \A t \in Ticks : buffers[t] # NoEntry => \A q \in net : q.tick >= t
    BY DEF EtInv, InOrderOfTicks
  <2>4. \A t \in Ticks : (buffers'[t] # NoEntry /\ net' \subseteq net) =>
                   \A q \in net' : q.tick >= t
    BY <2>1, <2>2, <2>3
  <2>5. ASSUME Orderly, NEW t \in Ticks, buffers'[t] # NoEntry, t \notin put
        PROVE  owner'[buffers'[t]] = "producer"
    <3>1. CASE t = p.tick
      BY <2>2, <3>1
    <3>2. CASE t # p.tick
      BY <1>1, <2>2, <2>5, <3>2 DEF EtInv, OwnEntries
    <3> QED
      BY <3>1, <3>2
  <2>6. ASSUME Orderly, NEW t \in Ticks, NEW u \in Ticks, t < u,
               buffers'[t] = buffers'[u], buffers'[t] # NoEntry
        PROVE  t \in put
    <3>1. CASE t = p.tick
      <4>1. u # p.tick /\ buffers[u] = e
        BY <1>1, <2>2, <2>6, <3>1
      <4>2. p.tick >= u
        BY <1>1, <2>1, <2>3, <4>1
      <4> QED
        BY <1>1, <2>6, <3>1, <4>2
    <3>2. CASE u = p.tick
      <4>1. t # p.tick /\ buffers[t] = e
        BY <1>1, <2>2, <2>6, <3>2
      <4> QED
        BY <1>1, <1>3, <2>6, <4>1 DEF EtInv, OwnEntries
    <3>3. CASE t # p.tick /\ u # p.tick
      BY <2>2, <2>6, <3>3 DEF EtInv, OwnEntries
    <3> QED
      BY <3>1, <3>2, <3>3
  <2>7. ASSUME NEW x \in Entries, NEW t \in put, owner'[x] \in {"queued", "consumer"}, IsLatest(t, x)
        PROVE  IsLatest(t, x)'
    <3>1. x # e
      BY <2>2, <2>7
    <3>2. t # p.tick /\ buffers'[t] = x
      BY <1>1, <1>3, <2>2, <2>7 DEF IsLatest
    <3> QED
      BY <2>2, <2>7, <3>1, <3>2 DEF IsLatest
  <2> QED
    BY <2>4, <2>5, <2>6, <2>7
<1> QED
  BY <1>2, <1>3 DEF Opens

(* What is done for one source leaves the data of the others as it was.    *)
LEMMA DataKept ==
    ASSUME OneTickAtATime, EtInv, NEW p \in Sent, NEW e, Opens(p, e), Changes(p, e),
           NEW d \in BufIds,
           d = p.id => DataIn(bufs'[e], d) = DataIn(EntryOf(p, e), d)
    PROVE  /\ \A x \in Entries : owner[x] # "free" => DataIn(bufs'[x], d) = DataIn(bufs[x], d)
           /\ \A t \in Ticks :
                  (Orderly /\ t \notin put /\ buffers'[t] # NoEntry) =>
                     DataIn(bufs'[buffers'[t]], d) =
                        IF buffers[t] = NoEntry THEN <<>> ELSE DataIn(bufs[buffers[t]], d)
<1>1. /\ buffers \in [Ticks -> Entries \union {NoEntry}]
      /\ p.tick \in Ticks /\ e \in Entries /\ d \in Ids /\ NoEntry \notin Entries
  BY SentFields, NoEntryAssumption DEF EtInv, Basic, TypeOK, Opens, OneTickAtATime
<1>2. /\ \A x \in Entries : x # e => bufs'[x] = bufs[x]
      /\ DataIn(bufs'[e], d) = DataIn(EntryOf(p, e), d)
  BY <1>1, EntriesStayWellFormed DEF EtInv, Changes
<1>3. CASE buffers[p.tick] = e /\ UNCHANGED <<buffers, owner>>
  <2>1. DataIn(bufs'[e], d) = DataIn(bufs[e], d)
    BY <1>2, <1>3 DEF EntryOf
  <2>2. \A x \in Entries : DataIn(bufs'[x], d) = DataIn(bufs[x], d)
    BY <1>2, <2>1
  <2> QED
    BY <1>1, <1>3, <2>2
<1>4. CASE /\ buffers[p.tick] = NoEntry /\ owner[e] = "free"
           /\ buffers' = [buffers EXCEPT ![p.tick] = e]
  <2>1. DataIn(bufs'[e], d) = <<>>
    BY <1>1, <1>2, <1>4, NewIsEmpty DEF EntryOf
  <2>2. \A x \in Entries : owner[x] # "free" => DataIn(bufs'[x], d) = DataIn(bufs[x], d)
    BY <1>2, <1>4
  <2>3. ASSUME NEW t \in Ticks, Orderly, t \notin put, buffers'[t] # NoEntry
        PROVE  DataIn(bufs'[buffers'[t]], d) =
                   IF buffers[t] = NoEntry THEN <<>> ELSE DataIn(bufs[buffers[t]], d)
    <3>1. CASE t = p.tick
      BY <1>1, <1>4, <2>1, <3>1
    <3>2. CASE t # p.tick
      <4>1. buffers'[t] = buffers[t] /\ buffers[t] \in Entries
        BY <1>1, <1>4, <2>3, <3>2
      <4>2. owner[buffers[t]] = "producer"
        BY <1>1, <2>3, <4>1 DEF EtInv, OwnEntries
      <4> QED
        BY <1>1, <2>2, <4>1, <4>2
    <3> QED
      BY <3>1, <3>2
  <2> QED
    BY <2>2, <2>3
<1> QED
  BY <1>3, <1>4 DEF Opens

(* The first packets of a message, and one more.                           *)
LEMMA FirstPackets ==
    ASSUME NEW t \in Ticks, NEW d \in Ids, NEW k \in 0..Len(Messages[<<t, d>>])
    PROVE  /\ SubSeq(MessageOf(t, d), 1, 0) = <<>>
           /\ k = Len(Messages[<<t, d>>]) => SubSeq(MessageOf(t, d), 1, k) = MessageOf(t, d)
           /\ k < Len(Messages[<<t, d>>]) =>
                 SubSeq(MessageOf(t, d), 1, k + 1) = Append(SubSeq(MessageOf(t, d), 1, k), Packet(t, d, k))
<1> DEFINE m == MessageOf(t, d)
           n == Len(Messages[<<t, d>>])
<1>1. m \in Seq(Sent) /\ Len(m) = n /\ n \in Nat /\ \A i \in 1..n : m[i] = Packet(t, d, i - 1)
  BY MessageFields
<1> HIDE DEF m, n
<1>2. SubSeq(m, 1, 0) = <<>>
  BY <1>1
<1>3. ASSUME k = n PROVE SubSeq(m, 1, k) = m
  BY <1>1, <1>3
<1>4. ASSUME k < n PROVE SubSeq(m, 1, k + 1) = Append(SubSeq(m, 1, k), Packet(t, d, k))
  <2>1. k \in Nat /\ k + 1 \in 1..n /\ m[k + 1] = Packet(t, d, k)
    <3>1. k \in Nat /\ k + 1 \in 1..n /\ (k + 1) - 1 = k
      BY <1>1, <1>4 DEF n
    <3> QED
      BY <1>1, <3>1
  <2>2. SubSeq(m, 1, k + 1) = Append(SubSeq(m, 1, k), m[k + 1])
    BY <1>1, <2>1
  <2> QED
    BY <2>1, <2>2
<1> QED
  BY <1>2, <1>3, <1>4 DEF m, n

LEMMA RefusesKeeps ==
    ASSUME OneTickAtATime, EtInv, NEW p, NEW e, Refuses(p, e)
    PROVE  EtInv'
<1>1. /\ Basic /\ Basic'
      /\ p \in Sent /\ p \in net /\ Receives(p) /\ Opens(p, e) /\ Changes(p, e)
      /\ pc = "recv" /\ net' \in {net, net \ {p}} /\ losses' = losses
      /\ UNCHANGED <<expSequence, endCondition, cur, put>>
      /\ DataIn(bufs'[e], p.id) = DataIn(EntryOf(p, e), p.id)
      /\ pc' \in {"recv", "stopped", "threw"}
  BY RefusesBasic DEF EtInv, Refuses, Receives, Basic, TypeOK
<1>2. /\ \A t \in Ticks : t # p.tick => buffers'[t] = buffers[t]
      /\ \A t \in Ticks : buffers[t] # NoEntry => buffers'[t] = buffers[t]
      /\ buffers'[p.tick] = e /\ e \in Entries
      /\ \A x \in Entries : owner'[x] \in {"queued", "consumer"} => owner[x] = owner'[x]
  BY <1>1, OwnersTyped
<1>3. InOrderOfTicks'
  <2>1. \A t \in Ticks : buffers'[t] # NoEntry => \A q \in net' : q.tick >= t
    BY <1>1, OpensKeeps
  <2>2. \A s \in Ticks \X Ids : expSequence[s] > 0 => buffers[s[1]] # NoEntry
    BY DEF EtInv, InOrderOfTicks
  <2>3. \A t \in put : t \in Ticks /\ buffers[t] # NoEntry
    BY <1>1 DEF EtInv, InOrderOfTicks, Basic, TypeOK
  <2> QED
    BY <1>1, <1>2, <2>1, <2>2, <2>3 DEF InOrderOfTicks
<1>4. ASSUME Orderly' PROVE Orderly
  BY <1>1, <1>4 DEF Orderly
<1>5. ASSUME Orderly', Running' PROVE NothingMissing' /\ WholeBefore' /\ EndsAreOfOpenTicks'
  <2>1. /\ Orderly /\ Running /\ pc' = "recv" /\ stored' = stored \union {p}
        /\ Closed = put /\ Closed' = put
    BY <1>1, <1>4, <1>5 DEF Refuses, Running, Closed
  <2>2. NothingMissing /\ WholeBefore /\ EndsAreOfOpenTicks
    BY <2>1 DEF EtInv
  <2>3. NothingMissing'
    BY <1>1, <2>1, <2>2 DEF NothingMissing
  <2>4. \A t \in Ticks : Whole(t)' <=> Whole(t)
    BY <1>1 DEF Whole
  <2>5. ASSUME NEW t \in Ticks, NEW u \in Ticks, t < u, buffers'[u] # NoEntry PROVE Whole(t)
    <3>1. CASE buffers[u] # NoEntry
      BY <2>2, <2>5, <3>1 DEF WholeBefore
    <3>2. CASE buffers[u] = NoEntry
      <4>1. u = p.tick
        BY <1>2, <2>5, <3>2
      <4> QED
        BY <1>1, <2>1, <2>5, <4>1, OvertakenIsWhole
    <3> QED
      BY <3>1, <3>2
  <2>6. WholeBefore'
    <3>1. put \subseteq Ticks
      BY <1>1 DEF Basic, TypeOK
    <3> QED
      BY <2>1, <2>2, <2>4, <2>5, <3>1 DEF WholeBefore
  <2>7. EndsAreOfOpenTicks'
    BY <1>1, <2>1, <2>2 DEF EndsAreOfOpenTicks
  <2> QED
    BY <2>3, <2>6, <2>7
<1>6. ASSUME Orderly' PROVE OwnEntries' /\ LatestIsQueued'
  <2>1. /\ \A t \in Ticks : (buffers'[t] # NoEntry /\ t \notin put) => owner'[buffers'[t]] = "producer"
        /\ \A t, u \in Ticks :
               (t < u /\ buffers'[t] = buffers'[u] /\ buffers'[t] # NoEntry) => t \in put
        /\ \A x \in Entries, t \in put :
               (owner'[x] \in {"queued", "consumer"} /\ IsLatest(t, x)) => IsLatest(t, x)'
    BY <1>1, <1>4, <1>6, OpensKeeps
  <2>2. OwnEntries'
    BY <1>1, <2>1 DEF OwnEntries
  <2>3. ASSUME NEW x \in Entries, owner'[x] \in {"queued", "consumer"}
        PROVE  \E t \in put : IsLatest(t, x)' /\ \A d \in BufIds : DataIn(bufs'[x], d) = MessageOf(t, d)
    <3>1. owner[x] \in {"queued", "consumer"}
      BY <1>2, <2>3
    <3>2. PICK t \in put : IsLatest(t, x) /\ \A d \in BufIds : DataIn(bufs[x], d) = MessageOf(t, d)
      BY <1>4, <1>6, <3>1 DEF EtInv, LatestIsQueued, PlacedIn
    <3>3. IsLatest(t, x)'
      BY <2>1, <2>3, <3>2
    <3>4. ASSUME NEW d \in BufIds PROVE DataIn(bufs'[x], d) = DataIn(bufs[x], d)
      BY <1>1, <3>1, DataKept
    <3> QED
      BY <3>2, <3>3, <3>4
  <2>4. LatestIsQueued'
    BY <1>1, <2>3 DEF LatestIsQueued, PlacedIn
  <2> QED
    BY <2>2, <2>4
<1>7. BuffersInSequence'
  <2>1. SUFFICES ASSUME Orderly', NEW t \in Ticks, NEW d \in BufIds,
                        buffers'[t] # NoEntry, t \notin put
                 PROVE  DataIn(bufs'[buffers'[t]], d) = SubSeq(MessageOf(t, d), 1, expSequence[<<t, d>>])
    BY <1>1 DEF BuffersInSequence, PlacedIn
  <2>2. Orderly
    BY <1>4, <2>1
  <2>3. DataIn(bufs'[buffers'[t]], d) =
            IF buffers[t] = NoEntry THEN <<>> ELSE DataIn(bufs[buffers[t]], d)
    BY <1>1, <2>1, <2>2, DataKept
  <2>4. CASE buffers[t] # NoEntry
    BY <2>1, <2>2, <2>3, <2>4 DEF EtInv, BuffersInSequence, PlacedIn
  <2>5. CASE buffers[t] = NoEntry
    <3>1. d \in Ids /\ expSequence[<<t, d>>] \in Nat
      BY <1>1, SourcesSend DEF Basic, TypeOK
    <3>2. ~(expSequence[<<t, d>>] > 0)
      BY <2>5, <3>1 DEF EtInv, InOrderOfTicks
    <3>3. SubSeq(MessageOf(t, d), 1, 0) = <<>>
      BY <3>1, MessageFields
    <3> QED
      BY <2>3, <2>5, <3>1, <3>2, <3>3
  <2> QED
    BY <2>4, <2>5
<1> QED
  BY <1>1, <1>3, <1>5, <1>6, <1>7 DEF EtInv

(* There are as many ends of a tick as there are sources.                  *)
EndsOf(t) == {t} \X BufIds

LEMMA EndsCounted ==
    ASSUME NEW t
    PROVE  IsFiniteSet(EndsOf(t)) /\ Cardinality(EndsOf(t)) = Cardinality(BufIds)
<1>1. IsFiniteSet(BufIds) /\ Cardinality(BufIds) \in Nat
  BY EtAssemblerAssumption, FS_CardinalityType
<1>2. IsFiniteSet({t}) /\ Cardinality({t}) = 1
  BY FS_Singleton
<1>3. IsFiniteSet({t} \X BufIds) /\ Cardinality({t} \X BufIds) = 1 * Cardinality(BufIds)
  BY <1>1, <1>2, FS_Product
<1> QED
  BY <1>1, <1>3 DEF EndsOf

(* endCondition with p's end, before those of a closed tick are erased.    *)
LEMMA EndedIs ==
    ASSUME OneTickAtATime, EtInv, Orderly, NEW p, NEW e, Places(p, e), p.id \in BufIds,
           NEW t \in Ticks, NEW d \in Ids
    PROVE  <<t, d>> \in Ended(p) <=>
               d \in BufIds /\ t \notin put /\ expSequence'[<<t, d>>] = Len(Messages[<<t, d>>])
<1>1. /\ p \in Sent /\ p.tick \in Ticks /\ p.id \in Ids /\ p.seq \in Nat
      /\ p.seq + 1 <= Len(Messages[<<p.tick, p.id>>])
      /\ \A s \in Ticks \X Ids : s # <<p.tick, p.id>> => expSequence'[s] = expSequence[s]
      /\ expSequence'[<<p.tick, p.id>>] = p.seq + 1
      /\ expSequence[<<p.tick, p.id>>] = p.seq
  BY PlacedFacts DEF EtInv, Places
<1>2. p.tick \notin put /\ Closed = put
  BY PlacedInOpenTick
<1>3. <<t, d>> \in endCondition <=>
          d \in BufIds /\ t \notin put /\ expSequence[<<t, d>>] = Len(Messages[<<t, d>>])
  BY <1>2 DEF EtInv, Running, EndsAreOfOpenTicks, Places, Receives
<1>4. Len(Messages[<<p.tick, p.id>>]) \in Nat /\ (p.last <=> p.seq = Len(Messages[<<p.tick, p.id>>]) - 1)
  BY <1>1, SourcesSend, SentFields
<1>5. CASE <<t, d>> = <<p.tick, p.id>>
  <2>1. t = p.tick /\ d = p.id
    BY <1>5
  <2>2. <<t, d>> \notin endCondition
    BY <1>1, <1>3, <1>4, <2>1
  <2>3. <<t, d>> \in Ended(p) <=> p.last
    BY <2>1, <2>2 DEF Ended
  <2>4. p.last <=> expSequence'[<<t, d>>] = Len(Messages[<<t, d>>])
    BY <1>1, <1>4, <2>1
  <2> QED
    BY <1>2, <2>1, <2>3, <2>4
<1>6. CASE <<t, d>> # <<p.tick, p.id>>
  BY <1>1, <1>3, <1>6 DEF Ended
<1> QED
  BY <1>5, <1>6

(* allLastBitsReceived counts the ends of every tick, but all it counts are*)
(* of this one: another would have ended wholly, and this one with it.     *)
LEMMA ClosesOnlyWhole ==
    ASSUME OneTickAtATime, EtInv, Orderly, NEW p, NEW e, Places(p, e), p.id \in BufIds,
           Closes(p)
    PROVE  Whole(p.tick)'
<1>1. /\ p \in Sent /\ p.tick \in Ticks /\ p.id \in Ids /\ p.seq \in Nat
      /\ p.seq + 1 <= Len(Messages[<<p.tick, p.id>>])
      /\ \A s \in Ticks \X Ids : s # <<p.tick, p.id>> => expSequence'[s] = expSequence[s]
      /\ expSequence[<<p.tick, p.id>>] = p.seq
      /\ e \in Entries /\ buffers'[p.tick] = e
  BY PlacedFacts DEF EtInv, Places
<1>2. /\ BufIds \subseteq Ids /\ Ticks \subseteq Nat
      /\ Cardinality(BufIds) \in Nat
      /\ endCondition \subseteq Ticks \X Ids /\ IsFiniteSet(endCondition)
      /\ e # NoEntry
  BY <1>1, EtAssemblerAssumption, NoEntryAssumption, FS_CardinalityType DEF OneTickAtATime, EtInv, Basic, TypeOK
<1>3. /\ p.last /\ Cardinality(Ended(p)) = Cardinality(BufIds)
      /\ Ended(p) = endCondition \union {<<p.tick, p.id>>}
  BY DEF Closes, AllLastBitsReceived, Ended
<1>4. Ended(p) \subseteq Ticks \X Ids /\ IsFiniteSet(Ended(p)) /\ <<p.tick, p.id>> \in Ended(p)
  <2>1. IsFiniteSet(endCondition \union {<<p.tick, p.id>>})
    BY <1>2, FS_AddElement
  <2> QED
    BY <1>1, <1>2, <1>3, <2>1
<1>5. ASSUME NEW t \in Ticks, NEW d \in Ids
      PROVE  <<t, d>> \in Ended(p) <=>
               d \in BufIds /\ t \notin put /\ expSequence'[<<t, d>>] = Len(Messages[<<t, d>>])
  BY EndedIs
<1>6. ASSUME NEW t \in Ticks, NEW u \in Ticks, t < u, u = p.tick \/ buffers[u] # NoEntry
      PROVE  Whole(t)
  <2>1. WholeBefore
    BY DEF EtInv, Running, Places, Receives
  <2>2. CASE buffers[u] # NoEntry
    BY <1>6, <2>1, <2>2 DEF WholeBefore
  <2>3. CASE u = p.tick /\ buffers[u] = NoEntry
    <3>1. Receives(p)
      BY <1>1, <1>2, <2>3 DEF Places, Opens
    <3> QED
      BY <1>6, <2>3, <3>1, OvertakenIsWhole
  <2> QED
    BY <1>6, <2>2, <2>3
<1>7. ASSUME NEW t \in Ticks, NEW d \in Ids, <<t, d>> \in Ended(p), t < p.tick PROVE FALSE
  <2>1. Whole(t) /\ t \notin put
    BY <1>1, <1>5, <1>6, <1>7
  <2>2. ASSUME NEW k \in BufIds PROVE <<t, k>> \in Ended(p)
    <3>1. k \in Ids /\ <<t, k>> # <<p.tick, p.id>> /\ p.tick \in Nat
      BY <1>1, <1>2, <1>7
    <3>2. expSequence'[<<t, k>>] = Len(Messages[<<t, k>>])
      BY <1>1, <2>1, <3>1 DEF Whole
    <3> QED
      BY <1>5, <2>1, <3>1, <3>2
  <2> DEFINE more == EndsOf(t) \union {<<p.tick, p.id>>}
  <2>3. more \subseteq Ended(p)
    BY <1>4, <2>2 DEF EndsOf
  <2>4. <<p.tick, p.id>> \notin EndsOf(t)
    BY <1>1, <1>2, <1>7 DEF EndsOf
  <2>5. Cardinality(more) = Cardinality(BufIds) + 1
    <3>1. IsFiniteSet(EndsOf(t)) /\ Cardinality(EndsOf(t)) = Cardinality(BufIds)
      BY EndsCounted
    <3>2. Cardinality(EndsOf(t) \union {<<p.tick, p.id>>}) = Cardinality(EndsOf(t)) + 1
      BY <2>4, <3>1, FS_AddElement
    <3> QED
      BY <3>1, <3>2
  <2>6. Cardinality(more) <= Cardinality(Ended(p))
    BY <1>4, <2>3, FS_Subset
  <2> QED
    BY <1>2, <1>3, <2>5, <2>6
<1>8. ASSUME NEW t \in Ticks, NEW d \in Ids, <<t, d>> \in Ended(p), p.tick < t PROVE FALSE
  <2>1. /\ d \in BufIds /\ expSequence'[<<t, d>>] = Len(Messages[<<t, d>>])
    BY <1>5, <1>8
  <2>2. <<t, d>> # <<p.tick, p.id>>
    BY <1>1, <1>2, <1>8
  <2>3. expSequence[<<t, d>>] > 0
    BY <1>1, <2>1, <2>2, SourcesSend
  <2>4. buffers[t] # NoEntry
    BY <2>3 DEF EtInv, InOrderOfTicks
  <2>5. Whole(p.tick)
    BY <1>1, <1>6, <1>8, <2>4
  <2>6. expSequence[<<p.tick, p.id>>] = Len(Messages[<<p.tick, p.id>>])
    BY <2>5 DEF Whole
  <2> QED
    BY <1>1, <2>6
<1>9. Ended(p) \subseteq EndsOf(p.tick)
  <2>1. SUFFICES ASSUME NEW t \in Ticks, NEW d \in Ids, <<t, d>> \in Ended(p)
                 PROVE  t = p.tick /\ d \in BufIds
    BY <1>4 DEF EndsOf
  <2>2. t \in Nat /\ p.tick \in Nat
    BY <1>1, <1>2
  <2> QED
    BY <1>5, <1>7, <1>8, <2>1, <2>2
<1>10. Ended(p) = EndsOf(p.tick)
  BY <1>3, <1>9, EndsCounted, FS_Subset
<1>11. ASSUME NEW d \in BufIds PROVE expSequence'[<<p.tick, d>>] = Len(Messages[<<p.tick, d>>])
  <2>1. <<p.tick, d>> \in Ended(p) /\ d \in Ids
    BY <1>2, <1>10 DEF EndsOf
  <2> QED
    BY <1>1, <1>5, <2>1
<1> QED
  BY <1>11 DEF Whole

LEMMA PlacesKeeps ==
    ASSUME OneTickAtATime, EtInv, NEW p, NEW e, Places(p, e)
    PROVE  EtInv'
<1>1. /\ Basic /\ Basic' /\ Opens(p, e) /\ Changes(p, e)
      /\ pc = "recv" => Receives(p)
      /\ pc \in {"recv", "drain"} /\ net' \subseteq net /\ losses' = losses
      /\ cur' = p /\ put' = put
      /\ DataIn(bufs'[e], p.id) = Append(DataIn(EntryOf(p, e), p.id), p)
      /\ p.seq = expSequence[<<p.tick, p.id>>]
  BY PlacesBasic DEF EtInv, Places, Receives, netVars
<1>2. /\ p \in Sent /\ p.tick \in Ticks /\ p.id \in Ids /\ p.seq \in Nat
      /\ p.seq + 1 <= Len(Messages[<<p.tick, p.id>>])
      /\ \A s \in Ticks \X Ids : expSequence[s] <= expSequence'[s]
      /\ \A s \in Ticks \X Ids : s # <<p.tick, p.id>> => expSequence'[s] = expSequence[s]
      /\ expSequence'[<<p.tick, p.id>>] = p.seq + 1
  BY <1>1, PlacedFacts
<1>3. /\ \A t \in Ticks : t # p.tick => buffers'[t] = buffers[t]
      /\ \A t \in Ticks : buffers[t] # NoEntry => buffers'[t] = buffers[t]
      /\ buffers'[p.tick] = e /\ e \in Entries /\ e # NoEntry
      /\ \A x \in Entries : owner'[x] \in {"queued", "consumer"} => owner[x] = owner'[x]
  BY <1>1, <1>2, OwnersTyped, NoEntryAssumption
<1>4. InOrderOfTicks'
  <2>1. \A t \in Ticks : buffers'[t] # NoEntry => \A q \in net' : q.tick >= t
    BY <1>1, <1>2, OpensKeeps
  <2>2. ASSUME NEW s \in Ticks \X Ids, expSequence'[s] > 0 PROVE buffers'[s[1]] # NoEntry
    <3>1. CASE s = <<p.tick, p.id>>
      BY <1>3, <3>1
    <3>2. CASE s # <<p.tick, p.id>>
      <4>1. expSequence[s] > 0 /\ s[1] \in Ticks
        BY <1>2, <2>2, <3>2
      <4> QED
        BY <1>3, <4>1 DEF EtInv, InOrderOfTicks
    <3> QED
      BY <3>1, <3>2
  <2>3. \A t \in put : t \in Ticks /\ buffers[t] # NoEntry
    BY <1>1 DEF EtInv, InOrderOfTicks, Basic, TypeOK
  <2> QED
    BY <1>1, <1>3, <2>1, <2>2, <2>3 DEF InOrderOfTicks
<1>5. ASSUME Orderly'
      PROVE  Orderly /\ p.id \in BufIds /\ p.tick \notin put /\ Closed = put
  BY <1>1, <1>5, OrderlyBefore, PlacedInOpenTick
<1>6. ASSUME Orderly' PROVE NothingMissing' /\ WholeBefore' /\ EndsAreOfOpenTicks'
  <2>1. /\ Orderly /\ NothingMissing /\ WholeBefore /\ EndsAreOfOpenTicks
        /\ p.id \in BufIds /\ p.tick \notin put /\ Closed = put
    BY <1>1, <1>5, <1>6 DEF EtInv, Running
  <2>2. NothingMissing'
    <3>1. SUFFICES ASSUME NEW q \in Sent, q.id \in BufIds
                   PROVE  q \in net' \/ q \in stored' \/ q.seq < expSequence'[<<q.tick, q.id>>]
      BY DEF NothingMissing
    <3>2. q.tick \in Ticks /\ q.id \in Ids /\ q.seq \in Nat
      <4>1. q.tick \in Ticks /\ q.id \in Ids /\ q.seq \in 0..(Len(Messages[<<q.tick, q.id>>]) - 1)
        BY SentFields
      <4> QED
        BY <4>1
    <3>3. CASE q = p
      BY <1>2, <3>3
    <3>4. CASE q # p /\ (q \in net \/ q \in stored)
      BY <3>4 DEF Places, Receives, netVars
    <3>5. CASE q.seq < expSequence[<<q.tick, q.id>>]
      <4>1. /\ expSequence[<<q.tick, q.id>>] <= expSequence'[<<q.tick, q.id>>]
            /\ expSequence[<<q.tick, q.id>>] \in Nat /\ expSequence'[<<q.tick, q.id>>] \in Nat
        BY <1>1, <1>2, <3>2 DEF Basic, TypeOK
      <4> QED
        BY <3>2, <3>5, <4>1
    <3> QED
      BY <2>1, <3>1, <3>3, <3>4, <3>5 DEF NothingMissing
  <2>3. ASSUME NEW t \in Ticks, Whole(t) PROVE Whole(t)'
    <3>1. t # p.tick
      <4>1. SUFFICES ASSUME t = p.tick PROVE FALSE
        OBVIOUS
      <4>2. expSequence[<<p.tick, p.id>>] = Len(Messages[<<p.tick, p.id>>])
        BY <2>1, <2>3, <4>1 DEF Whole
      <4> QED
        BY <1>1, <1>2, <4>2
    <3>2. ASSUME NEW d \in BufIds PROVE expSequence'[<<t, d>>] = expSequence[<<t, d>>]
      <4>1. d \in Ids /\ <<t, d>> # <<p.tick, p.id>>
        BY <3>1 DEF OneTickAtATime
      <4> QED
        BY <1>2, <4>1
    <3> QED
      BY <2>3, <3>2 DEF Whole
  <2>4. ASSUME NEW t \in Ticks, NEW u \in Ticks, t < u, buffers'[u] # NoEntry PROVE Whole(t)
    <3>1. CASE buffers[u] # NoEntry
      BY <2>1, <2>4, <3>1 DEF WholeBefore
    <3>2. CASE buffers[u] = NoEntry
      <4>1. u = p.tick /\ Receives(p)
        BY <1>1, <1>3, <2>4, <3>2 DEF Opens
      <4> QED
        BY <2>1, <2>4, <4>1, OvertakenIsWhole
    <3> QED
      BY <3>1, <3>2
  <2>5. ASSUME NEW t \in Ticks, NEW d \in Ids
        PROVE  <<t, d>> \in Ended(p) <=>
                  d \in BufIds /\ t \notin put /\ expSequence'[<<t, d>>] = Len(Messages[<<t, d>>])
    BY <2>1, EndedIs
  <2>6. /\ \/ /\ Closes(p) /\ Closed' = put \union {p.tick}
              /\ endCondition' = {end \in Ended(p) : end[1] # p.tick}
           \/ Closed' = put /\ endCondition' = Ended(p)
    BY <1>1 DEF Places, Closed
  <2>7. WholeBefore'
    <3>1. put \subseteq Ticks
      BY <1>1 DEF Basic, TypeOK
    <3>2. \A t \in Closed' : Whole(t)'
      <4>1. \A t \in put : Whole(t)'
        BY <2>1, <2>3, <3>1 DEF WholeBefore
      <4>2. Closes(p) => Whole(p.tick)'
        BY <2>1, ClosesOnlyWhole
      <4> QED
        BY <2>6, <4>1, <4>2
    <3> QED
      BY <2>3, <2>4, <3>2 DEF WholeBefore
  <2>8. EndsAreOfOpenTicks'
    <3>1. SUFFICES ASSUME NEW t \in Ticks, NEW d \in Ids
                   PROVE  <<t, d>> \in endCondition' <=>
                              /\ d \in BufIds /\ t \notin Closed'
                              /\ expSequence'[<<t, d>>] = Len(Messages[<<t, d>>])
      BY DEF EndsAreOfOpenTicks
    <3>2. <<t, d>>[1] = t
      OBVIOUS
    <3>3. CASE Closed' = put /\ endCondition' = Ended(p)
      BY <2>5, <3>3
    <3>4. CASE /\ Closed' = put \union {p.tick}
               /\ endCondition' = {end \in Ended(p) : end[1] # p.tick}
      <4>1. <<t, d>> \in endCondition' <=> <<t, d>> \in Ended(p) /\ t # p.tick
        BY <3>2, <3>4
      <4> QED
        BY <2>5, <3>4, <4>1
    <3> QED
      BY <2>6, <3>3, <3>4
  <2> QED
    BY <2>2, <2>7, <2>8
<1>7. ASSUME Orderly' PROVE OwnEntries' /\ LatestIsQueued'
  <2>1. /\ \A t \in Ticks : (buffers'[t] # NoEntry /\ t \notin put) => owner'[buffers'[t]] = "producer"
        /\ \A t, u \in Ticks :
               (t < u /\ buffers'[t] = buffers'[u] /\ buffers'[t] # NoEntry) => t \in put
        /\ \A x \in Entries, t \in put :
               (owner'[x] \in {"queued", "consumer"} /\ IsLatest(t, x)) => IsLatest(t, x)'
    BY <1>1, <1>2, <1>5, <1>7, OpensKeeps
  <2>2. OwnEntries'
    BY <1>1, <1>5, <1>7, <2>1 DEF OwnEntries
  <2>3. ASSUME NEW x \in Entries, owner'[x] \in {"queued", "consumer"}
        PROVE  \E t \in put : IsLatest(t, x)' /\ \A d \in BufIds : DataIn(bufs'[x], d) = MessageOf(t, d)
    <3>1. owner[x] \in {"queued", "consumer"} /\ x # e
      <4>1. owner'[e] = "producer"
        BY <1>2, <1>3, <1>5, <1>7, <2>1
      <4> QED
        BY <1>3, <2>3, <4>1
    <3>2. PICK t \in put : IsLatest(t, x) /\ \A d \in BufIds : DataIn(bufs[x], d) = MessageOf(t, d)
      BY <1>5, <1>7, <3>1 DEF EtInv, LatestIsQueued, PlacedIn
    <3>3. IsLatest(t, x)'
      BY <2>1, <2>3, <3>2
    <3>4. bufs'[x] = bufs[x]
      BY <1>1, <3>1, EntriesStayWellFormed
    <3> QED
      BY <3>2, <3>3, <3>4
  <2>4. LatestIsQueued'
    BY <1>1, <2>3 DEF LatestIsQueued, PlacedIn
  <2> QED
    BY <2>2, <2>4
<1>8. BuffersInSequence'
  <2>1. SUFFICES ASSUME Orderly', NEW t \in Ticks, NEW d \in BufIds,
                        buffers'[t] # NoEntry, t \notin put
                 PROVE  DataIn(bufs'[buffers'[t]], d) = SubSeq(MessageOf(t, d), 1, expSequence'[<<t, d>>])
    BY <1>1 DEF BuffersInSequence, PlacedIn
  <2>2. Orderly /\ p.id \in BufIds /\ p.tick \notin put /\ d \in Ids
    BY <1>5, <2>1, SourcesSend
  <2> DEFINE before == IF buffers[t] = NoEntry THEN <<>> ELSE DataIn(bufs[buffers[t]], d)
             k      == expSequence[<<t, d>>]
  <2>3. before = SubSeq(MessageOf(t, d), 1, k) /\ k \in 0..Len(Messages[<<t, d>>])
    <3>1. k \in Nat /\ k <= Len(Messages[<<t, d>>]) /\ Len(Messages[<<t, d>>]) \in Nat
      BY <1>1, <2>2, SourcesSend DEF Basic, TypeOK
    <3>2. CASE buffers[t] # NoEntry
      BY <2>1, <2>2, <3>1, <3>2 DEF EtInv, BuffersInSequence, PlacedIn
    <3>3. CASE buffers[t] = NoEntry
      <4>1. ~(k > 0)
        BY <2>2, <3>3 DEF EtInv, InOrderOfTicks
      <4>2. k = 0
        BY <3>1, <4>1
      <4>3. SubSeq(MessageOf(t, d), 1, 0) = <<>>
        BY <2>2, MessageFields
      <4> QED
        BY <3>1, <3>3, <4>2, <4>3
    <3> QED
      BY <3>2, <3>3
  <2>4. CASE t = p.tick /\ d = p.id
    <3>1. DataIn(EntryOf(p, e), d) = before
      <4>1. CASE buffers[p.tick] = e
        BY <1>3, <2>4, <4>1 DEF EntryOf
      <4>2. CASE buffers[p.tick] # e
        <5>1. buffers[p.tick] = NoEntry
          BY <1>1, <4>2 DEF Opens
        <5> QED
          BY <2>2, <2>4, <4>2, <5>1, NewIsEmpty DEF EntryOf
      <4> QED
        BY <4>1, <4>2
    <3>2. DataIn(bufs'[buffers'[t]], d) = Append(SubSeq(MessageOf(t, d), 1, k), p)
      BY <1>1, <1>3, <2>3, <2>4, <3>1
    <3>3. p = Packet(t, d, k) /\ k < Len(Messages[<<t, d>>]) /\ expSequence'[<<t, d>>] = k + 1
      <4>1. p = Packet(p.tick, p.id, p.seq)
        BY <1>2, SentFields
      <4> QED
        BY <1>1, <1>2, <2>3, <2>4, <4>1
    <3> QED
      BY <2>2, <2>3, <3>2, <3>3, FirstPackets
  <2>5. CASE ~(t = p.tick /\ d = p.id)
    <3>1. expSequence'[<<t, d>>] = k
      BY <1>2, <2>2, <2>5
    <3>2. DataIn(bufs'[buffers'[t]], d) = before
      <4>1. CASE d # p.id
        BY <1>1, <1>2, <2>1, <2>2, <4>1, DataKept
      <4>2. CASE t # p.tick
        <5>1. buffers'[t] = buffers[t] /\ buffers[t] # e /\ buffers[t] \in Entries
          <6>1. buffers'[t] # e
            <7>1. \A u, v \in Ticks :
                     (u < v /\ buffers'[u] = buffers'[v] /\ buffers'[u] # NoEntry) => u \in put
              BY <1>1, <1>2, <2>2, OpensKeeps
            <7>2. t \in Nat /\ p.tick \in Nat
              BY <1>2, EtAssemblerAssumption
            <7> QED
              BY <1>2, <1>3, <2>1, <2>2, <4>2, <7>1, <7>2
          <6> QED
            BY <1>1, <1>3, <2>1, <4>2, <6>1 DEF Basic, TypeOK
        <5>2. bufs'[buffers[t]] = bufs[buffers[t]]
          BY <1>1, <5>1, EntriesStayWellFormed
        <5> QED
          BY <2>1, <5>1, <5>2
      <4> QED
        BY <2>5, <4>1, <4>2
    <3> QED
      BY <2>3, <3>1, <3>2
  <2> QED
    BY <2>4, <2>5
<1> QED
  BY <1>1, <1>4, <1>6, <1>7, <1>8 DEF EtInv

LEMMA PutKeeps ==
    ASSUME OneTickAtATime, EtInv, PutEntry
    PROVE  EtInv'
<1>1. /\ Basic /\ Basic' /\ pc = "put" /\ pc' = "recv"
      /\ cur \in Sent /\ cur.tick \in Ticks /\ TheEntry \in Entries
      /\ TheEntry = buffers[cur.tick] /\ TheEntry # NoEntry
      /\ put' = put \union {cur.tick} /\ put \subseteq Ticks
      /\ UNCHANGED <<netVars, mapVars, cur, bufs>>
      /\ Ticks \subseteq Nat
  BY PutBasic, SentFields, EtAssemblerAssumption, NoEntryAssumption
     DEF EtInv, Basic, TypeOK, CurIsPlaced, PutEntry, TheEntry
<1>2. /\ owner'[TheEntry] = "queued"
      /\ \A x \in Entries : x # TheEntry => owner'[x] = owner[x]
  BY <1>1 DEF PutEntry, Basic, TypeOK
<1>3. Closed' = Closed /\ (Orderly' => Orderly) /\ Running
  BY <1>1 DEF Closed, Orderly, Running, netVars, mapVars
<1>4. InOrderOfTicks'
  BY <1>1 DEF EtInv, InOrderOfTicks, netVars, mapVars
<1>5. ASSUME Orderly' PROVE NothingMissing' /\ WholeBefore' /\ EndsAreOfOpenTicks'
  <2>1. NothingMissing /\ WholeBefore /\ EndsAreOfOpenTicks
    BY <1>3, <1>5 DEF EtInv
  <2> QED
    BY <1>1, <1>3, <2>1 DEF NothingMissing, WholeBefore, Whole, EndsAreOfOpenTicks, netVars, mapVars
<1>6. ASSUME Orderly' PROVE OwnEntries' /\ LatestIsQueued'
  <2>1. Orderly /\ OwnEntries /\ LatestIsQueued /\ WholeBefore /\ BuffersInSequence
    BY <1>3, <1>6 DEF EtInv
  <2>2. /\ cur.tick \notin put /\ cur.tick \in Closed
        /\ \A t \in Ticks : (t \notin put' /\ buffers[t] # NoEntry) => buffers[t] # TheEntry
    <3>1. cur.tick \notin put /\ cur.tick \in Closed
      BY <1>1, <2>1 DEF OwnEntries, Closed
    <3>2. ASSUME NEW t \in Ticks, t \notin put', buffers[t] = TheEntry PROVE FALSE
      <4>1. t # cur.tick /\ t \notin put /\ t \in Nat /\ cur.tick \in Nat
        BY <1>1, <3>2
      <4>2. CASE t < cur.tick
        BY <1>1, <2>1, <3>2, <4>1, <4>2 DEF OwnEntries
      <4>3. CASE cur.tick < t
        BY <1>1, <2>1, <3>1, <3>2, <4>1, <4>3 DEF OwnEntries
      <4> QED
        BY <4>1, <4>2, <4>3
    <3> QED
      BY <3>1, <3>2
  <2>3. OwnEntries'
    <3>1. ASSUME NEW t \in Ticks, buffers'[t] # NoEntry, t \notin put' PROVE owner'[buffers'[t]] = "producer"
      <4>1. buffers'[t] = buffers[t] /\ buffers[t] \in Entries /\ t \notin put
        BY <1>1, <3>1 DEF Basic, TypeOK, mapVars
      <4> QED
        BY <1>2, <2>1, <2>2, <3>1, <4>1 DEF OwnEntries
    <3> QED
      BY <1>1, <2>1, <3>1 DEF OwnEntries, mapVars
  <2>4. IsLatest(cur.tick, TheEntry)
    <3>1. ASSUME NEW u \in Ticks, buffers[u] = TheEntry, cur.tick < u PROVE FALSE
      BY <1>1, <2>1, <2>2, <3>1 DEF OwnEntries
    <3>2. ASSUME NEW u \in Ticks, buffers[u] = TheEntry PROVE u <= cur.tick
      <4>1. u \in Nat /\ cur.tick \in Nat /\ ~(cur.tick < u)
        BY <1>1, <3>1, <3>2
      <4> QED
        BY <4>1
    <3> QED
      BY <1>1, <3>2 DEF IsLatest
  <2>5. ASSUME NEW d \in BufIds PROVE PlacedIn(TheEntry, d) = MessageOf(cur.tick, d)
    <3>1. PlacedIn(TheEntry, d) = SubSeq(MessageOf(cur.tick, d), 1, expSequence[<<cur.tick, d>>])
      BY <1>1, <2>1, <2>2 DEF BuffersInSequence
    <3>2. expSequence[<<cur.tick, d>>] = Len(Messages[<<cur.tick, d>>])
      BY <2>1, <2>2 DEF WholeBefore, Whole
    <3>3. d \in Ids /\ expSequence[<<cur.tick, d>>] \in 0..Len(Messages[<<cur.tick, d>>])
      <4>1. d \in Ids /\ Len(Messages[<<cur.tick, d>>]) \in Nat
        BY <1>1, SourcesSend
      <4> QED
        BY <3>2, <4>1
    <3> QED
      BY <1>1, <3>1, <3>2, <3>3, FirstPackets
  <2>6. ASSUME NEW x \in Entries, owner'[x] \in {"queued", "consumer"}
        PROVE  \E t \in put' : IsLatest(t, x) /\ \A d \in BufIds : PlacedIn(x, d) = MessageOf(t, d)
    <3>1. CASE x = TheEntry
      BY <1>1, <2>4, <2>5, <3>1
    <3>2. CASE x # TheEntry
      BY <1>1, <1>2, <2>1, <2>6, <3>2 DEF LatestIsQueued
    <3> QED
      BY <3>1, <3>2
  <2>7. LatestIsQueued'
    BY <1>1, <2>6 DEF LatestIsQueued, IsLatest, PlacedIn, mapVars
  <2> QED
    BY <2>3, <2>7
<1>7. BuffersInSequence'
  BY <1>1, <1>3 DEF EtInv, BuffersInSequence, PlacedIn, mapVars
<1> QED
  BY <1>1, <1>4, <1>5, <1>6, <1>7 DEF EtInv

LEMMA AsideKeeps ==
    ASSUME OneTickAtATime, EtInv, Aside
    PROVE  EtInv'
<1>1. Basic /\ Basic'
  BY AsideBasic DEF EtInv
<1>2. UNCHANGED <<buffers, expSequence, endCondition, bufs, cur, put>> /\ net' \subseteq net
  BY DEF Aside, Fails, RecvFails, NoNewEntry, Arrive, Lose, DrainNoRoom, Consumer, GetEntry,
         GiveBack,
         vars, netVars, mapVars, etVars
<1>3. InOrderOfTicks'
  BY <1>2 DEF EtInv, InOrderOfTicks
<1>4. ASSUME Orderly' PROVE Orderly /\ losses' = losses
  <2>1. ASSUME NEW p \in net, Lose(p) PROVE FALSE
    BY <1>1, <1>4, <2>1, EtAssemblerAssumption DEF Lose, Orderly, Basic, TypeOK
  <2>2. losses' = losses
    BY <2>1 DEF Aside, Fails, RecvFails, NoNewEntry, Arrive, DrainNoRoom, Consumer, GetEntry,
                GiveBack, vars, netVars
  <2> QED
    BY <1>2, <1>4, <2>2 DEF Orderly
<1>5. ASSUME Orderly', Running' PROVE NothingMissing' /\ WholeBefore' /\ EndsAreOfOpenTicks'
  <2>1. UNCHANGED <<net, stored, pc>>
    <3>1. ASSUME NEW p \in net, Lose(p) PROVE FALSE
      BY <1>1, <1>5, <3>1, EtAssemblerAssumption DEF Lose, Orderly, Basic, TypeOK
    <3>2. ~Fails /\ ~\E q \in stored : DrainNoRoom(q)
      BY <1>5 DEF Running, Fails, RecvFails, NoNewEntry, Arrive, DrainNoRoom, Throw
    <3> QED
      BY <3>1, <3>2 DEF Aside, Consumer, GetEntry, GiveBack, vars, netVars, mapVars
  <2>2. NothingMissing /\ WholeBefore /\ EndsAreOfOpenTicks
    BY <1>4, <1>5, <2>1 DEF EtInv, Running
  <2> QED
    BY <1>2, <2>1, <2>2 DEF NothingMissing, WholeBefore, Whole, EndsAreOfOpenTicks, Closed
<1>6. ASSUME Orderly' PROVE OwnEntries' /\ LatestIsQueued'
  <2>1. OwnEntries /\ LatestIsQueued
    BY <1>4, <1>6 DEF EtInv
  <2>2. \A x \in Entries : /\ owner[x] = "producer" => owner'[x] = "producer"
                           /\ owner'[x] \in {"queued", "consumer"} => owner[x] \in {"queued", "consumer"}
    BY <1>1 DEF Aside, Fails, RecvFails, NoNewEntry, Arrive, Lose, DrainNoRoom, Consumer,
                GetEntry, GiveBack,
                vars, etVars, Basic, TypeOK
  <2>3. pc' \in {"drain", "put"} => pc' = pc
    BY DEF Aside, Fails, RecvFails, NoNewEntry, Arrive, Lose, DrainNoRoom, Throw, Consumer,
           GetEntry, GiveBack, vars
  <2>4. \A t \in Ticks : buffers[t] # NoEntry => buffers[t] \in Entries
    BY <1>1 DEF Basic, TypeOK
  <2>5. OwnEntries'
    BY <1>2, <2>1, <2>2, <2>3, <2>4 DEF OwnEntries
  <2>6. LatestIsQueued'
    BY <1>2, <2>1, <2>2 DEF LatestIsQueued, IsLatest, PlacedIn
  <2> QED
    BY <2>5, <2>6
<1>7. BuffersInSequence'
  BY <1>2, <1>4 DEF EtInv, BuffersInSequence, PlacedIn
<1> QED
  BY <1>1, <1>3, <1>5, <1>6, <1>7 DEF EtInv

LEMMA EtStep == OneTickAtATime /\ EtInv /\ [Next]_vars => EtInv'
<1> SUFFICES ASSUME OneTickAtATime, EtInv, [Next]_vars PROVE EtInv'
  OBVIOUS
<1>1. Basic
  BY DEF EtInv
<1> QED
  BY <1>1, StepsOfNext, RefusesKeeps, PlacesKeeps, PutKeeps, AsideKeeps

(* As long as the ticks do not overtake one another and every source sends *)
(* something for each: the buffers of a tick that is not put yet hold just *)
(* the packets that were placed, in their order.                           *)
THEOREM EtBuffersInSequence ==
    ASSUME OneTickAtATime
    PROVE  Spec => []BuffersInSequence
<1>1. Init => EtInv
  BY EtInit
<1>2. EtInv /\ [Next]_vars => EtInv'
  BY EtStep
<1>3. EtInv => BuffersInSequence
  BY DEF EtInv
<1> QED
  BY <1>1, <1>2, <1>3, PTL DEF Spec

(* And an entry that the consumer may get, or has, holds all that every    *)
(* source sent for one tick.                                               *)
THEOREM EtQueuedIsWhole ==
    ASSUME OneTickAtATime
    PROVE  Spec => []QueuedIsWhole
<1>1. Init => EtInv
  BY EtInit
<1>2. EtInv /\ [Next]_vars => EtInv'
  BY EtStep
<1>3. EtInv => QueuedIsWhole
  <2>1. put \subseteq Ticks => \A t \in put, e \in Entries : IsLatest(t, e) => buffers[t] = e
    BY DEF IsLatest
  <2> QED
    BY <2>1 DEF EtInv, LatestIsQueued, QueuedIsWhole, IsLatest
<1> QED
  BY <1>1, <1>2, <1>3, PTL DEF Spec

(* No step changes the sources' data in an entry that was put, though the  *)
(* map still leads to it.                                                  *)
LEMMA QueuedAloneStep ==
    ASSUME OneTickAtATime, EtInv, [Next]_vars, Orderly,
           NEW x \in Entries, owner[x] \in {"queued", "consumer"}, NEW d \in BufIds
    PROVE  DataIn(bufs'[x], d) = DataIn(bufs[x], d)
<1>1. Basic
  BY DEF EtInv
<1>2. ASSUME NEW p, NEW e, Refuses(p, e) PROVE DataIn(bufs'[x], d) = DataIn(bufs[x], d)
  <2>1. p \in Sent /\ Opens(p, e) /\ Changes(p, e) /\ DataIn(bufs'[e], p.id) = DataIn(EntryOf(p, e), p.id)
    BY <1>1, <1>2 DEF Refuses, Receives, Basic, TypeOK
  <2> QED
    BY <2>1, DataKept
<1>3. ASSUME NEW p, NEW e, Places(p, e) PROVE DataIn(bufs'[x], d) = DataIn(bufs[x], d)
  <2>1. p \in Sent /\ Opens(p, e) /\ Changes(p, e) /\ e \in Entries /\ p.tick \in Ticks
    BY <1>1, <1>3, PlacedFacts DEF Places
  <2>2. CASE p.id \in BufIds
    <3>1. p.tick \notin put
      BY <1>3, <2>2, PlacedInOpenTick
    <3>2. owner[e] \in {"producer", "free"}
      BY <2>1, <3>1, NoEntryAssumption DEF EtInv, OwnEntries, Opens
    <3>3. x # e
      BY <3>2
    <3> QED
      BY <1>1, <2>1, <3>3, EntriesStayWellFormed
  <2>3. CASE p.id \notin BufIds
    BY <2>1, <2>3, DataKept
  <2> QED
    BY <2>2, <2>3
<1>4. ASSUME PutEntry \/ Aside PROVE bufs' = bufs
  BY <1>4 DEF PutEntry, Aside, Fails, RecvFails, NoNewEntry, Arrive, Lose, DrainNoRoom, Consumer,
              GetEntry, GiveBack,
              vars, etVars
<1> QED
  BY <1>1, <1>2, <1>3, <1>4, StepsOfNext

THEOREM EtLeavesQueuedAlone ==
    ASSUME OneTickAtATime
    PROVE  Spec => LeavesQueuedAlone
<1>1. Init => EtInv
  BY EtInit
<1>2. EtInv /\ [Next]_vars => EtInv'
  BY EtStep
<1>3. EtInv /\ [Next]_vars =>
          [\A e \in Entries, d \in BufIds :
              (Orderly /\ owner[e] \in {"queued", "consumer"}) =>
                  PlacedIn(e, d)' = PlacedIn(e, d)]_vars
  BY QueuedAloneStep DEF PlacedIn
<1> QED
  BY <1>1, <1>2, <1>3, PTL DEF Spec, LeavesQueuedAlone

-----------------------------------------------------------------------------
(* The receiver of the entries.                                            *)

(* An array begins with what was written to it, and is empty only if       *)
(* nothing ever was.                                                       *)
LEMMA OverIs ==
    ASSUME NEW data \in Seq(Sent), NEW old \in Seq(Sent)
    PROVE  /\ Over(data, old) \in Seq(Sent)
           /\ IsPrefix(data, Over(data, old))
           /\ (data = <<>> /\ old = <<>>) => Over(data, old) = <<>>
<1> DEFINE rest == SubSeq(old, Len(data) + 1, Len(old))
<1>1. rest \in Seq(Sent) /\ Len(data) \in Nat
  OBVIOUS
<1>2. Over(data, old) = data \o rest
  BY DEF Over
<1>3. (data = <<>> /\ old = <<>>) => rest = <<>>
  OBVIOUS
<1> HIDE DEF rest
<1>4. /\ data \o rest \in Seq(Sent)
      /\ Len(data) <= Len(data \o rest)
      /\ \A i \in 1..Len(data) : (data \o rest)[i] = data[i]
  BY <1>1
<1>5. SubSeq(data, 1, Len(data)) = SubSeq(data \o rest, 1, Len(data))
  BY <1>1, <1>4
<1>6. (data = <<>> /\ rest = <<>>) => data \o rest = <<>>
  OBVIOUS
<1> QED
  BY <1>2, <1>3, <1>4, <1>5, <1>6 DEF IsPrefix

LEMMA ArraysTyped ==
    ASSUME Basic, ERBasic, NEW e \in Entries, NEW i \in 1..Capacity
    PROVE  /\ bufs[e][i].pkts \in Seq(Sent) /\ remains[e][i] \in Seq(Sent)
           /\ DataArray(e, i) \in Seq(Sent)
<1>1. bufs[e] \in Entry /\ remains[e] \in [1..Capacity -> Seq(Sent)]
  BY DEF Basic, TypeOK, ERBasic, ERTypeOK, Entry
<1>2. bufs[e][i].pkts \in Seq(Sent) /\ remains[e][i] \in Seq(Sent)
  BY <1>1 DEF Entry
<1> QED
  BY <1>2, OverIs DEF DataArray

LEMMA ERBasicInit == ERInit => ERBasic
<1> SUFFICES ASSUME ERInit PROVE ERBasic
  OBVIOUS
<1>1. TypeOK /\ Capacity \in Nat /\ MaxFifoErrors \in Nat
  BY BasicInit, EtAssemblerAssumption, EtReceiverAssumption DEF ERInit, Basic
<1>2. entered = 0 /\ given = <<>> /\ published = <<>> /\ fifoIds = <<>> /\ Len(<<>>) = 0
  BY DEF ERInit, Ring!Init
<1>3. given = [n \in 1..Len(given) |-> n]
  BY <1>2
<1>4. remains \in [Entries -> [1..Capacity -> Seq(Sent)]]
  BY DEF ERInit
<1> QED
  BY <1>1, <1>2, <1>3, <1>4 DEF ERInit, ERBasic, ERTypeOK, Stages

(* A step of the whole is one of EtAssembler, or none of its variables     *)
(* changes.                                                                *)
LEMMA ERNextIsNext ==
    ASSUME ERBasic, [ERNext]_etReaderVars
    PROVE  [Next]_vars
<1>1. ASSUME GiveEntryBack PROVE Next
  BY <1>1 DEF ERBasic, GiveEntryBack, Next, Consumer
<1>2. ASSUME NEW e \in Entries, GetEntryFrom(e) PROVE Next
  BY <1>2 DEF GetEntryFrom, Next, Consumer
<1>3. ASSUME Producer \/ Trouble PROVE Next
  BY <1>3 DEF Producer, Trouble, Next
<1>4. ASSUME Loop \/ ClosedThrows \/ OpenThrows \/ PublishBuffer \/ Caller \/ Close \/ CloseFifo
      PROVE  UNCHANGED vars
  BY <1>4 DEF Loop, ClosedThrows, OpenThrows, Thrown, PublishBuffer, Caller, Close, CloseFifo
<1> QED
  BY <1>1, <1>2, <1>3, <1>4 DEF ERNext, Receiver, etReaderVars

(* The events given to the caller are 1, 2, 3, ...                         *)
LEMMA GivenGrows ==
    ASSUME given \in Seq(Nat), given = [n \in 1..Len(given) |-> n],
           given' = Append(given, Len(given) + 1)
    PROVE  given' \in Seq(Nat) /\ given' = [n \in 1..Len(given') |-> n]
<1>1. Len(given) \in Nat /\ given' \in Seq(Nat) /\ Len(given') = Len(given) + 1
  OBVIOUS
<1>2. \A n \in 1..Len(given') : given'[n] = n
  BY <1>1
<1>3. given' = [n \in 1..Len(given') |-> given'[n]]
  BY <1>1
<1> QED
  BY <1>1, <1>2, <1>3

(* The next buffer of the entry: its array, and whose it is.               *)
LEMMA PublishEffect ==
    ASSUME Basic, ERBasic, PublishBuffer
    PROVE  LET k   == idCount + 1
               new == bufs[entry][k]
           IN  /\ stage = "publish" /\ entry \in Entries
               /\ k \in 1..Capacity /\ idCount' = k /\ idCount \in Nat /\ Capacity \in Nat
               /\ stage' = IF k = Capacity THEN "give" ELSE "publish"
               /\ new.id \in Ids \union {NoId} /\ new.pkts \in Seq(Sent)
               /\ remains[entry][k] \in Seq(Sent)
               /\ published' = Append(published, Over(new.pkts, remains[entry][k]))
               /\ fifoIds' = Append(fifoIds, new.id)
               /\ Over(new.pkts, remains[entry][k]) \in Seq(Sent)
               /\ entered' = entered + 1 /\ given' = given
               /\ UNCHANGED <<vars, running, fifo, entry, fifoErrors, remains>>
<1> DEFINE k == idCount + 1
<1>1. /\ stage = "publish" /\ entry \in Entries /\ idCount < Capacity
      /\ idCount \in Nat /\ Capacity \in Nat
  BY EtAssemblerAssumption, NoEntryAssumption DEF PublishBuffer, PublishNext, ERBasic, ERTypeOK
<1>2. k \in 1..Capacity /\ idCount' = k
  BY <1>1 DEF PublishBuffer, PublishNext
<1>3. bufs[entry] \in Entry
  BY <1>1 DEF Basic, TypeOK, Entry
<1> HIDE DEF k
<1>4. bufs[entry][k].id \in Ids \union {NoId} /\ bufs[entry][k].pkts \in Seq(Sent)
  BY <1>2, <1>3 DEF Entry
<1>5. remains[entry][k] \in Seq(Sent)
  BY <1>1, <1>2, ArraysTyped
<1>6. Over(bufs[entry][k].pkts, remains[entry][k]) \in Seq(Sent)
  BY <1>4, <1>5, OverIs
<1>7. /\ published' = Append(published, Over(bufs[entry][k].pkts, remains[entry][k]))
      /\ fifoIds' = Append(fifoIds, bufs[entry][k].id)
      /\ stage' = IF k = Capacity THEN "give" ELSE "publish"
      /\ entered' = entered + 1 /\ given' = given
      /\ UNCHANGED <<vars, running, fifo, entry, fifoErrors, remains>>
  BY <1>2 DEF PublishBuffer, PublishNext, DataArray, Ring!Enter
<1> QED
  BY <1>1, <1>2, <1>4, <1>5, <1>6, <1>7 DEF k

LEMMA ERBasicStep ==
    ASSUME Basic, ERBasic, Basic', [ERNext]_etReaderVars
    PROVE  ERBasic'
<1> USE DEF ERBasic
<1>1. /\ TypeOK' /\ Capacity \in Nat /\ idCount \in Nat
      /\ published \in Seq(Seq(Sent)) /\ fifoIds \in Seq(Ids \union {NoId})
      /\ given \in Seq(Nat)
      /\ entered = Len(published) /\ entered = Len(fifoIds)
      /\ given = [n \in 1..Len(given) |-> n]
      /\ NoEntry \notin Entries
      /\ running \in BOOLEAN /\ fifo \in {"open", "closed"} /\ stage \in Stages
      /\ entry \in Entries \union {NoEntry} /\ idCount \in 0..Capacity
      /\ fifoErrors \in 0..MaxFifoErrors /\ MaxFifoErrors \in Nat
      /\ remains \in [Entries -> [1..Capacity -> Seq(Sent)]]
  BY EtAssemblerAssumption, EtReceiverAssumption, NoEntryAssumption DEF Basic, ERTypeOK
<1>2. CASE UNCHANGED etReaderVars \/ Trouble
  BY <1>1, <1>2 DEF Trouble, ERTypeOK, etReaderVars, receiverVars, ringVars
<1>3. CASE Producer
  <2>1. remains' \in [Entries -> [1..Capacity -> Seq(Sent)]]
    <3>1. ASSUME NEW e \in Entries
          PROVE  [i \in 1..Capacity |-> DataArray(e, i)] \in [1..Capacity -> Seq(Sent)]
      BY ArraysTyped
    <3>2. \A e \in Entries : remains[e] \in [1..Capacity -> Seq(Sent)]
      BY <1>1
    <3> QED
      BY <1>3, <3>1, <3>2 DEF Producer
  <2>2. UNCHANGED <<receiverVars, ringVars>>
    BY <1>3 DEF Producer
  <2> QED
    BY <1>1, <2>1, <2>2 DEF ERTypeOK, receiverVars, ringVars
<1>4. CASE Loop \/ ClosedThrows \/ OpenThrows \/ Close \/ CloseFifo \/ GiveEntryBack
  <2>1. /\ UNCHANGED <<entry, idCount, remains, ringVars>> /\ running' \in BOOLEAN
        /\ fifo' \in {"open", "closed"} /\ stage' \in Stages
        /\ stage' = stage \/ stage' \in {"get", "ended", "loop"}
    BY <1>1, <1>4
       DEF Loop, ClosedThrows, OpenThrows, Thrown, Close, CloseFifo, GiveEntryBack, Stages
  <2>2. fifoErrors' \in 0..MaxFifoErrors
    BY <1>1, <1>4 DEF Loop, ClosedThrows, OpenThrows, Thrown, Close, CloseFifo, GiveEntryBack
  <2> QED
    BY <1>1, <2>1, <2>2 DEF ERTypeOK, ringVars
<1>5. ASSUME NEW e \in Entries, GetEntryFrom(e) PROVE ERBasic'
  <2>1. owner[e] = "queued" /\ Capacity > 0
    BY <1>5 DEF GetEntryFrom, GetEntry, Basic
  <2>2. /\ entry' = e /\ idCount' = 0 /\ stage' = "publish"
        /\ UNCHANGED <<running, fifo, fifoErrors, remains, ringVars>>
    BY <1>5 DEF GetEntryFrom
  <2>3. e \in Entries /\ e # NoEntry /\ 0 \in 0..Capacity /\ 0 < Capacity
    BY <1>1, <2>1
  <2> QED
    BY <1>1, <2>2, <2>3 DEF ERTypeOK, ringVars, Stages
<1>6. CASE PublishBuffer
  <2> DEFINE k     == idCount + 1
             array == Over(bufs[entry][k].pkts, remains[entry][k])
             id    == bufs[entry][k].id
  <2>1. /\ entry \in Entries /\ k \in 1..Capacity /\ idCount' = k
        /\ stage' = IF k = Capacity THEN "give" ELSE "publish"
        /\ id \in Ids \union {NoId} /\ array \in Seq(Sent)
        /\ published' = Append(published, array) /\ fifoIds' = Append(fifoIds, id)
        /\ entered' = entered + 1 /\ given' = given
        /\ UNCHANGED <<running, fifo, entry, fifoErrors, remains>>
    BY <1>6, PublishEffect
  <2> HIDE DEF k, array, id
  <2>2. published' \in Seq(Seq(Sent)) /\ Len(published') = Len(published) + 1
    <3> DEFINE Arrays == Seq(Sent)
    <3>1. published \in Seq(Arrays) /\ array \in Arrays
      BY <1>1, <2>1
    <3> HIDE DEF Arrays
    <3>2. published' \in Seq(Arrays) /\ Len(published') = Len(published) + 1
      BY <2>1, <3>1
    <3> QED
      BY <3>2 DEF Arrays
  <2>3. fifoIds' \in Seq(Ids \union {NoId}) /\ Len(fifoIds') = Len(fifoIds) + 1
    BY <1>1, <2>1
  <2>4. k \in 0..Capacity /\ (k # Capacity => k < Capacity) /\ entry # NoEntry
    BY <1>1, <2>1
  <2> QED
    BY <1>1, <2>1, <2>2, <2>3, <2>4 DEF ERTypeOK, Stages
<1>7. CASE Caller
  <2>1. /\ given' = Append(given, Len(given) + 1) /\ entered' = entered
        /\ UNCHANGED <<receiverVars, remains, published, fifoIds>>
    BY <1>7 DEF Caller, Ring!Give
  <2>2. given' \in Seq(Nat) /\ given' = [n \in 1..Len(given') |-> n]
    BY <1>1, <2>1, GivenGrows
  <2> QED
    BY <1>1, <2>1, <2>2 DEF ERTypeOK, receiverVars
<1> QED
  BY <1>2, <1>3, <1>4, <1>5, <1>6, <1>7 DEF ERNext, Receiver

(* The whole chain keeps its types, whatever the network does.             *)
THEOREM ERTypeCorrect == ERSpec => []ERTypeOK
<1> DEFINE Inv == Basic /\ ERBasic
<1>1. ERInit => Inv
  BY BasicInit, ERBasicInit DEF ERInit
<1>2. Inv /\ [ERNext]_etReaderVars => Inv'
  BY BasicStep, ERNextIsNext, ERBasicStep
<1>3. Inv => ERTypeOK
  BY DEF ERBasic
<1> QED
  BY <1>1, <1>2, <1>3, PTL DEF ERSpec

(* What begins with a message begins with the first packet of it, which    *)
(* tells the tick and the source: no array begins with two messages.       *)
LEMMA FirstOf ==
    ASSUME OneTickAtATime, NEW t \in Ticks, NEW d \in BufIds, NEW a \in Seq(Sent),
           IsPrefix(MessageOf(t, d), a)
    PROVE  a # <<>> /\ a[1] = Packet(t, d, 0)
<1> DEFINE m == MessageOf(t, d)
<1>1. /\ m \in Seq(Sent) /\ Len(m) \in Nat /\ Len(m) > 0 /\ m[1] = Packet(t, d, 0)
  <2>1. /\ d \in Ids /\ Len(Messages[<<t, d>>]) \in Nat /\ Len(Messages[<<t, d>>]) > 0
    BY SourcesSend
  <2>2. /\ m \in Seq(Sent) /\ Len(m) = Len(Messages[<<t, d>>])
        /\ \A i \in 1..Len(Messages[<<t, d>>]) : m[i] = Packet(t, d, i - 1)
    BY <2>1, MessageFields
  <2>3. 1 \in 1..Len(Messages[<<t, d>>]) /\ 1 - 1 = 0
    BY <2>1
  <2> QED
    BY <2>1, <2>2, <2>3
<1> HIDE DEF m
<1>2. Len(m) <= Len(a) /\ SubSeq(m, 1, Len(m)) = SubSeq(a, 1, Len(m))
  BY DEF IsPrefix, m
<1>3. Len(a) > 0 /\ a # <<>>
  BY <1>1, <1>2
<1>4. SubSeq(m, 1, Len(m))[1] = m[1] /\ SubSeq(a, 1, Len(m))[1] = a[1]
  BY <1>1, <1>2
<1> QED
  BY <1>1, <1>2, <1>3, <1>4

LEMMA OneMessage ==
    ASSUME OneTickAtATime, NEW t \in Ticks, NEW u \in Ticks, NEW d \in BufIds, NEW c \in BufIds,
           NEW a \in Seq(Sent), IsPrefix(MessageOf(t, d), a), IsPrefix(MessageOf(u, c), a)
    PROVE  t = u /\ d = c
<1>1. Packet(t, d, 0) = Packet(u, c, 0)
  BY FirstOf
<1>2. /\ Packet(t, d, 0).tick = t /\ Packet(t, d, 0).id = d
      /\ Packet(u, c, 0).tick = u /\ Packet(u, c, 0).id = c
  BY DEF Packet
<1> QED
  BY <1>1, <1>2

(* What was published of a source is of a tick that was put.               *)
LEMMA PublishedOfPut ==
    ASSUME OneTickAtATime, Basic, ERBasic, PublishedWholeAndOnce, Orderly,
           NEW n \in 1..Len(published), NEW t \in Ticks, fifoIds[n] \in BufIds,
           BeginsWith(n, t, fifoIds[n])
    PROVE  t \in put
<1>1. PICK u \in put : BeginsWith(n, u, fifoIds[n])
  BY DEF PublishedWholeAndOnce
<1>2. u \in Ticks /\ published[n] \in Seq(Sent)
  BY DEF Basic, TypeOK, ERBasic
<1> QED
  BY <1>1, <1>2, OneMessage DEF BeginsWith

(* The routine and the network leave alone what the receiver has, and what *)
(* it has published is of no tick that is put now.                         *)
LEMMA ERRoutineKeeps ==
    ASSUME OneTickAtATime, ERInv, EtInv', Producer \/ Trouble
    PROVE  /\ PublishedWholeAndOnce'
           /\ Orderly' => HoldsItsEntry' /\ PublishedIsPast'
<1>1. /\ UNCHANGED <<stage, entry, idCount, published, fifoIds>>
      /\ Basic /\ EtInv /\ ERBasic /\ PublishedWholeAndOnce
      /\ \/ \E p, e : Refuses(p, e)
         \/ \E p, e : Places(p, e)
         \/ PutEntry
         \/ Fails \/ (\E p \in net : Lose(p)) \/ \E q \in stored : DrainNoRoom(q)
  BY StepsOfRoutine DEF ERInv, EtInv, Producer, Trouble, receiverVars, ringVars
<1>2. SUFFICES ASSUME Orderly'
               PROVE  PublishedWholeAndOnce' /\ HoldsItsEntry' /\ PublishedIsPast'
  BY DEF PublishedWholeAndOnce
<1>3. Orderly
  <2>1. ASSUME NEW p \in net, Lose(p) PROVE FALSE
    BY <1>1, <1>2, <2>1, EtAssemblerAssumption DEF Lose, Orderly, Basic, TypeOK
  <2>2. CASE PutEntry \/ Fails \/ \E q \in stored : DrainNoRoom(q)
    BY <1>2, <2>2 DEF PutEntry, Fails, RecvFails, NoNewEntry, Arrive, DrainNoRoom, Orderly,
                      netVars, mapVars
  <2> QED
    BY <1>1, <1>2, <2>1, <2>2, OrderlyBefore
<1>4. HoldsItsEntry /\ PublishedIsPast /\ OwnEntries
  BY <1>3 DEF ERInv, EtInv
<1>5. /\ buffers \in [Ticks -> Entries \union {NoEntry}] /\ put \subseteq Ticks
      /\ put \subseteq put'
      /\ \A t \in Ticks : buffers[t] # NoEntry => buffers'[t] = buffers[t]
      /\ \A x \in Entries : owner[x] = "consumer" => owner'[x] = "consumer"
      /\ \A x \in Entries : (owner[x] # "queued" /\ owner'[x] = "queued") =>
             PutEntry /\ x = buffers[cur.tick]
      /\ \A x \in Entries : owner[x] = "consumer" => Keeps(bufs[x], bufs'[x])
      /\ NoEntry \notin Entries
  <2>1. /\ buffers \in [Ticks -> Entries \union {NoEntry}] /\ put \subseteq Ticks
        /\ owner \in [Entries -> {"free", "producer", "queued", "consumer"}]
        /\ NoEntry \notin Entries
        /\ \A x \in Entries : WellFormed(bufs[x])
    BY <1>1, NoEntryAssumption DEF Basic, TypeOK
  <2>2. ASSUME NEW p, NEW e, Refuses(p, e) \/ Places(p, e)
        PROVE  /\ put' = put
               /\ \A t \in Ticks : buffers[t] # NoEntry => buffers'[t] = buffers[t]
               /\ \A x \in Entries : owner[x] # "free" => owner'[x] = owner[x]
               /\ \A x \in Entries : owner'[x] \in {"queued", "consumer"} => owner[x] = owner'[x]
               /\ \A x \in Entries : owner[x] = "consumer" => Keeps(bufs[x], bufs'[x])
    <3>1. p \in Sent /\ Opens(p, e) /\ Changes(p, e) /\ put' = put
      BY <1>1, <2>2, PlacedFacts DEF Refuses, Places, Receives, Basic, TypeOK
    <3>2. /\ \A x \in Entries : owner[x] # "free" => owner'[x] = owner[x]
          /\ \A x \in Entries : owner'[x] \in {"queued", "consumer"} => owner[x] = owner'[x]
          /\ \A t \in Ticks : buffers[t] # NoEntry => buffers'[t] = buffers[t]
      BY <1>1, <3>1, OwnersTyped
    <3>3. ASSUME NEW x \in Entries, owner[x] = "consumer" PROVE Keeps(bufs[x], bufs'[x])
      <4>1. CASE x = e
        <5>1. EntryOf(p, e) = bufs[e]
          BY <3>1, <3>3, <4>1 DEF Opens, EntryOf
        <5> QED
          BY <3>1, <4>1, <5>1 DEF Changes
      <4>2. CASE x # e
        <5>1. bufs'[x] = bufs[x]
          BY <1>1, <3>1, <4>2, EntriesStayWellFormed
        <5> QED
          BY <2>1, <5>1 DEF Keeps
      <4> QED
        BY <4>1, <4>2
    <3> QED
      BY <3>1, <3>2, <3>3
  <2>3. CASE PutEntry
    <3>1. /\ UNCHANGED <<buffers, bufs>> /\ put' = put \union {cur.tick} /\ pc = "put"
          /\ owner' = [owner EXCEPT ![buffers[cur.tick]] = "queued"]
      BY <2>3 DEF PutEntry, mapVars, TheEntry
    <3>2. /\ buffers[cur.tick] \in Entries /\ cur.tick \in Ticks
      BY <1>1, <3>1, SentFields DEF Basic, CurIsPlaced
    <3>3. owner[buffers[cur.tick]] = "producer"
      BY <1>4, <2>1, <3>1, <3>2 DEF OwnEntries
    <3> QED
      BY <2>1, <2>3, <3>1, <3>2, <3>3 DEF Keeps
  <2>4. CASE Fails \/ (\E p \in net : Lose(p)) \/ \E q \in stored : DrainNoRoom(q)
    <3>1. UNCHANGED <<buffers, bufs, owner, put>>
      BY <2>4 DEF Fails, RecvFails, NoNewEntry, Arrive, Lose, DrainNoRoom, mapVars, etVars
    <3> QED
      BY <2>1, <3>1 DEF Keeps
  <2>5. CASE \E p, e : Refuses(p, e) \/ Places(p, e)
    <3>1. PICK p, e : Refuses(p, e) \/ Places(p, e)
      BY <2>5
    <3> QED
      BY <2>1, <2>2, <3>1
  <2> QED
    BY <1>1, <2>3, <2>4, <2>5
<1>6. PublishedWholeAndOnce'
  BY <1>1, <1>3, <1>5 DEF PublishedWholeAndOnce, BeginsWith, StrangerPublished
<1>7. HoldsItsEntry'
  BY <1>1, <1>4, <1>5 DEF HoldsItsEntry
<1>8. PublishedIsPast'
  <2>1. SUFFICES ASSUME NEW n \in 1..Len(published), NEW t \in Ticks,
                        fifoIds[n] \in BufIds,
                        BeginsWith(n, t, fifoIds[n]),
                        IsLatest(t, buffers[t])'
                 PROVE  /\ owner'[buffers'[t]] # "queued"
                        /\ (stage = "publish" /\ entry = buffers'[t]) =>
                               \E i \in 1..idCount : bufs'[entry][i].id = fifoIds[n]
    BY <1>1 DEF PublishedIsPast, BeginsWith
  <2>2. t \in put /\ buffers[t] \in Entries /\ buffers'[t] = buffers[t]
    <3>1. t \in put
      BY <1>1, <1>3, <2>1, PublishedOfPut
    <3> QED
      BY <1>1, <1>5, <3>1 DEF EtInv, InOrderOfTicks
  <2>3. IsLatest(t, buffers[t])
    BY <1>5, <2>1, <2>2 DEF IsLatest
  <2>4. /\ owner[buffers[t]] # "queued"
        /\ (stage = "publish" /\ entry = buffers[t]) =>
               \E i \in 1..idCount : bufs[entry][i].id = fifoIds[n]
    BY <1>4, <2>1, <2>3 DEF PublishedIsPast
  <2>5. owner'[buffers[t]] # "queued"
    <3>1. SUFFICES ASSUME owner'[buffers[t]] = "queued" PROVE FALSE
      OBVIOUS
    <3>2. PutEntry /\ buffers[t] = buffers[cur.tick]
      BY <1>5, <2>2, <2>4, <3>1
    <3>3. cur.tick \in Ticks /\ cur.tick \notin put
      BY <1>1, <1>4, <3>2, SentFields DEF PutEntry, Basic, CurIsPlaced, OwnEntries
    <3>4. cur.tick < t
      <4>1. cur.tick <= t /\ cur.tick # t
        BY <2>2, <2>3, <3>2, <3>3 DEF IsLatest
      <4>2. cur.tick \in Nat /\ t \in Nat
        BY <3>3, EtAssemblerAssumption
      <4> QED
        BY <4>1, <4>2
    <3> QED
      BY <1>4, <1>5, <2>2, <3>2, <3>3, <3>4 DEF OwnEntries
  <2>6. ASSUME stage = "publish", entry = buffers[t]
        PROVE  \E i \in 1..idCount : bufs'[entry][i].id = fifoIds[n]
    <3>1. PICK i \in 1..idCount : bufs[entry][i].id = fifoIds[n]
      BY <2>4, <2>6
    <3>2. owner[entry] = "consumer" /\ entry \in Entries
      BY <1>4, <2>6 DEF HoldsItsEntry
    <3>3. i \in 1..Capacity /\ fifoIds[n] # NoId
      <4>1. idCount \in 0..Capacity /\ Capacity \in Nat
        BY EtAssemblerAssumption DEF ERInv, ERBasic, ERTypeOK
      <4>2. fifoIds[n] \in Nat
        BY <2>1, EtAssemblerAssumption
      <4> QED
        BY <4>1, <4>2 DEF NoId
    <3> QED
      BY <1>5, <3>1, <3>2, <3>3 DEF Keeps
  <2> QED
    BY <2>2, <2>5, <2>6
<1> QED
  BY <1>6, <1>7, <1>8

(* What an entry has of a source is in the same buffer after a step that   *)
(* left it alone.                                                          *)
LEMMA SameData ==
    ASSUME NEW old, WellFormed(old), NEW new, Keeps(old, new), NEW i \in 1..Capacity,
           new[i].id # NoId => DataIn(new, new[i].id) = DataIn(old, new[i].id)
    PROVE  new[i].pkts = old[i].pkts
<1>1. /\ WellFormed(new) /\ new[i].id \in Ids \union {NoId} /\ Capacity \in Nat
      /\ \A j \in 1..Capacity : old[j].id # NoId => new[j].id = old[j].id
      /\ \A j \in 1..Capacity : old[j].id = NoId => old[j].pkts = <<>>
      /\ \A j \in 1..Capacity : new[j].id = NoId => new[j].pkts = <<>>
  <2>1. WellFormed(new) /\ \A j \in 1..Capacity : old[j].id # NoId => new[j].id = old[j].id
    BY DEF Keeps
  <2>2. new[i].id \in Ids \union {NoId}
    BY <2>1 DEF WellFormed, Entry
  <2>3. /\ \A j \in 1..Capacity : old[j].id = NoId => old[j].pkts = <<>>
        /\ \A j \in 1..Capacity : new[j].id = NoId => new[j].pkts = <<>>
    BY <2>1 DEF WellFormed
  <2> QED
    BY EtAssemblerAssumption, <2>1, <2>2, <2>3
<1>2. CASE new[i].id = NoId
  BY <1>1, <1>2
<1>3. CASE new[i].id # NoId
  <2> DEFINE d == new[i].id
  <2>1. d \in Ids /\ DataIn(new, d) = new[i].pkts
    BY <1>1, <1>3, DataIs
  <2>2. CASE old[i].id # NoId
    <3>1. DataIn(old, d) = old[i].pkts
      BY <1>1, <2>1, <2>2, DataIs
    <3> QED
      BY <1>3, <2>1, <3>1
  <2>3. CASE old[i].id = NoId
    <3>1. ASSUME NEW j \in 1..Capacity, old[j].id = d PROVE FALSE
      <4>1. new[j].id = d /\ j # i /\ d # NoId
        BY <1>1, <1>3, <2>3, <3>1
      <4>2. i < j \/ j < i
        BY <1>1, <4>1
      <4> QED
        BY <1>1, <1>3, <4>1, <4>2 DEF WellFormed
    <3>2. DataIn(old, d) = <<>>
      BY <3>1 DEF DataIn
    <3> QED
      BY <1>1, <1>3, <2>1, <2>3, <3>2
  <2> QED
    BY <2>2, <2>3
<1> QED
  BY <1>2, <1>3

(* The routine and the network leave alone what is in the buffers of an    *)
(* entry that is free or that the receiver has.                            *)
LEMMA SettledAlone ==
    ASSUME OneTickAtATime, EtInv, Orderly, Orderly', Producer \/ Trouble,
           NEW x \in Entries, owner[x] \in {"free", "consumer"}, owner'[x] = owner[x]
    PROVE  /\ Keeps(bufs[x], bufs'[x])
           /\ \A i \in 1..Capacity : bufs'[x][i].pkts = bufs[x][i].pkts
<1>1. Basic /\ WellFormed(bufs[x])
  BY DEF EtInv, Basic
<1>2. CASE bufs'[x] = bufs[x]
  BY <1>1, <1>2 DEF Keeps
<1>3. ASSUME NEW p, NEW e, Refuses(p, e) \/ Places(p, e), x = e
      PROVE  /\ Keeps(bufs[x], bufs'[x])
             /\ \A i \in 1..Capacity : bufs'[x][i].pkts = bufs[x][i].pkts
  <2>1. p \in Sent /\ p.tick \in Ticks /\ Opens(p, e) /\ Changes(p, e)
    BY <1>1, <1>3, SentFields, PlacedFacts DEF Refuses, Places, Receives, Basic, TypeOK
  <2>2. buffers[p.tick] = e
    <3>1. owner'[e] # "producer"
      BY <1>3
    <3>2. owner \in [Entries -> {"free", "producer", "queued", "consumer"}]
      BY <1>1 DEF Basic, TypeOK
    <3> QED
      BY <2>1, <3>1, <3>2 DEF Opens
  <2>3. Keeps(bufs[e], bufs'[e]) /\ EntryOf(p, e) = bufs[e]
    BY <2>1, <2>2 DEF Changes, EntryOf
  <2>4. ~Places(p, e)
    <3>1. SUFFICES ASSUME Places(p, e) PROVE FALSE
      OBVIOUS
    <3>2. p.id \in BufIds
      BY <1>1, <3>1, OrderlyBefore
    <3>3. p.tick \notin put /\ e \in Entries /\ e # NoEntry
      BY <1>3, <3>1, <3>2, PlacedInOpenTick, NoEntryAssumption
    <3>4. owner[e] = "producer"
      BY <2>1, <2>2, <3>3 DEF EtInv, OwnEntries
    <3> QED
      BY <1>3, <3>4
  <2>5. /\ \A d \in Ids : DataIn(bufs'[e], d) = DataIn(bufs[e], d)
    BY <1>3, <2>1, <2>3, <2>4 DEF Refuses, Changes
  <2>6. ASSUME NEW i \in 1..Capacity PROVE bufs'[e][i].pkts = bufs[e][i].pkts
    <3>1. bufs'[e][i].id \in Ids \union {NoId}
      BY <2>3 DEF Keeps, WellFormed, Entry
    <3> QED
      BY <1>1, <1>3, <2>3, <2>5, <3>1, SameData
  <2> QED
    BY <1>3, <2>3, <2>6
<1>4. ASSUME NEW p, NEW e, Refuses(p, e) \/ Places(p, e), x # e PROVE bufs'[x] = bufs[x]
  BY <1>1, <1>4, EntriesStayWellFormed DEF Refuses, Places
<1>5. ASSUME PutEntry \/ Fails \/ (\E p \in net : Lose(p)) \/ \E q \in stored : DrainNoRoom(q)
      PROVE  bufs' = bufs
  BY <1>5 DEF PutEntry, Fails, RecvFails, NoNewEntry, Arrive, Lose, DrainNoRoom, etVars
<1>6. \/ \E p, e : Refuses(p, e)
      \/ \E p, e : Places(p, e)
      \/ PutEntry
      \/ Fails \/ (\E p \in net : Lose(p)) \/ \E q \in stored : DrainNoRoom(q)
  BY <1>1, StepsOfRoutine DEF Producer, Trouble
<1> QED
  BY <1>2, <1>3, <1>4, <1>5, <1>6

(* A buffer taken for a new tick keeps in place what was there.            *)
LEMMA ERRoutineRemains ==
    ASSUME OneTickAtATime, ERInv, Producer \/ Trouble, Orderly, Orderly', RemainsInPlace
    PROVE  RemainsInPlace'
<1>1. /\ UNCHANGED <<stage, entry, idCount, published, fifoIds>>
      /\ Basic /\ EtInv /\ ERBasic /\ HoldsItsEntry
      /\ Capacity \in Nat /\ idCount \in 0..Capacity
  BY EtAssemblerAssumption
     DEF ERInv, EtInv, ERBasic, ERTypeOK, Producer, Trouble, receiverVars, ringVars
<1>2. /\ \A x \in Entries : owner'[x] = "free" => owner[x] = "free"
      /\ \A x \in Entries : owner[x] = "consumer" => owner'[x] = "consumer"
  <2>1. /\ owner \in [Entries -> {"free", "producer", "queued", "consumer"}]
    BY <1>1 DEF Basic, TypeOK
  <2>2. ASSUME NEW p, NEW e, Refuses(p, e) \/ Places(p, e)
        PROVE  /\ \A x \in Entries : owner'[x] = "free" => owner[x] = "free"
               /\ \A x \in Entries : owner[x] = "consumer" => owner'[x] = "consumer"
    <3>1. Opens(p, e)
      BY <2>2 DEF Refuses, Places
    <3> QED
      BY <2>1, <3>1 DEF Opens
  <2>3. ASSUME PutEntry
        PROVE  /\ \A x \in Entries : owner'[x] = "free" => owner[x] = "free"
               /\ \A x \in Entries : owner[x] = "consumer" => owner'[x] = "consumer"
    <3>1. /\ owner' = [owner EXCEPT ![buffers[cur.tick]] = "queued"] /\ pc = "put"
      BY <2>3 DEF PutEntry, TheEntry
    <3>2. /\ cur.tick \in Ticks /\ cur.tick \notin put /\ buffers[cur.tick] \in Entries
      BY <1>1, <3>1, SentFields DEF EtInv, Basic, CurIsPlaced, OwnEntries
    <3>3. owner[buffers[cur.tick]] = "producer"
      BY <1>1, <3>2, NoEntryAssumption DEF EtInv, OwnEntries
    <3> QED
      BY <2>1, <3>1, <3>3
  <2>4. ASSUME Fails \/ (\E p \in net : Lose(p)) \/ \E q \in stored : DrainNoRoom(q)
        PROVE  owner' = owner
    BY <2>4 DEF Fails, RecvFails, NoNewEntry, Arrive, Lose, DrainNoRoom, etVars
  <2> QED
    BY <1>1, <2>2, <2>3, <2>4, StepsOfRoutine DEF Producer, Trouble
<1>3. ASSUME NEW x \in Entries PROVE InPlace(remains'[x])
  <2>1. CASE remains'[x] = remains[x]
    BY <2>1 DEF RemainsInPlace
  <2>2. CASE owner[x] = "free" /\ remains'[x] = [i \in 1..Capacity |-> DataArray(x, i)]
    <3>1. InPlace(remains[x]) /\ InPlace(Data(x))
      BY <2>2 DEF RemainsInPlace
    <3>2. ASSUME NEW i \in 1..Capacity, remains'[x][i] # <<>> PROVE i <= Cardinality(BufIds)
      <4>1. remains'[x][i] = Over(bufs[x][i].pkts, remains[x][i])
        BY <2>2 DEF DataArray
      <4>2. bufs[x][i].pkts # <<>> \/ remains[x][i] # <<>>
        BY <1>1, <3>2, <4>1, ArraysTyped, OverIs
      <4> QED
        BY <3>1, <4>2 DEF InPlace, Data
    <3> QED
      BY <3>2 DEF InPlace
  <2>3. /\ Producer => \/ remains'[x] = remains[x]
                       \/ owner[x] = "free" /\ remains'[x] = [i \in 1..Capacity |-> DataArray(x, i)]
        /\ Trouble => remains' = remains
    BY DEF Producer, Trouble
  <2> QED
    BY <2>1, <2>2, <2>3
<1>4. ASSUME NEW x \in Entries, owner'[x] = "free" PROVE InPlace(Data(x)')
  <2>1. owner[x] = "free" /\ \A i \in 1..Capacity : bufs'[x][i].pkts = bufs[x][i].pkts
    BY <1>1, <1>2, <1>4, SettledAlone
  <2>2. InPlace(Data(x))
    BY <2>1 DEF RemainsInPlace
  <2> QED
    BY <2>1, <2>2 DEF InPlace, Data
<1>5. ASSUME stage \in {"publish", "give"}, NEW i \in 1..idCount
      PROVE  bufs'[entry][i].id \in BufIds \/ EmptyFrom(bufs'[entry], i)
  <2>1. entry \in Entries /\ owner[entry] = "consumer" /\ i \in 1..Capacity
    BY <1>1, <1>5 DEF HoldsItsEntry
  <2>2. /\ Keeps(bufs[entry], bufs'[entry])
        /\ \A j \in 1..Capacity : bufs'[entry][j].pkts = bufs[entry][j].pkts
    BY <1>1, <1>2, <2>1, SettledAlone
  <2>3. bufs[entry][i].id \in BufIds \/ EmptyFrom(bufs[entry], i)
    BY <1>5 DEF RemainsInPlace
  <2>4. NoId \notin BufIds
    BY EtAssemblerAssumption DEF NoId
  <2> QED
    BY <2>1, <2>2, <2>3, <2>4 DEF Keeps, EmptyFrom
<1> QED
  BY <1>1, <1>3, <1>4, <1>5 DEF RemainsInPlace, EmptyFrom

(* An entry is handed to the receiver with the data of a tick of which     *)
(* nothing has been published.                                             *)
LEMMA ERGetKeeps ==
    ASSUME OneTickAtATime, ERInv, NEW e \in Entries, GetEntryFrom(e)
    PROVE  /\ PublishedWholeAndOnce'
           /\ Orderly' => HoldsItsEntry' /\ PublishedIsPast'
<1>1. /\ UNCHANGED <<published, fifoIds, losses, expSequence, buffers, put>>
      /\ owner[e] = "queued" /\ owner' = [owner EXCEPT ![e] = "consumer"]
      /\ owner \in [Entries -> {"free", "producer", "queued", "consumer"}]
      /\ entry' = e /\ stage' = "publish"
      /\ buffers \in [Ticks -> Entries \union {NoEntry}] /\ NoEntry \notin Entries
  BY NoEntryAssumption
     DEF GetEntryFrom, GetEntry, ringVars, netVars, mapVars, ERInv, EtInv, Basic, TypeOK
<1>2. Orderly' => Orderly
  BY <1>1 DEF Orderly
<1>3. PublishedWholeAndOnce'
  BY <1>1, <1>2 DEF ERInv, PublishedWholeAndOnce, BeginsWith, StrangerPublished
<1>4. HoldsItsEntry'
  BY <1>1 DEF HoldsItsEntry
<1>5. ASSUME Orderly' PROVE PublishedIsPast'
  <2>1. SUFFICES ASSUME NEW n \in 1..Len(published), NEW t \in Ticks,
                        fifoIds[n] \in BufIds,
                        BeginsWith(n, t, fifoIds[n]),
                        IsLatest(t, buffers[t])
                 PROVE  owner'[buffers[t]] # "queued" /\ entry' # buffers[t]
    BY <1>1 DEF PublishedIsPast, BeginsWith, IsLatest
  <2>2. owner[buffers[t]] # "queued"
    BY <1>2, <1>5, <2>1 DEF ERInv, PublishedIsPast
  <2>3. t \in put
    BY <1>2, <1>5, <2>1, PublishedOfPut DEF ERInv, EtInv
  <2>4. buffers[t] \in Entries
    BY <1>1, <2>3 DEF ERInv, EtInv, InOrderOfTicks
  <2> QED
    BY <1>1, <2>2, <2>4
<1> QED
  BY <1>3, <1>4, <1>5

(* Whether the buffers taken in an entry are only those of the sources.    *)
LEMMA TakenAtMost ==
    ASSUME NEW ent, WellFormed(ent), NEW k \in 1..Capacity,
           \A i \in 1..k : ent[i].id \in BufIds
    PROVE  k <= Cardinality(BufIds)
<1>1. IsFiniteSet(BufIds) /\ Cardinality(BufIds) \in Nat /\ k \in Nat /\ Capacity \in Nat
  BY EtAssemblerAssumption, FS_CardinalityType
<1>2. SUFFICES ASSUME Cardinality(BufIds) < k PROVE FALSE
  BY <1>1
<1>3. IsFiniteSet(1..k) /\ Cardinality(1..k) = k
  BY <1>1, FS_Interval
<1> DEFINE f == [i \in 1..k |-> ent[i].id]
<1>4. f \in [1..k -> BufIds]
  OBVIOUS
<1>5. Cardinality(BufIds) < Cardinality(1..k)
  BY <1>2, <1>3
<1>6. \E i, j \in 1..k : i # j /\ f[i] = f[j]
  <2> HIDE DEF f
  <2> QED
    BY <1>1, <1>3, <1>4, <1>5, FS_PigeonHole
<1>7. PICK i \in 1..k, j \in 1..k : i # j /\ ent[i].id = ent[j].id
  BY <1>6
<1>8. /\ i \in 1..Capacity /\ j \in 1..Capacity /\ (i < j \/ j < i)
      /\ ent[i].id # NoId /\ ent[j].id # NoId
  <2>1. NoId \notin BufIds
    BY EtAssemblerAssumption DEF NoId
  <2> QED
    BY <1>1, <1>7, <2>1
<1> QED
  BY <1>7, <1>8 DEF WellFormed

LEMMA UnusedIsBehind ==
    ASSUME NEW ent, WellFormed(ent), NEW k \in 1..Capacity, ent[k].id = NoId,
           \A d \in BufIds : Has(ent, d)
    PROVE  Cardinality(BufIds) < k
<1>1. /\ IsFiniteSet(BufIds) /\ Cardinality(BufIds) \in Nat /\ k \in Nat /\ k >= 1
      /\ Capacity \in Nat
  BY EtAssemblerAssumption, FS_CardinalityType
<1>2. SUFFICES ASSUME k <= Cardinality(BufIds) PROVE FALSE
  BY <1>1
<1>3. IsFiniteSet(1..(k - 1)) /\ Cardinality(1..(k - 1)) = k - 1
  <2>1. 1 \in Int /\ k - 1 \in Int /\ (k - 1) - 1 + 1 = k - 1 /\ (1 > k - 1 => k - 1 = 0)
    BY <1>1
  <2> QED
    BY <2>1, FS_Interval
<1>4. ASSUME NEW d \in BufIds PROVE \E j \in 1..(k - 1) : ent[j].id = d
  <2>1. PICK j \in 1..Capacity : ent[j].id = d
    BY DEF Has
  <2>2. d # NoId
    BY EtAssemblerAssumption DEF NoId
  <2>3. ~(k < j) /\ k # j
    BY <2>1, <2>2 DEF WellFormed
  <2>4. j \in 1..(k - 1)
    BY <1>1, <2>3
  <2> QED
    BY <2>1, <2>4
<1> DEFINE f == [d \in BufIds |-> CHOOSE j \in 1..(k - 1) : ent[j].id = d]
<1>5. \A d \in BufIds : f[d] \in 1..(k - 1) /\ ent[f[d]].id = d
  BY <1>4
<1>6. f \in [BufIds -> 1..(k - 1)]
  BY <1>5
<1>7. Cardinality(1..(k - 1)) < Cardinality(BufIds)
  BY <1>1, <1>2, <1>3
<1> HIDE DEF f
<1>8. \E c, d \in BufIds : c # d /\ f[c] = f[d]
  BY <1>1, <1>3, <1>6, <1>7, FS_PigeonHole
<1> QED
  BY <1>5, <1>8

(* The receiver publishes the next buffer of the entry it has.             *)
LEMMA ERPublishKeeps ==
    ASSUME OneTickAtATime, ERInv, PublishBuffer
    PROVE  /\ PublishedWholeAndOnce'
           /\ Orderly' => HoldsItsEntry' /\ PublishedIsPast'
           /\ (Orderly' /\ ~StrangerPublished') => RemainsInPlace'
<1> DEFINE k     == idCount + 1
           new   == bufs[entry][k]
           array == Over(new.pkts, remains[entry][k])
           n     == Len(published)
<1>1. /\ UNCHANGED <<losses, expSequence, buffers, owner, bufs, put, entry, remains>>
      /\ stage = "publish" /\ stage' \in {"give", "publish"} /\ entry \in Entries
      /\ k \in 1..Capacity /\ idCount' = k /\ idCount \in Nat /\ Capacity \in Nat
      /\ new.id \in Ids \union {NoId} /\ new.pkts \in Seq(Sent)
      /\ remains[entry][k] \in Seq(Sent) /\ array \in Seq(Sent)
      /\ published' = Append(published, array)
      /\ fifoIds' = Append(fifoIds, new.id)
      /\ Basic /\ EtInv /\ ERBasic
  BY PublishEffect DEF ERInv, EtInv, vars, netVars, mapVars, etVars
<1>2. /\ published \in Seq(Seq(Sent)) /\ fifoIds \in Seq(Ids \union {NoId})
      /\ n \in Nat /\ Len(fifoIds) = n /\ put \subseteq Ticks
  BY <1>1 DEF ERBasic, ERTypeOK, Basic, TypeOK
<1>3. SUFFICES ASSUME Orderly, Orderly'
               PROVE  /\ PublishedWholeAndOnce' /\ HoldsItsEntry' /\ PublishedIsPast'
                      /\ ~StrangerPublished' => RemainsInPlace'
  BY <1>1 DEF PublishedWholeAndOnce, Orderly
<1>4. /\ HoldsItsEntry /\ PublishedIsPast /\ LatestIsQueued /\ PublishedWholeAndOnce
      /\ ~StrangerPublished => RemainsInPlace
  BY <1>3 DEF ERInv, EtInv
<1>5. WellFormed(bufs[entry]) /\ owner[entry] = "consumer"
  BY <1>1, <1>4 DEF Basic, HoldsItsEntry
<1>6. PICK t \in put : /\ IsLatest(t, entry)
                       /\ \A d \in BufIds : PlacedIn(entry, d) = MessageOf(t, d)
  BY <1>1, <1>4, <1>5 DEF LatestIsQueued
<1>7. t \in Ticks /\ buffers[t] = entry
  BY <1>6 DEF IsLatest
<1>8. /\ IsPrefix(new.pkts, array)
      /\ (new.pkts = <<>> /\ remains[entry][k] = <<>>) => array = <<>>
  BY <1>1, OverIs
<1>9. ASSUME new.id \in BufIds PROVE IsPrefix(MessageOf(t, new.id), array)
  <2>1. new.id \in Ids
    BY <1>9 DEF OneTickAtATime
  <2>2. PlacedIn(entry, new.id) = new.pkts
    BY <1>1, <1>5, <2>1, DataIs DEF PlacedIn
  <2> QED
    BY <1>6, <1>8, <1>9, <2>2
<1>10. new.id = NoId => new.pkts = <<>>
  BY <1>1, <1>5 DEF WellFormed
<1>11. NoId \notin BufIds
  BY EtAssemblerAssumption DEF NoId
(* A buffer that nobody has taken is behind those of the sources.          *)
<1>12. ASSUME new.id = NoId, ~StrangerPublished PROVE array = <<>>
  <2>1. ASSUME NEW d \in BufIds PROVE Has(bufs[entry], d)
    <3>1. PlacedIn(entry, d) # <<>>
      <4>1. Len(MessageOf(t, d)) > 0
        BY <1>7, SourcesSend, MessageFields
      <4>2. Len(<<>>) = 0
        OBVIOUS
      <4> QED
        BY <1>6, <4>1, <4>2
    <3> QED
      BY <3>1 DEF PlacedIn, DataIn, Has
  <2>2. Cardinality(BufIds) < k
    BY <1>1, <1>5, <1>12, <2>1, UnusedIsBehind
  <2>3. Cardinality(BufIds) \in Nat /\ k \in Nat
    BY <1>1, EtAssemblerAssumption, FS_CardinalityType
  <2>4. remains[entry][k] = <<>>
    BY <1>1, <1>4, <1>12, <2>2, <2>3 DEF RemainsInPlace, InPlace
  <2> QED
    BY <1>8, <1>10, <1>12, <2>4
<1> HIDE DEF new, array, k, n
<1>13. /\ Len(published') = n + 1 /\ published'[n + 1] = array /\ fifoIds'[n + 1] = new.id
       /\ \A m \in 1..n : published'[m] = published[m] /\ fifoIds'[m] = fifoIds[m]
       /\ \A m \in 1..n : published[m] \in Seq(Sent)
       /\ \A m \in 1..(n + 1) : m \in 1..n \/ m = n + 1
  BY <1>1, <1>2 DEF n
<1>14. /\ StrangerPublished => StrangerPublished'
       /\ ~StrangerPublished' => /\ new.id \in BufIds \union {NoId}
                                 /\ \A m \in 1..n : fifoIds[m] \in BufIds \union {NoId}
  <2>1. n = Len(published) /\ n + 1 \in 1..(n + 1) /\ \A m \in 1..n : m \in 1..(n + 1)
    BY <1>2 DEF n
  <2> QED
    BY <1>13, <2>1 DEF StrangerPublished
(* Nothing of this source and tick was published before.                   *)
<1>15. ASSUME new.id \in BufIds, NEW m \in 1..n, fifoIds[m] = new.id,
              IsPrefix(MessageOf(t, new.id), published[m])
       PROVE  FALSE
  <2>1. PICK i \in 1..idCount : bufs[entry][i].id = new.id
    BY <1>1, <1>4, <1>6, <1>7, <1>15 DEF PublishedIsPast, BeginsWith, n
  <2>2. i \in 1..Capacity /\ i < k /\ new.id # NoId
    BY <1>1, <1>11, <1>15 DEF k
  <2> QED
    BY <1>1, <1>5, <2>1, <2>2 DEF WellFormed, new
<1>16. ASSUME NEW m \in 1..n, NEW u \in Ticks, NEW d \in BufIds,
              IsPrefix(MessageOf(u, d), published[m]), ~StrangerPublished
       PROVE  fifoIds[m] = d
  <2>1. fifoIds[m] \in BufIds \union {NoId} /\ m \in 1..Len(published)
    BY <1>16 DEF StrangerPublished, n
  <2>2. fifoIds[m] # NoId
    <3>1. published[m] # <<>>
      BY <1>13, <1>16, FirstOf
    <3> QED
      BY <1>4, <1>16, <2>1, <3>1 DEF RemainsInPlace
  <2>3. PICK v \in put : IsPrefix(MessageOf(v, fifoIds[m]), published[m])
    BY <1>3, <1>4, <2>1, <2>2 DEF PublishedWholeAndOnce, BeginsWith
  <2> QED
    BY <1>2, <1>13, <1>16, <2>1, <2>2, <2>3, OneMessage
<1>17. ASSUME NEW u \in Ticks, NEW d \in BufIds, IsPrefix(MessageOf(u, d), array),
              ~StrangerPublished'
       PROVE  new.id = d
  <2>1. array # <<>>
    BY <1>1, <1>17, FirstOf
  <2>2. new.id \in BufIds
    BY <1>12, <1>14, <1>17, <2>1
  <2> QED
    BY <1>1, <1>7, <1>9, <1>17, <2>2, OneMessage
<1>18. PublishedWholeAndOnce'
  <2>1. SUFFICES ASSUME NEW j \in 1..(n + 1), fifoIds'[j] \in BufIds
                 PROVE  \E u \in put :
                            /\ IsPrefix(MessageOf(u, fifoIds'[j]), published'[j])
                            /\ \A m \in 1..(n + 1) :
                                  IsPrefix(MessageOf(u, fifoIds'[j]), published'[m]) =>
                                      m = j \/ (fifoIds'[m] # fifoIds'[j] /\ StrangerPublished')
    BY <1>1, <1>13 DEF PublishedWholeAndOnce, BeginsWith
  <2>2. CASE j = n + 1
    <3>1. fifoIds'[j] = new.id /\ published'[j] = array
      BY <1>13, <2>2
    <3>2. ASSUME NEW m \in 1..(n + 1), m # j, IsPrefix(MessageOf(t, new.id), published'[m])
          PROVE  fifoIds'[m] # new.id /\ StrangerPublished'
      <4>1. m \in 1..n /\ published'[m] = published[m] /\ fifoIds'[m] = fifoIds[m]
        BY <1>13, <2>2, <3>2
      <4>2. fifoIds[m] # new.id
        BY <1>15, <2>1, <3>1, <3>2, <4>1
      <4>3. StrangerPublished'
        BY <1>7, <1>14, <1>16, <2>1, <3>1, <3>2, <4>1, <4>2
      <4> QED
        BY <4>1, <4>2, <4>3
    <3> QED
      BY <1>9, <2>1, <3>1, <3>2
  <2>3. CASE j \in 1..n
    <3>1. fifoIds'[j] = fifoIds[j] /\ published'[j] = published[j]
      BY <1>13, <2>3
    <3>2. PICK u \in put :
              /\ IsPrefix(MessageOf(u, fifoIds[j]), published[j])
              /\ \A m \in 1..n : IsPrefix(MessageOf(u, fifoIds[j]), published[m]) =>
                     m = j \/ (fifoIds[m] # fifoIds[j] /\ StrangerPublished)
      BY <1>3, <1>4, <2>1, <2>3, <3>1 DEF PublishedWholeAndOnce, BeginsWith, n
    <3>3. ASSUME IsPrefix(MessageOf(u, fifoIds[j]), array)
          PROVE  new.id # fifoIds[j] /\ StrangerPublished'
      <4>1. u \in Ticks
        BY <1>2
      <4>2. ASSUME new.id = fifoIds[j] PROVE FALSE
        <5>1. u = t
          BY <1>1, <1>7, <1>9, <2>1, <3>1, <3>3, <4>1, <4>2, OneMessage
        <5> QED
          BY <1>15, <2>1, <2>3, <3>1, <3>2, <4>2, <5>1
      <4> QED
        BY <1>17, <2>1, <3>1, <3>3, <4>1, <4>2
    <3>4. ASSUME NEW m \in 1..(n + 1), IsPrefix(MessageOf(u, fifoIds[j]), published'[m])
          PROVE  m = j \/ (fifoIds'[m] # fifoIds[j] /\ StrangerPublished')
      <4>1. CASE m = n + 1
        BY <1>13, <3>3, <3>4, <4>1
      <4>2. CASE m \in 1..n
        BY <1>13, <1>14, <3>2, <3>4, <4>2
      <4> QED
        BY <1>13, <4>1, <4>2
    <3> QED
      BY <3>1, <3>2, <3>4
  <2> QED
    BY <1>13, <2>2, <2>3
<1>19. HoldsItsEntry'
  BY <1>1, <1>5 DEF HoldsItsEntry
<1>20. PublishedIsPast'
  <2>1. SUFFICES ASSUME NEW j \in 1..(n + 1), NEW u \in Ticks,
                        fifoIds'[j] \in BufIds,
                        IsPrefix(MessageOf(u, fifoIds'[j]), published'[j]),
                        IsLatest(u, buffers[u])
                 PROVE  /\ owner[buffers[u]] # "queued"
                        /\ entry = buffers[u] =>
                               \E i \in 1..k : bufs[entry][i].id = fifoIds'[j]
    BY <1>1, <1>13 DEF PublishedIsPast, BeginsWith, IsLatest
  <2>2. CASE j = n + 1
    <3>1. fifoIds'[j] = new.id /\ published'[j] = array
      BY <1>13, <2>2
    <3>2. u = t
      BY <1>1, <1>7, <1>9, <2>1, <3>1, OneMessage
    <3>3. k \in 1..k /\ bufs[entry][k].id = new.id
      BY <1>1 DEF new
    <3> QED
      BY <1>5, <1>7, <3>1, <3>2, <3>3
  <2>3. CASE j \in 1..n
    <3>1. fifoIds'[j] = fifoIds[j] /\ published'[j] = published[j]
      BY <1>13, <2>3
    <3>2. /\ owner[buffers[u]] # "queued"
          /\ entry = buffers[u] => \E i \in 1..idCount : bufs[entry][i].id = fifoIds[j]
      BY <1>1, <1>4, <2>1, <2>3, <3>1 DEF PublishedIsPast, BeginsWith, n
    <3>3. 1..idCount \subseteq 1..k
      BY <1>1 DEF k
    <3> QED
      BY <3>1, <3>2, <3>3
  <2> QED
    BY <1>13, <2>2, <2>3
<1>21. ASSUME ~StrangerPublished' PROVE RemainsInPlace'
  <2>1. RemainsInPlace /\ ~StrangerPublished /\ new.id \in BufIds \union {NoId}
    BY <1>4, <1>14, <1>21
  <2>2. /\ \A e \in Entries : InPlace(remains'[e])
        /\ \A e \in Entries : owner'[e] = "free" => InPlace(Data(e)')
    BY <1>1, <2>1 DEF RemainsInPlace, InPlace, Data
  <2>3. ASSUME NEW i \in 1..k PROVE bufs[entry][i].id \in BufIds \/ EmptyFrom(bufs[entry], i)
    <3>1. CASE i = k
      <4>1. CASE new.id = NoId
        <5>1. \A j \in 1..Capacity : k <= j => bufs[entry][j].id = NoId
          <6> TAKE j \in 1..Capacity
          <6>1. k < j \/ k = j \/ ~(k <= j)
            BY <1>1
          <6> QED
            BY <1>1, <1>5, <4>1, <6>1 DEF WellFormed, new
        <5> QED
          BY <1>5, <3>1, <5>1 DEF WellFormed, EmptyFrom
      <4> QED
        BY <2>1, <3>1, <4>1 DEF new
    <3>2. CASE i # k
      <4>1. i \in 1..idCount
        BY <1>1, <3>2 DEF k
      <4> QED
        BY <1>1, <2>1, <4>1 DEF RemainsInPlace
    <3> QED
      BY <3>1, <3>2
  <2>4. ASSUME NEW j \in 1..(n + 1), fifoIds'[j] = NoId PROVE published'[j] = <<>>
    <3>1. CASE j = n + 1
      BY <1>12, <1>13, <2>1, <2>4, <3>1
    <3>2. CASE j \in 1..n
      BY <1>13, <2>1, <2>4, <3>2 DEF RemainsInPlace, n
    <3> QED
      BY <1>13, <3>1, <3>2
  <2> QED
    BY <1>1, <1>13, <2>2, <2>3, <2>4 DEF RemainsInPlace, EmptyFrom
<1> QED
  BY <1>18, <1>19, <1>20, <1>21

(* The other steps, of which only the last changes an owner.               *)
LEMMA EROthersKeep ==
    ASSUME OneTickAtATime, ERInv,
           \/ Loop \/ ClosedThrows \/ OpenThrows \/ Caller \/ Close \/ CloseFifo \/ GiveEntryBack
           \/ UNCHANGED etReaderVars
    PROVE  /\ PublishedWholeAndOnce'
           /\ Orderly' => HoldsItsEntry' /\ PublishedIsPast'
<1>1. /\ UNCHANGED <<losses, expSequence, buffers, bufs, put, entry, idCount>>
      /\ UNCHANGED <<published, fifoIds>>
      /\ \/ owner' = owner /\ (stage' = stage \/ stage' \in {"loop", "get", "ended"})
         \/ owner' = [owner EXCEPT ![entry] = "free"] /\ stage' = "loop"
  BY DEF Loop, ClosedThrows, OpenThrows, Thrown, Caller, Close, CloseFifo, GiveEntryBack, GiveBack,
         etReaderVars, receiverVars, ringVars, vars, netVars, mapVars, etVars
<1>2. /\ Orderly' => Orderly
      /\ owner \in [Entries -> {"free", "producer", "queued", "consumer"}]
      /\ buffers \in [Ticks -> Entries \union {NoEntry}]
  BY <1>1 DEF Orderly, ERInv, EtInv, Basic, TypeOK
<1>3. PublishedWholeAndOnce'
  BY <1>1, <1>2 DEF ERInv, PublishedWholeAndOnce, BeginsWith, StrangerPublished
<1>4. ASSUME Orderly' PROVE HoldsItsEntry'
  BY <1>1, <1>2, <1>4 DEF ERInv, HoldsItsEntry
<1>5. ASSUME Orderly' PROVE PublishedIsPast'
  <2>1. SUFFICES ASSUME NEW n \in 1..Len(published), NEW t \in Ticks,
                        fifoIds[n] \in BufIds,
                        BeginsWith(n, t, fifoIds[n]),
                        IsLatest(t, buffers[t])
                 PROVE  /\ owner'[buffers[t]] # "queued"
                        /\ (stage' = "publish" /\ entry = buffers[t]) =>
                               \E i \in 1..idCount : bufs[entry][i].id = fifoIds[n]
    BY <1>1 DEF PublishedIsPast, BeginsWith, IsLatest
  <2>2. /\ owner[buffers[t]] # "queued"
        /\ (stage = "publish" /\ entry = buffers[t]) =>
               \E i \in 1..idCount : bufs[entry][i].id = fifoIds[n]
    BY <1>2, <1>5, <2>1 DEF ERInv, PublishedIsPast
  <2>3. t \in put
    BY <1>2, <1>5, <2>1, PublishedOfPut DEF ERInv, EtInv
  <2>4. buffers[t] \in Entries
    BY <1>2, <2>3 DEF ERInv, EtInv, InOrderOfTicks
  <2> QED
    BY <1>1, <1>2, <2>2, <2>4
<1> QED
  BY <1>3, <1>4, <1>5

(* What an entry leaves behind when it is given back is in place.          *)
LEMMA EROthersRemain ==
    ASSUME OneTickAtATime, ERInv, Orderly, RemainsInPlace,
           \/ Loop \/ ClosedThrows \/ OpenThrows \/ Caller \/ Close \/ CloseFifo \/ GiveEntryBack
           \/ UNCHANGED etReaderVars
           \/ \E e \in Entries : GetEntryFrom(e)
    PROVE  RemainsInPlace'
<1>1. /\ UNCHANGED <<bufs, remains, published, fifoIds>>
      /\ Basic /\ ERBasic /\ HoldsItsEntry /\ Capacity \in Nat
      /\ owner \in [Entries -> {"free", "producer", "queued", "consumer"}]
  BY EtAssemblerAssumption
     DEF ERInv, EtInv, Basic, TypeOK, Loop, ClosedThrows, OpenThrows, Thrown, Caller, Close, CloseFifo,
         GiveEntryBack, GiveBack, GetEntryFrom, GetEntry,
         etReaderVars, receiverVars, ringVars, vars, netVars, mapVars, etVars
<1>2. CASE \/ Loop \/ ClosedThrows \/ OpenThrows \/ Caller \/ Close \/ CloseFifo
           \/ UNCHANGED etReaderVars
  <2>1. /\ UNCHANGED <<owner, entry, idCount>>
        /\ stage' \in {"publish", "give"} => stage' = stage
    BY <1>2
       DEF Loop, ClosedThrows, OpenThrows, Thrown, Caller, Close, CloseFifo,
           etReaderVars, receiverVars, vars, etVars
  <2> QED
    BY <1>1, <2>1 DEF RemainsInPlace, InPlace, Data, EmptyFrom
<1>3. CASE \E e \in Entries : GetEntryFrom(e)
  <2>1. /\ idCount' = 0
        /\ \A x \in Entries : owner'[x] = "free" => owner[x] = "free"
    BY <1>1, <1>3 DEF GetEntryFrom, GetEntry
  <2> QED
    BY <1>1, <2>1 DEF RemainsInPlace, InPlace, Data, EmptyFrom
<1>4. CASE GiveEntryBack
  <2>1. /\ stage = "give" /\ stage' = "loop" /\ entry \in Entries /\ idCount = Capacity
        /\ \A x \in Entries : x # entry => owner'[x] = owner[x]
    BY <1>1, <1>4 DEF GiveEntryBack, GiveBack, ERBasic
  <2>2. WellFormed(bufs[entry])
    BY <1>1, <2>1 DEF Basic
  <2>3. ASSUME NEW i \in 1..Capacity, bufs[entry][i].pkts # <<>> PROVE i <= Cardinality(BufIds)
    <3>1. ASSUME NEW j \in 1..i PROVE bufs[entry][j].id \in BufIds
      <4>1. j \in 1..Capacity /\ j <= i
        BY <1>1
      <4>2. ~EmptyFrom(bufs[entry], j)
        BY <2>3, <4>1 DEF EmptyFrom
      <4> QED
        BY <2>1, <4>1, <4>2 DEF RemainsInPlace
    <3> QED
      BY <2>2, <3>1, TakenAtMost
  <2>4. InPlace(Data(entry))
    BY <2>3 DEF InPlace, Data
  <2> QED
    BY <1>1, <2>1, <2>4 DEF RemainsInPlace, InPlace, Data
<1> QED
  BY <1>2, <1>3, <1>4

(* What was published stays so, and Orderly is lost for good.              *)
LEMMA BackFromOrderly ==
    ASSUME OneTickAtATime, ERInv, [ERNext]_etReaderVars, Orderly', ~StrangerPublished'
    PROVE  Orderly /\ RemainsInPlace
<1>1. [Next]_vars /\ Basic
  BY ERNextIsNext DEF ERInv, EtInv
<1>2. Orderly
  <2>1. ASSUME NEW p \in net, Lose(p) PROVE FALSE
    BY <1>1, <2>1, EtAssemblerAssumption DEF Lose, Orderly, Basic, TypeOK
  <2>2. CASE PutEntry \/ Aside
    BY <2>1, <2>2 DEF PutEntry, Aside, Fails, RecvFails, NoNewEntry, Arrive, DrainNoRoom,
                      Consumer, GetEntry, GiveBack,
                      Orderly, vars, netVars, mapVars
  <2> QED
    BY <1>1, <2>2, StepsOfNext, OrderlyBefore
<1>3. ~StrangerPublished
  <2>1. UNCHANGED <<published, fifoIds>> => (StrangerPublished => StrangerPublished')
    BY DEF StrangerPublished
  <2>2. CASE PublishBuffer
    <3>1. /\ published \in Seq(Seq(Sent)) /\ fifoIds \in Seq(Ids \union {NoId})
          /\ Len(fifoIds) = Len(published)
          /\ \E a \in Seq(Sent) : published' = Append(published, a)
          /\ \E d \in Ids \union {NoId} : fifoIds' = Append(fifoIds, d)
      BY <1>1, <2>2, PublishEffect DEF ERInv, ERBasic, ERTypeOK
    <3>2. /\ \A n \in 1..Len(published) : n \in 1..Len(published') /\ fifoIds'[n] = fifoIds[n]
      BY <3>1
    <3> QED
      BY <3>2 DEF StrangerPublished
  <2>3. CASE ~PublishBuffer
    BY <2>1, <2>3 DEF ERNext, Producer, Trouble, Receiver, Loop, ClosedThrows, OpenThrows, Thrown,
                      GetEntryFrom, GiveEntryBack, Caller, Close, CloseFifo, etReaderVars, ringVars
  <2> QED
    BY <2>2, <2>3
<1> QED
  BY <1>2, <1>3 DEF ERInv

LEMMA ERInvStep == OneTickAtATime /\ ERInv /\ [ERNext]_etReaderVars => ERInv'
<1> SUFFICES ASSUME OneTickAtATime, ERInv, [ERNext]_etReaderVars PROVE ERInv'
  OBVIOUS
<1>1. [Next]_vars
  BY ERNextIsNext DEF ERInv
<1>2. EtInv'
  BY <1>1, EtStep DEF ERInv
<1>3. ERBasic'
  BY <1>2, ERBasicStep DEF ERInv, EtInv
<1>4. PublishedWholeAndOnce' /\ (Orderly' => HoldsItsEntry' /\ PublishedIsPast')
  BY <1>2, ERRoutineKeeps, ERGetKeeps, ERPublishKeeps, EROthersKeep DEF ERNext, Receiver
<1>5. (Orderly' /\ ~StrangerPublished') => RemainsInPlace'
  BY BackFromOrderly, ERRoutineRemains, ERPublishKeeps, EROthersRemain DEF ERNext, Receiver
<1> QED
  BY <1>2, <1>3, <1>4, <1>5 DEF ERInv

(* As long as the ticks do not overtake one another and every source sends *)
(* something for each: the array published for a source that the fifo was  *)
(* opened for begins with the whole data of it for a tick, and no other    *)
(* array does, though the entries are used again and again, remains and    *)
(* all, and the buffers that nobody has used are published with them.      *)
THEOREM ERPublishedWholeAndOnce ==
    ASSUME OneTickAtATime
    PROVE  ERSpec => []PublishedWholeAndOnce
<1>1. ERInit => ERInv
  <2>1. ASSUME ERInit PROVE EtInv /\ ERBasic
    BY <2>1, EtInit, ERBasicInit DEF ERInit
  <2>2. ASSUME ERInit PROVE PublishedWholeAndOnce /\ HoldsItsEntry /\ PublishedIsPast
    BY <2>2 DEF ERInit, PublishedWholeAndOnce, HoldsItsEntry, PublishedIsPast
  <2>3. ASSUME ERInit PROVE RemainsInPlace
    BY <2>3 DEF ERInit, Init, RemainsInPlace, InPlace, Data, NewEntry, Unused
  <2> QED
    BY <2>1, <2>2, <2>3 DEF ERInv
<1>2. ERInv /\ [ERNext]_etReaderVars => ERInv'
  BY ERInvStep
<1>3. ERInv => PublishedWholeAndOnce
  BY DEF ERInv
<1> QED
  BY <1>1, <1>2, <1>3, PTL DEF ERSpec

(* Seen without the receiver, the chain is getBuffers and the ET system as *)
(* EtAssembler has them: what is proved of Spec holds of the chain too.    *)
THEOREM ChainImplementsEt == ERSpec => Spec
<1> DEFINE Inv == Basic /\ ERBasic
<1>1. ERInit => Inv /\ Init
  BY BasicInit, ERBasicInit DEF ERInit
<1>2. Inv /\ [ERNext]_etReaderVars => Inv'
  BY BasicStep, ERNextIsNext, ERBasicStep
<1>3. Inv /\ [ERNext]_etReaderVars => [Next]_vars
  BY ERNextIsNext
<1> QED
  BY <1>1, <1>2, <1>3, PTL DEF ERSpec, Spec

(* Seen from the ring, it is the queue that its caller is promised.        *)
THEOREM ChainImplementsQueue == ERSpec => Ring!Spec
<1>1. ERInit => Ring!Init
  BY DEF ERInit
<1>2. [ERNext]_etReaderVars => [Ring!Next]_<<entered, given>>
  BY DEF ERNext, Producer, Trouble, Receiver, Loop, GetEntryFrom, ClosedThrows, OpenThrows,
         Thrown, PublishBuffer, PublishNext, GiveEntryBack, Caller, Close, CloseFifo, etReaderVars, ringVars, Ring!Next
<1> QED
  BY <1>1, <1>2, PTL DEF ERSpec, Ring!Spec
=============================================================================

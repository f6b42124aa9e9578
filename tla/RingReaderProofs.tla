-------------------------- MODULE RingReaderProofs --------------------------
(***************************************************************************)
(* The safety of RingReader for a ring of any size, any events and any     *)
(* number of them: NotOverwritten, GivenInOrder, and that the reader is an *)
(* EventQueue.                                                             *)
(***************************************************************************)
EXTENDS RingReader, TLAPS

(* Where the receiver is: it has claimed one slot more than it published   *)
(* while it reads and fills it, and it has read one event more once it has *)
(* one in hand.                                                            *)
ReceiverPlace ==
    /\ rpc \in {"listen", "accept", "loop", "claim", "ended"} => sequenceNumber = cursor
    /\ rpc \in {"read", "fill", "publish"} => sequenceNumber = cursor + 1
    /\ rpc \in {"listen", "accept", "loop", "claim", "read", "ended"} => readEvents = cursor + 1
    /\ rpc \in {"fill", "publish"} => readEvents = cursor + 2
    /\ rpc = "publish" => slots[Slot(sequenceNumber)] = readEvents
    /\ rpc = "claim" => cursor - RingSize <= sequence

(* What was claimed is at most a ring ahead of what the caller has left.   *)
WithinRing ==
    /\ sequenceNumber - RingSize <= sequence
    /\ cursor <= sequenceNumber

(* Where the caller is.                                                    *)
CallerPlace ==
    /\ nextSequence = sequence + 1
    /\ Len(given) = nextSequence
    /\ sequence <= cursor
    /\ availableSequence <= cursor
    /\ cpc \in {"clone", "put"} => nextSequence <= availableSequence
    /\ cpc = "put" => clone = nextSequence + 1

IndInv ==
    /\ TypeOK
    /\ ReceiverPlace
    /\ WithinRing
    /\ CallerPlace
    /\ NotOverwritten
    /\ GivenInOrder

-----------------------------------------------------------------------------
(* Two sequences less than a ring apart have different slots.              *)
LEMMA SlotsDiffer ==
    ASSUME NEW m \in Nat, NEW n \in Nat, n < m, m - n < RingSize
    PROVE  Slot(m) # Slot(n)
<1>1. RingSize \in Nat \ {0}
  BY RingReaderAssumption
<1> DEFINE a == m \div RingSize
           b == n \div RingSize
<1>2. /\ a \in Int /\ b \in Int
      /\ m = RingSize * a + (m % RingSize)
      /\ n = RingSize * b + (n % RingSize)
  BY <1>1
<1>3. SUFFICES ASSUME m % RingSize = n % RingSize
               PROVE  FALSE
  BY DEF Slot
<1> DEFINE d == a - b
<1>4. d \in Int /\ m - n = RingSize * d
  <2>1. m - n = RingSize * a - RingSize * b
    BY <1>1, <1>2, <1>3
  <2>2. RingSize * a - RingSize * b = RingSize * (a - b)
    BY <1>1, <1>2
  <2> QED
    BY <1>2, <2>1, <2>2
<1> HIDE DEF a, b, d
<1>5. CASE d <= 0
  <2>1. RingSize * d <= 0
    BY <1>1, <1>4, <1>5
  <2> QED
    BY <1>4, <2>1
<1>6. CASE d >= 1
  <2>1. RingSize * d >= RingSize
    BY <1>1, <1>4, <1>6
  <2> QED
    BY <1>1, <1>4, <2>1
<1> QED
  BY <1>4, <1>5, <1>6

(* Every sequence has a slot of the ring.                                  *)
LEMMA SlotInRing ==
    ASSUME NEW n \in Nat
    PROVE  Slot(n) \in 0..(RingSize - 1)
BY RingReaderAssumption DEF Slot

-----------------------------------------------------------------------------
(* A step of the environment, or of the receiver up to the read, changes   *)
(* nothing that the caller or the ring depends on.                         *)
LEMMA QuietStep ==
    ASSUME IndInv, TypeOK', ReceiverPlace',
           sequenceNumber' = sequenceNumber, UNCHANGED <<ringVars, callerVars>>
    PROVE  IndInv'
<1>1. WithinRing'
  BY DEF IndInv, WithinRing, ringVars, callerVars
<1>2. CallerPlace'
  BY DEF IndInv, CallerPlace, ringVars, callerVars
<1>3. NotOverwritten' /\ GivenInOrder'
  BY DEF IndInv, NotOverwritten, GivenInOrder, ringVars, callerVars
<1> QED
  BY <1>1, <1>2, <1>3 DEF IndInv

(* The receiver's steps.                                                   *)
LEMMA ReceiverInd == IndInv /\ Receiver => IndInv'
<1> SUFFICES ASSUME IndInv, Receiver PROVE IndInv'
  OBVIOUS
<1> USE RingReaderAssumption
<1>t. TypeOK /\ ReceiverPlace /\ WithinRing /\ CallerPlace /\ NotOverwritten /\ GivenInOrder
  BY DEF IndInv
<1>1. CASE Listen
  <2>1. TypeOK'
    BY <1>t, <1>1 DEF Listen, TypeOK, ReceiverPCs, ringVars, callerVars
  <2>2. ReceiverPlace'
    BY <1>t, <1>1 DEF Listen, ReceiverPlace, ringVars, callerVars
  <2> QED
    BY <1>1, <2>1, <2>2, QuietStep DEF Listen
<1>2. CASE Accept
  <2>1. TypeOK'
    BY <1>t, <1>2 DEF Accept, TypeOK, ReceiverPCs, ringVars, callerVars, closeVars
  <2>2. ReceiverPlace'
    BY <1>t, <1>2 DEF Accept, ReceiverPlace, ringVars, callerVars
  <2> QED
    BY <1>2, <2>1, <2>2, QuietStep DEF Accept
<1>3. CASE Loop
  <2>1. TypeOK'
    BY <1>t, <1>3 DEF Loop, TypeOK, ReceiverPCs, ringVars, callerVars, closeVars
  <2>2. ReceiverPlace'
    BY <1>t, <1>3 DEF Loop, ReceiverPlace, WithinRing, TypeOK, ringVars, callerVars
  <2> QED
    BY <1>3, <2>1, <2>2, QuietStep DEF Loop
<1>4. CASE Claim
  <2>1. TypeOK'
    BY <1>t, <1>4 DEF Claim, TypeOK, ReceiverPCs, ringVars, callerVars, closeVars
  <2>2. ReceiverPlace'
    BY <1>t, <1>4 DEF Claim, ReceiverPlace, ringVars, callerVars
  <2>3. WithinRing'
    BY <1>t, <1>4 DEF Claim, WithinRing, TypeOK, ringVars, callerVars
  <2>4. CallerPlace'
    BY <1>t, <1>4 DEF Claim, CallerPlace, ringVars, callerVars
  <2>5. NotOverwritten' /\ GivenInOrder'
    BY <1>t, <1>4 DEF Claim, NotOverwritten, GivenInOrder, ringVars, callerVars
  <2> QED
    BY <2>1, <2>2, <2>3, <2>4, <2>5 DEF IndInv
<1>5. CASE ReadEvent
  <2>1. TypeOK'
    BY <1>t, <1>5 DEF ReadEvent, TypeOK, ReceiverPCs, ringVars, callerVars, closeVars
  <2>2. ReceiverPlace'
    BY <1>t, <1>5 DEF ReadEvent, ReceiverPlace, TypeOK, ringVars, callerVars
  <2> QED
    BY <1>5, <2>1, <2>2, QuietStep DEF ReadEvent
<1>6. CASE ReadFromNull
  <2>1. TypeOK'
    BY <1>t, <1>6 DEF ReadFromNull, TypeOK, ReceiverPCs, ringVars, callerVars, closeVars
  <2>2. ReceiverPlace'
    BY <1>t, <1>6 DEF ReadFromNull, ReceiverPlace, ringVars, callerVars
  <2> QED
    BY <1>6, <2>1, <2>2, QuietStep DEF ReadFromNull
<1>7. CASE ReadFails
  <2>1. TypeOK'
    BY <1>t, <1>7 DEF ReadFails, TypeOK, ReceiverPCs, receiverVars, ringVars, callerVars, closeVars
  <2>2. ReceiverPlace'
    BY <1>t, <1>7 DEF ReadFails, ReceiverPlace, receiverVars, ringVars, callerVars
  <2> QED
    BY <1>7, <2>1, <2>2, QuietStep DEF ReadFails, receiverVars
<1>8. CASE SetPayload
  <2>0. sequenceNumber \in Nat /\ sequenceNumber = cursor + 1 /\ readEvents = cursor + 2
    BY <1>t, <1>8 DEF SetPayload, ReceiverPlace, TypeOK
  <2>s. Slot(sequenceNumber) \in 0..(RingSize - 1)
    BY <2>0, SlotInRing
  <2>1. TypeOK'
    BY <1>t, <1>8, <2>s DEF SetPayload, TypeOK, ReceiverPCs, callerVars, closeVars
  <2>2. ReceiverPlace'
    BY <1>t, <1>8, <2>0, <2>s DEF SetPayload, ReceiverPlace, TypeOK, callerVars
  <2>3. WithinRing' /\ CallerPlace' /\ GivenInOrder'
    BY <1>t, <1>8 DEF SetPayload, WithinRing, CallerPlace, GivenInOrder, callerVars
  <2>4. NotOverwritten'
    <3> SUFFICES ASSUME NEW n \in (sequence + 1)..cursor
                 PROVE  slots'[Slot(n)] = n + 1
      BY <1>8 DEF SetPayload, NotOverwritten, callerVars
    <3>1. n \in Nat /\ n < sequenceNumber /\ sequenceNumber - n < RingSize
      BY <1>t, <2>0 DEF TypeOK, WithinRing
    <3>2. Slot(n) # Slot(sequenceNumber)
      BY <2>0, <3>1, SlotsDiffer
    <3>3. slots'[Slot(n)] = slots[Slot(n)]
      BY <1>t, <1>8, <3>1, <3>2, SlotInRing DEF SetPayload, TypeOK
    <3> QED
      BY <1>t, <3>3 DEF NotOverwritten
  <2> QED
    BY <2>1, <2>2, <2>3, <2>4 DEF IndInv
<1>9. CASE Publish
  <2>0. /\ sequenceNumber \in Nat /\ sequenceNumber = cursor + 1 /\ readEvents = cursor + 2
        /\ slots[Slot(sequenceNumber)] = readEvents
    BY <1>t, <1>9 DEF Publish, ReceiverPlace, TypeOK
  <2>1. TypeOK'
    BY <1>t, <1>9 DEF Publish, TypeOK, ReceiverPCs, callerVars, closeVars
  <2>2. ReceiverPlace'
    BY <1>t, <1>9, <2>0 DEF Publish, ReceiverPlace, WithinRing, TypeOK, callerVars
  <2>3. WithinRing' /\ CallerPlace' /\ GivenInOrder'
    BY <1>t, <1>9, <2>0 DEF Publish, WithinRing, CallerPlace, GivenInOrder, TypeOK, callerVars
  <2>4. NotOverwritten'
    <3> SUFFICES ASSUME NEW n \in (sequence + 1)..sequenceNumber
                 PROVE  slots[Slot(n)] = n + 1
      BY <1>9 DEF Publish, NotOverwritten, callerVars
    <3>1. CASE n = sequenceNumber
      BY <2>0, <3>1, <1>t DEF TypeOK
    <3>2. CASE n # sequenceNumber
      <4>1. n \in (sequence + 1)..cursor
        BY <2>0, <3>2, <1>t DEF TypeOK
      <4> QED
        BY <1>t, <4>1 DEF NotOverwritten
    <3> QED
      BY <3>1, <3>2
  <2> QED
    BY <2>1, <2>2, <2>3, <2>4 DEF IndInv
<1> QED
  BY <1>1, <1>2, <1>3, <1>4, <1>5, <1>6, <1>7, <1>8, <1>9 DEF Receiver

(* The caller's steps.                                                     *)
LEMMA CallerInd == IndInv /\ Caller => IndInv'
<1> SUFFICES ASSUME IndInv, Caller PROVE IndInv'
  OBVIOUS
<1> USE RingReaderAssumption
<1>t. TypeOK /\ ReceiverPlace /\ WithinRing /\ CallerPlace /\ NotOverwritten /\ GivenInOrder
  BY DEF IndInv
<1>1. CASE GetEvent
  <2>1. TypeOK'
    BY <1>t, <1>1 DEF GetEvent, TypeOK, ConsumerPCs, receiverVars, ringVars, closeVars
  <2>2. ReceiverPlace' /\ WithinRing'
    BY <1>t, <1>1 DEF GetEvent, ReceiverPlace, WithinRing, receiverVars, ringVars
  <2>3. CallerPlace'
    BY <1>t, <1>1 DEF GetEvent, CallerPlace, TypeOK, ringVars
  <2>4. NotOverwritten' /\ GivenInOrder'
    BY <1>t, <1>1 DEF GetEvent, NotOverwritten, GivenInOrder, ringVars
  <2> QED
    BY <2>1, <2>2, <2>3, <2>4 DEF IndInv
<1>2. CASE WaitFor
  <2>1. TypeOK'
    BY <1>t, <1>2 DEF WaitFor, TypeOK, ConsumerPCs, receiverVars, ringVars, closeVars
  <2>2. ReceiverPlace' /\ WithinRing'
    BY <1>t, <1>2 DEF WaitFor, ReceiverPlace, WithinRing, receiverVars, ringVars
  <2>3. CallerPlace'
    BY <1>t, <1>2 DEF WaitFor, CallerPlace, TypeOK, ringVars
  <2>4. NotOverwritten' /\ GivenInOrder'
    BY <1>t, <1>2 DEF WaitFor, NotOverwritten, GivenInOrder, ringVars
  <2> QED
    BY <2>1, <2>2, <2>3, <2>4 DEF IndInv
<1>3. CASE GetPayloadBuffer
  <2>0. nextSequence \in (sequence + 1)..cursor
    BY <1>t, <1>3 DEF GetPayloadBuffer, CallerPlace, TypeOK
  <2>1. slots[Slot(nextSequence)] = nextSequence + 1
    BY <1>t, <2>0 DEF NotOverwritten
  <2>2. TypeOK'
    BY <1>t, <1>3, <2>1 DEF GetPayloadBuffer, TypeOK, ConsumerPCs, receiverVars, ringVars, closeVars
  <2>3. ReceiverPlace' /\ WithinRing'
    BY <1>t, <1>3 DEF GetPayloadBuffer, ReceiverPlace, WithinRing, receiverVars, ringVars
  <2>4. CallerPlace'
    BY <1>t, <1>3, <2>1 DEF GetPayloadBuffer, CallerPlace, ringVars
  <2>5. NotOverwritten' /\ GivenInOrder'
    BY <1>t, <1>3 DEF GetPayloadBuffer, NotOverwritten, GivenInOrder, ringVars
  <2> QED
    BY <2>2, <2>3, <2>4, <2>5 DEF IndInv
<1>4. CASE Put
  <2>0. /\ clone = nextSequence + 1 /\ clone \in Nat
        /\ nextSequence = sequence + 1 /\ nextSequence <= cursor
        /\ Len(given) = nextSequence
    BY <1>t, <1>4 DEF Put, CallerPlace, TypeOK
  <2>1. TypeOK'
    BY <1>t, <1>4, <2>0 DEF Put, TypeOK, ConsumerPCs, receiverVars, ringVars, closeVars
  <2>2. ReceiverPlace'
    BY <1>t, <1>4, <2>0 DEF Put, ReceiverPlace, TypeOK, receiverVars, ringVars
  <2>3. WithinRing'
    BY <1>t, <1>4, <2>0 DEF Put, WithinRing, TypeOK, receiverVars, ringVars
  <2>4. CallerPlace'
    BY <1>t, <1>4, <2>0 DEF Put, CallerPlace, TypeOK, receiverVars, ringVars
  <2>5. NotOverwritten'
    BY <1>t, <1>4, <2>0 DEF Put, NotOverwritten, TypeOK, ringVars
  <2>6. GivenInOrder'
    BY <1>t, <1>4, <2>0 DEF Put, GivenInOrder, TypeOK
  <2> QED
    BY <2>1, <2>2, <2>3, <2>4, <2>5, <2>6 DEF IndInv
<1> QED
  BY <1>1, <1>2, <1>3, <1>4 DEF Caller

(* The environment's steps.                                                *)
LEMMA EnvironmentInd == IndInv /\ (Break \/ Closer) => IndInv'
<1> SUFFICES ASSUME IndInv, Break \/ Closer PROVE IndInv'
  OBVIOUS
<1>t. TypeOK /\ ReceiverPlace
  BY DEF IndInv
<1>u. UNCHANGED <<receiverVars, ringVars, callerVars>>
  BY DEF Break, Closer, Close, CloseStream, CloseServerSocket
<1>1. TypeOK'
  <2>1. CASE Break
    BY <1>t, <1>u, <2>1 DEF Break, TypeOK, receiverVars, ringVars, callerVars, closeVars
  <2>2. CASE Close
    BY <1>t, <1>u, <2>2 DEF Close, TypeOK, receiverVars, ringVars, callerVars
  <2>3. CASE CloseStream
    BY <1>t, <1>u, <2>3 DEF CloseStream, TypeOK, receiverVars, ringVars, callerVars
  <2>4. CASE CloseServerSocket
    BY <1>t, <1>u, <2>4 DEF CloseServerSocket, TypeOK, receiverVars, ringVars, callerVars
  <2> QED
    BY <2>1, <2>2, <2>3, <2>4 DEF Closer
<1>2. ReceiverPlace'
  BY <1>t, <1>u DEF ReceiverPlace, receiverVars, ringVars, callerVars
<1> QED
  BY <1>1, <1>2, <1>u, QuietStep DEF receiverVars

(* Every step keeps the invariant.                                         *)
LEMMA StepInd == IndInv /\ [Next]_vars => IndInv'
<1> SUFFICES ASSUME IndInv, [Next]_vars PROVE IndInv'
  OBVIOUS
<1>1. CASE Receiver
  BY <1>1, ReceiverInd
<1>2. CASE Caller
  BY <1>2, CallerInd
<1>3. CASE Break \/ Closer
  BY <1>3, EnvironmentInd
<1>4. CASE UNCHANGED vars
  <2>1. TypeOK' /\ ReceiverPlace'
    BY <1>4 DEF IndInv, TypeOK, ReceiverPlace, vars, receiverVars, ringVars, callerVars, closeVars
  <2> QED
    BY <1>4, <2>1, QuietStep DEF vars, receiverVars
<1> QED
  BY <1>1, <1>2, <1>3, <1>4 DEF Next

-----------------------------------------------------------------------------
(* The inductive invariant holds in every reachable state.                 *)
THEOREM Inductive == Spec => []IndInv
<1>1. Init => IndInv
  <2> SUFFICES ASSUME Init PROVE IndInv
    OBVIOUS
  <2> USE RingReaderAssumption DEF Init
  <2>1. TypeOK
    BY DEF TypeOK, ReceiverPCs, ConsumerPCs
  <2>2. ReceiverPlace /\ WithinRing /\ CallerPlace
    BY DEF ReceiverPlace, WithinRing, CallerPlace
  <2>3. NotOverwritten /\ GivenInOrder
    BY DEF NotOverwritten, GivenInOrder
  <2> QED
    BY <2>1, <2>2, <2>3 DEF IndInv
<1> QED
  BY <1>1, StepInd, PTL DEF Spec

(* The variables of receiver, ring and caller have their types.            *)
THEOREM TypeCorrect == Spec => []TypeOK
<1>1. IndInv => TypeOK
  BY DEF IndInv
<1> QED
  BY <1>1, Inductive, PTL

(* No event that waits in the ring, or is being copied out of it, is       *)
(* overwritten, whatever the ring's size and the two threads' speed.       *)
THEOREM WaitingEventsSafe == Spec => []NotOverwritten
<1>1. IndInv => NotOverwritten
  BY DEF IndInv
<1> QED
  BY <1>1, Inductive, PTL

(* The caller is given each event once and in order.                       *)
THEOREM CallerServedInOrder == Spec => []GivenInOrder
<1>1. IndInv => GivenInOrder
  BY DEF IndInv
<1> QED
  BY <1>1, Inductive, PTL

(* The reader implements the bounded queue.                                *)
THEOREM ImplementsEventQueue == Spec => IsAQueue
<1> USE RingReaderAssumption
<1>1. Init => Queue!Init
  BY DEF Init, Queue!Init
<1>2. IndInv /\ [Next]_vars => [Queue!Next]_<<cursor + 1, given>>
  <2> SUFFICES ASSUME IndInv, [Next]_vars
               PROVE  Queue!Next \/ UNCHANGED <<cursor + 1, given>>
    OBVIOUS
  <2>t. TypeOK /\ ReceiverPlace /\ WithinRing /\ CallerPlace
    BY DEF IndInv
  <2>1. CASE Publish
    <3>1. /\ cursor' = cursor + 1 /\ given' = given
          /\ cursor - Len(given) + 1 < RingSize
      BY <2>t, <2>1 DEF Publish, ReceiverPlace, WithinRing, CallerPlace, TypeOK, callerVars
    <3> QED
      BY <2>t, <3>1 DEF Queue!Next, Queue!Enter, TypeOK
  <2>2. CASE Put
    <3>1. /\ given' = Append(given, Len(given) + 1) /\ cursor' = cursor
          /\ Len(given) < cursor + 1
      BY <2>t, <2>2 DEF Put, CallerPlace, TypeOK, ringVars
    <3> QED
      BY <2>t, <3>1 DEF Queue!Next, Queue!Give
  <2>3. CASE ~Publish /\ ~Put
    <3>1. cursor' = cursor /\ given' = given
      BY <2>3 DEF Next, Receiver, Caller, Closer, Listen, Accept, Loop, Claim, ReadEvent,
                  ReadFromNull, ReadFails, SetPayload, GetEvent, WaitFor, GetPayloadBuffer,
                  Break, Close, CloseStream, CloseServerSocket, vars, ringVars, callerVars
    <3> QED
      BY <3>1
  <2> QED
    BY <2>1, <2>2, <2>3
<1> QED
  BY <1>1, <1>2, Inductive, PTL DEF Spec, IsAQueue, Queue!Spec
=============================================================================

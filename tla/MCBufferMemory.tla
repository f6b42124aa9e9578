--------------------------- MODULE MCBufferMemory ---------------------------
(***************************************************************************)
(* An instance of BufferMemory for TLC, with the messages of MCGetBuffer.  *)
(***************************************************************************)
EXTENDS BufferMemory

CONSTANT t1

FourPackets == [t \in Ticks |-> 4]
ShortLast   == [t \in Ticks |-> 2]
AllFirst    == [t \in Ticks |-> TRUE]
=============================================================================

---------------------------- MODULE MCGetBuffer ----------------------------
(***************************************************************************)
(* Instances of GetBuffer for TLC.  A full packet has 3 bytes of data and  *)
(* the header 1; the buffer first allocated has room for two packets and a *)
(* byte or two, so that a message of three or four needs it doubled once   *)
(* and one of six would need it doubled twice.                             *)
(***************************************************************************)
EXTENDS GetBuffer

CONSTANT t1

FourPackets == [t \in Ticks |-> 4]
SixPackets  == [t \in Ticks |-> 6]
ShortLast   == [t \in Ticks |-> 2]
AllFirst    == [t \in Ticks |-> TRUE]
=============================================================================

---------------------------- MODULE MCAssembler ----------------------------
(***************************************************************************)
(* Instances of Assembler for TLC: the messages' shapes.  A packet of      *)
(* Payload = 2 bytes stands for a full one; a message ends with a full or  *)
(* with a short packet.                                                    *)
(***************************************************************************)
EXTENDS Assembler

CONSTANTS t1, t2                        \* ticks

FivePackets  == [t \in Ticks |-> 5]     \* packets in a message
ShortLast    == [t \in Ticks |-> 1]     \* its last packet is not full
AllFirst     == [t \in Ticks |-> TRUE]  \* sent with firstBuffer = true

(* Two ticks of different lengths.                                         *)
ThreeAndTwo   == [t \in Ticks |-> IF t = t1 THEN 3 ELSE 2]
FullThenShort == [t \in Ticks |-> IF t = t1 THEN 2 ELSE 1]
=============================================================================

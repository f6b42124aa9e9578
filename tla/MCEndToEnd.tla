----------------------------- MODULE MCEndToEnd -----------------------------
(***************************************************************************)
(* An instance of EndToEnd for TLC.  With Two31 = 16, buffers of up to 15  *)
(* bytes are sendable and one of 17 has a negative int for its length.  An *)
(* MTU of 60 leaves 4 bytes for data, one of 63 leaves 7, one of 40 a      *)
(* negative number.  The last two messages, or one of them, go to the      *)
(* receiver; the very last is sent without the first bit.                  *)
(***************************************************************************)
EXTENDS EndToEnd

CONSTANTS t1, t2

SomeMessages == << <<13>>, <<3>>, <<5, 9>>, <<0>>, <<2, 0>>, <<17>>, <<3, 8>>, <<8>> >>
AllButLast == 1..7
LastTwo    == {7, 8}
SomeTicks  == [m \in LastTwo |-> IF m = 7 THEN t1 ELSE t2]
=============================================================================

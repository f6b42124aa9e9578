---------------------------- MODULE MCEtReceiver ----------------------------
(***************************************************************************)
(* An instance of EtReceiver for TLC: sources 1 and 2, that the fifo was   *)
(* opened for, and source 9, that it was not.                              *)
(***************************************************************************)
EXTENDS EtReceiver

(* Source 1 needs two packets for tick 1, all else goes into one; the      *)
(* packet of source 9 does not have the first bit.                         *)
WithAStranger ==
    [s \in Ticks \X Ids |->
        CASE s = <<1, 1>> -> <<2, 2>>
          [] s \in {<<1, 2>>, <<2, 1>>, <<2, 9>>} -> <<1>>
          [] s = <<2, 2>> -> <<2>>
          [] OTHER        -> <<>>]

TheStranger == {<<2, 9>>}
=============================================================================

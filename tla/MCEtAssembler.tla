--------------------------- MODULE MCEtAssembler ---------------------------
(***************************************************************************)
(* Instances of EtAssembler for TLC, without the reader of EtReceiver.     *)
(***************************************************************************)
EXTENDS EtAssembler

TwoEach  == [s \in Ticks \X Ids |-> <<1, 1>>]
FourEach == [s \in Ticks \X Ids |-> <<1, 1, 1, 1>>]
=============================================================================

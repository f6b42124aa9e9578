----------------------------- MODULE EventQueue -----------------------------
(***************************************************************************)
(* What a reader of EJFAT events promises its caller: a bounded queue.     *)
(* The events come in the order 1, 2, 3, ... in which the sender wrote     *)
(* them to the connection; the caller is given each of them once, in that  *)
(* order, and at most Capacity wait in between.                            *)
(***************************************************************************)
EXTENDS Naturals, Sequences

CONSTANT Capacity

VARIABLES entered,      \* how many events have entered the queue
          given         \* the events that the caller was given, in order

Init == entered = 0 /\ given = <<>>

Enter ==
    /\ entered - Len(given) < Capacity
    /\ entered' = entered + 1
    /\ UNCHANGED given

Give ==
    /\ Len(given) < entered
    /\ given' = Append(given, Len(given) + 1)
    /\ UNCHANGED entered

Next == Enter \/ Give

Spec == Init /\ [][Next]_<<entered, given>>
=============================================================================

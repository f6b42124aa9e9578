-------------------------- MODULE InOrderDelivery --------------------------
(***************************************************************************)
(* What the reassembly routines promise their caller, whatever the network *)
(* does to the packets: the buffer only ever holds a prefix of the message *)
(* that was sent, it grows by one packet of the message at a time, in      *)
(* order, and the caller is told "complete" in the very step that delivers *)
(* the packet carrying the last bit and never otherwise.                   *)
(***************************************************************************)
EXTENDS Naturals, Sequences

CONSTANT Message        \* the packets of the message, in the order they were cut

VARIABLES buffer,       \* the packets in the caller's buffer, in order
          outcome       \* what the caller knows of the reassembly

Outcomes == {"running", "partial", "complete", "failed"}

Init == buffer = <<>> /\ outcome = "running"

(* The next packet of the message goes into the buffer.  The last one      *)
(* completes the message; after another one the routine may go on or hand  *)
(* the partly filled buffer back.                                          *)
Deliver ==
    /\ outcome = "running"
    /\ Len(buffer) < Len(Message)
    /\ buffer' = Append(buffer, Message[Len(buffer) + 1])
    /\ IF Len(buffer) + 1 = Len(Message)
         THEN outcome' = "complete"
         ELSE outcome' \in {"running", "partial"}

(* The routine gives up: an error is reported and nothing is delivered.    *)
Fail ==
    /\ outcome = "running"
    /\ outcome' = "failed"
    /\ UNCHANGED buffer

Next == Deliver \/ Fail

Spec == Init /\ [][Next]_<<buffer, outcome>>

=============================================================================

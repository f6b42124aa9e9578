----------------------------- MODULE CppProcess -----------------------------
(***************************************************************************)
(* What the C++ services of one DPE (data processing environment) share:   *)
(* the process, which each of them can end, its descriptors, and the UDP   *)
(* ports of the machine (external).  The sockets kept here are those that  *)
(* no service ever closes.                                                 *)
(***************************************************************************)
EXTENDS Integers, Sequences

CONSTANTS
    Threads,        \* the framework's threads
    MaxSockets,     \* the limit on descriptors
    LocalAddresses  \* the addresses of the machine

ASSUME CppProcessAssumption ==
    /\ MaxSockets \in Nat
    /\ "any" \in LocalAddresses

VARIABLES
    exited,         \* a service has called exit
    sockets         \* what each socket opened is bound to

(* A socket that bind has not, or not successfully, been called on.        *)
Unbound == [address |-> "none", port |-> -1]

(* What socket returns at the limit.                                       *)
NoSocket == 0

Overlap(s, t) ==
    /\ s.port = t.port
    /\ s.address = t.address \/ "any" \in {s.address, t.address}

(* bind fails when the address is not the machine's, or the port is taken. *)
Bindable(wanted) ==
    /\ wanted.address \in LocalAddresses
    /\ \A i \in DOMAIN sockets : ~Overlap(wanted, sockets[i])

(* socket and bind in one go, by those who ignore what bind returns.       *)
OpenAndBind(wanted) ==
    sockets' = IF Len(sockets) = MaxSockets THEN sockets
               ELSE Append(sockets, IF Bindable(wanted) THEN wanted ELSE Unbound)

NewSocket == IF Len(sockets) = MaxSockets THEN NoSocket ELSE Len(sockets) + 1

Hears(s) == s # NoSocket /\ sockets[s] # Unbound
=============================================================================

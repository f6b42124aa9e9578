--------------------------- MODULE AssembleService ---------------------------
(***************************************************************************)
(* EjfatAssembleService and EjfatAssembleEngine: each call of execute gets *)
(* one message with getBuffer, which opens a socket of its own on the port *)
(* configured and leaves it open, and pushes the message to a ZeroMQ socket*)
(* if the engine's file says so.                                           *)
(***************************************************************************)
EXTENDS CppProcess

CONSTANTS
    AsmConfigs,     \* the configurations given, in this order: functions from
                    \* some of "interface" and "port" to values
    Zmq             \* whether assembler.yaml turns ZeroMQ on

ASSUME AssembleServiceAssumption ==
    /\ \A i \in DOMAIN AsmConfigs :
           /\ DOMAIN AsmConfigs[i] \subseteq {"interface", "port"}
           /\ "port" \in DOMAIN AsmConfigs[i] => AsmConfigs[i].port \in Int
    /\ Zmq \in BOOLEAN

VARIABLES
    asmFields,      \* the service's interface and port
    asmEngine,      \* how many engines have been stored
    asmConfigured,  \* how many of AsmConfigs have been, or are being, applied
    asmStep,        \* where configure is
    asmAt,          \* where each thread is in execute
    asmPort,        \* the port that getBuffer has been given, until it opens
    asmSocket       \* its socket, which stays open when it has returned

asmVars == <<asmFields, asmEngine, asmConfigured, asmStep, asmAt, asmPort, asmSocket>>

AsmInit ==
    /\ asmFields = [interface |-> "", port |-> 0]
    /\ asmEngine = 0 /\ asmConfigured = 0
    /\ asmStep = "none"
    /\ asmAt = [t \in Threads |-> "idle"]
    /\ asmPort = [t \in Threads |-> 0]
    /\ asmSocket = [t \in Threads |-> NoSocket]

-----------------------------------------------------------------------------
(* configure: get_string and get_int throw if there is nothing to get; what*)
(* was assigned before stays, and no engine is stored.                     *)

AsmConfigure ==
    /\ asmStep = "none" /\ asmConfigured < Len(AsmConfigs)
    /\ asmConfigured' = asmConfigured + 1
    /\ asmStep' = "interface"
    /\ UNCHANGED <<exited, sockets, asmFields, asmEngine, asmAt, asmPort, asmSocket>>

AsmGiven(field) == field \in DOMAIN AsmConfigs[asmConfigured]

AsmSet(field, next) ==
    /\ asmStep = field /\ AsmGiven(field)
    /\ asmFields' = [asmFields EXCEPT ![field] = AsmConfigs[asmConfigured][field]]
    /\ asmStep' = next
    /\ UNCHANGED <<exited, sockets, asmEngine, asmConfigured, asmAt, asmPort, asmSocket>>

AsmSetInterface == AsmSet("interface", "port")
AsmSetPort      == AsmSet("port", "engine")

AsmMissing ==
    /\ asmStep \in {"interface", "port"} /\ ~AsmGiven(asmStep)
    /\ asmStep' = "none"
    /\ UNCHANGED <<exited, sockets, asmFields, asmEngine, asmConfigured, asmAt, asmPort, asmSocket>>

AsmStoreEngine ==
    /\ asmStep = "engine"
    /\ asmEngine' = asmEngine + 1
    /\ asmStep' = "none"
    /\ UNCHANGED <<exited, sockets, asmFields, asmConfigured, asmAt, asmPort, asmSocket>>

(* The engine cannot connect its ZeroMQ socket.                            *)
ZmqConnectFails ==
    /\ asmStep = "engine" /\ Zmq
    /\ exited' = TRUE
    /\ UNCHANGED <<sockets, asmVars>>

-----------------------------------------------------------------------------
(* execute                                                                 *)

AsmGo(t, from, to) == asmAt[t] = from /\ asmAt' = [asmAt EXCEPT ![t] = to]

(* The port is narrowed to 16 bits on its way to getBuffer, which takes no *)
(* port of the system's.                                                   *)
PortUsed(port) == IF port % 65536 < 1024 THEN 7777 ELSE port % 65536

AsmExecute(t) ==
    /\ asmEngine > 0
    /\ AsmGo(t, "idle", "open")
    /\ asmPort' = [asmPort EXCEPT ![t] = PortUsed(asmFields.port)]
    /\ UNCHANGED <<exited, sockets, asmFields, asmEngine, asmConfigured, asmStep, asmSocket>>

OpenUdpSocket(t) ==
    /\ AsmGo(t, "open", "receiving")
    /\ OpenAndBind([address |-> IF asmFields.interface = "" THEN "any" ELSE asmFields.interface,
                    port |-> asmPort[t]])
    /\ asmSocket' = [asmSocket EXCEPT ![t] = NewSocket]
    /\ asmPort' = [asmPort EXCEPT ![t] = 0]
    /\ UNCHANGED <<exited, asmFields, asmEngine, asmConfigured, asmStep>>

(* getBuffer returns 0 with a message, or with no buffer at all when       *)
(* getPacketizedBuffer fails (see GetBuffer).                              *)
Received(t) ==
    /\ Hears(asmSocket[t]) \/ asmSocket[t] = NoSocket
    /\ AsmGo(t, "receiving", IF Zmq THEN "push" ELSE "idle")
    /\ asmSocket' = [asmSocket EXCEPT ![t] = NoSocket]
    /\ UNCHANGED <<exited, sockets, asmFields, asmEngine, asmConfigured, asmStep, asmPort>>

Pushed(t) ==
    /\ AsmGo(t, "push", "idle")
    /\ UNCHANGED <<exited, sockets, asmFields, asmEngine, asmConfigured, asmStep, asmPort, asmSocket>>

(* There is no memory for the message: for its first buffer, before        *)
(* anything is received, or for a larger one.  Or it cannot be pushed.     *)
AsmFails(t) ==
    /\ asmAt[t] \in {"receiving", "push"}
    /\ exited' = TRUE
    /\ UNCHANGED <<sockets, asmVars>>

AsmThread(t) == AsmExecute(t) \/ OpenUdpSocket(t) \/ Received(t) \/ Pushed(t) \/ AsmFails(t)

AsmNext ==
    /\ ~exited
    /\ \/ AsmConfigure \/ AsmSetInterface \/ AsmSetPort \/ AsmMissing
       \/ AsmStoreEngine \/ ZmqConnectFails
       \/ \E t \in Threads : AsmThread(t)

-----------------------------------------------------------------------------
(* What is said of getBuffer: it returns when the message has come.  With  *)
(* messages arriving at every port that a socket is bound to, each call of *)
(* execute ends.                                                           *)
CallsReturn == \A t \in Threads : asmAt[t] = "receiving" ~> (asmAt[t] # "receiving" \/ exited)
=============================================================================

-------------------------- MODULE AssembleEtService --------------------------
(***************************************************************************)
(* EjfatAssembleEtService and EjfatAssembleEtEngine.  configure opens a    *)
(* socket, the ET system and a FIFO of it for the service, and then a new  *)
(* engine, whose constructor opens a socket and a FIFO of its own which no *)
(* one uses; execute runs getBuffers (EtAssembler) on the service's, and   *)
(* does not return.                                                        *)
(***************************************************************************)
EXTENDS CppProcess

CONSTANTS
    EtConfigs,      \* the configurations given, in this order: functions from
                    \* some of "port", "etName" and "ids", their number,
                    \* which is at most maxSourceIds, to values
    EnginePort      \* the port in assembler_et.yaml, or its default

ASSUME AssembleEtServiceAssumption ==
    /\ \A i \in DOMAIN EtConfigs :
           /\ DOMAIN EtConfigs[i] \subseteq {"port", "etName", "ids"}
           /\ "ids" \in DOMAIN EtConfigs[i] => EtConfigs[i].ids \in 0..1024
           /\ "port" \in DOMAIN EtConfigs[i] => /\ EtConfigs[i].port \in Int
                                                /\ EtConfigs[i].port % 65536 # 0
    /\ EnginePort \in 1..65535

VARIABLES
    etPort, etSock, etFid,  \* the service's fields; etFid: whose configure
                            \* has opened the FIFO
    etConfigured,           \* how many of EtConfigs have been, or are being, applied
    etEngine,               \* whether an engine has been stored
    etStep,                 \* where configure is
    etReading               \* the socket and the FIFO each thread's getBuffers has

etFields == <<etPort, etSock, etFid>>
etVars   == <<etFields, etConfigured, etEngine, etStep, etReading>>

EtInit ==
    /\ etPort = 0 /\ etSock = NoSocket /\ etFid = 0
    /\ etConfigured = 0
    /\ etEngine = FALSE
    /\ etStep = "none"
    /\ etReading = [t \in Threads |-> <<>>]

Config == EtConfigs[etConfigured]

-----------------------------------------------------------------------------
(* configure                                                               *)

EtConfigure ==
    /\ etStep = "none" /\ etConfigured < Len(EtConfigs)
    /\ etConfigured' = etConfigured + 1
    /\ etPort' = 7777
    /\ etStep' = "given"
    /\ UNCHANGED <<exited, sockets, etSock, etFid, etEngine, etReading>>

(* get_string throws if there is no etName, or no ids.                     *)
Missing ==
    /\ etStep = "given"
    /\ ~({"etName", "ids"} \subseteq DOMAIN Config)
    /\ \/ "etName" \notin DOMAIN Config /\ etPort' = etPort
       \/ /\ "etName" \in DOMAIN Config
          /\ etPort' = IF "port" \in DOMAIN Config THEN Config.port ELSE etPort
    /\ etStep' = "none"
    /\ UNCHANGED <<exited, sockets, etSock, etFid, etConfigured, etEngine, etReading>>

Exits ==
    /\ exited' = TRUE
    /\ UNCHANGED <<sockets, etVars>>

NoIds ==
    /\ etStep = "given"
    /\ {"etName", "ids"} \subseteq DOMAIN Config /\ Config.ids = 0
    /\ Exits

(* At the limit sock is -1, and what follows fails.                        *)
OpenSock ==
    /\ etStep = "given"
    /\ {"etName", "ids"} \subseteq DOMAIN Config /\ Config.ids > 0
    /\ etPort' = IF "port" \in DOMAIN Config THEN Config.port ELSE etPort
    /\ etSock' = NewSocket
    /\ sockets' = IF NewSocket = NoSocket THEN sockets ELSE Append(sockets, Unbound)
    /\ etStep' = "bind"
    /\ UNCHANGED <<exited, etFid, etConfigured, etEngine, etReading>>

(* htons narrows the int to 16 bits; 0, for any port, is left out.         *)
Wanted == [address |-> "any", port |-> etPort % 65536]

BindSock ==
    /\ etStep = "bind"
    /\ etSock # NoSocket /\ Bindable(Wanted)
    /\ sockets' = [sockets EXCEPT ![etSock] = Wanted]
    /\ etStep' = "fifo"
    /\ UNCHANGED <<exited, etFields, etConfigured, etEngine, etReading>>

(* Variant, not the code: as in the engine's constructor.                  *)
BindIgnored ==
    /\ etStep = "bind"
    /\ ~(etSock # NoSocket /\ Bindable(Wanted))
    /\ etStep' = "fifo"
    /\ UNCHANGED <<exited, sockets, etFields, etConfigured, etEngine, etReading>>

BindFails ==
    /\ etStep = "bind"
    /\ ~(etSock # NoSocket /\ Bindable(Wanted))
    /\ Exits

OpenFifo ==
    /\ etStep = "fifo"
    /\ etFid' = etConfigured
    /\ etStep' = "engine"
    /\ UNCHANGED <<exited, sockets, etPort, etSock, etConfigured, etEngine, etReading>>

(* The constructor's socket is bound, or not, and left open; the engine is *)
(* stored.                                                                 *)
StoreEtEngine ==
    /\ etStep = "engine"
    /\ OpenAndBind([address |-> "any", port |-> EnginePort])
    /\ etEngine' = TRUE
    /\ etStep' = "none"
    /\ UNCHANGED <<exited, etFields, etConfigured, etReading>>

(* The ET system, or the FIFO, cannot be opened: by either of the two.     *)
EtFails ==
    /\ etStep \in {"fifo", "engine"}
    /\ Exits

EtConfiguring ==
    \/ EtConfigure \/ Missing \/ NoIds \/ OpenSock \/ BindSock \/ BindFails
    \/ OpenFifo \/ StoreEtEngine \/ EtFails

-----------------------------------------------------------------------------
(* execute                                                                 *)

EtExecute(t) ==
    /\ etEngine /\ etReading[t] = <<>>
    /\ etReading' = [etReading EXCEPT ![t] =
           [sock |-> etSock, fid |-> etFid, overlapped |-> etStep # "none"]]
    /\ UNCHANGED <<exited, sockets, etFields, etConfigured, etEngine, etStep>>

(* getBuffers returns only when it has failed.                             *)
GetBuffersFails(t) ==
    /\ etReading[t] # <<>>
    /\ etReading[t].sock = NoSocket \/ Hears(etReading[t].sock)
    /\ Exits

EtNext ==
    /\ ~exited
    /\ EtConfiguring \/ \E t \in Threads : EtExecute(t) \/ GetBuffersFails(t)

-----------------------------------------------------------------------------
(* The port that a configuration stands for.                               *)
PortOf(config) == IF "port" \in DOMAIN config THEN config.port % 65536 ELSE 7777

(* While the process lives, a call that began while no configure was under *)
(* way reads from a socket that is bound to the port of the configuration  *)
(* whose FIFO it fills: also after a configure that threw half-way, a later*)
(* one that replaced socket and FIFO, and with the ports that the other    *)
(* services and the engines hold.                                          *)
EtReadsItsPort ==
    \A t \in Threads : (~exited /\ etReading[t] # <<>> /\ ~etReading[t].overlapped) =>
        LET call == etReading[t]
        IN  /\ call.sock # NoSocket
            /\ sockets[call.sock] = [address |-> "any", port |-> PortOf(EtConfigs[call.fid])]
=============================================================================

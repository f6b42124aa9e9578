------------------------------ MODULE Services ------------------------------
(***************************************************************************)
(* The services, in the processes that run them: those in C++ in one, with *)
(* any of the three in it; those in Java in another, where the chain from  *)
(* reader to writer and the reader's timer share nothing but the call of   *)
(* readEvent.  What runs apart is looked at apart.                         *)
(***************************************************************************)
EXTENDS PacketizeService, AssembleService, AssembleEtService, HipoToFile, HipoReader

CONSTANT Deployments    \* the sets of services to look at

Services == {"packetize", "assemble", "assembleEt", "hipoToFile", "hipoReader"}

ASSUME ServicesAssumption == Deployments \subseteq SUBSET Services

VARIABLE deployed

serviceVars == <<deployed, exited, sockets, pktVars, asmVars, etVars, hipoVars, readerVars>>

ServicesInit ==
    /\ deployed \in Deployments
    /\ exited = FALSE /\ sockets = <<>>
    /\ PktInit /\ AsmInit /\ EtInit /\ HipoInit /\ ReaderInit

Packetize  == /\ "packetize" \in deployed
              /\ PktNext
              /\ UNCHANGED <<deployed, asmVars, etVars, hipoVars, readerVars>>

Assemble   == /\ "assemble" \in deployed
              /\ AsmNext
              /\ UNCHANGED <<deployed, pktVars, etVars, hipoVars, readerVars>>

AssembleEt == /\ "assembleEt" \in deployed
              /\ EtNext
              /\ UNCHANGED <<deployed, pktVars, asmVars, hipoVars, readerVars>>

Chain      == /\ "hipoToFile" \in deployed
              /\ HipoNext
              /\ UNCHANGED <<deployed, exited, sockets, pktVars, asmVars, etVars, readerVars>>

Reader     == /\ "hipoReader" \in deployed
              /\ ReaderNext
              /\ UNCHANGED <<deployed, exited, sockets, pktVars, asmVars, etVars, hipoVars>>

ServicesNext == Packetize \/ Assemble \/ AssembleEt \/ Chain \/ Reader

(* A call under way goes on, with messages arriving at every port that a   *)
(* socket is bound to; timers go off, and readEvent returns.               *)
ServicesSpec ==
    /\ ServicesInit /\ [][ServicesNext]_serviceVars
    /\ \A t \in Threads :
           /\ WF_serviceVars(Assemble /\ OpenUdpSocket(t))
           /\ WF_serviceVars(Assemble /\ (Received(t) \/ Pushed(t)))
    /\ WF_serviceVars(Reader /\ CountEvent)
    /\ \A k \in 1..MaxReaders :
           WF_serviceVars(Reader /\ k \in DOMAIN timers
                              /\ (NoEvents(k) \/ SomeEvents(k) \/ Add(k) \/ Reset(k)))
=============================================================================

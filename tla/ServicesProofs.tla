--------------------------- MODULE ServicesProofs ---------------------------
(***************************************************************************)
(* Of any set of services in one process, with any number of threads, any  *)
(* configurations and any limit on descriptors: the ET routine reads the   *)
(* port it is configured for.  And of the chain from reader to file, what  *)
(* HipoToFileProofs shows of its steps.                                    *)
(***************************************************************************)
EXTENDS Services, HipoToFileProofs

Bound(config) == [address |-> "any", port |-> PortOf(config)]

EtTypes ==
    /\ \E S : sockets \in Seq(S)
    /\ etSock \in 0..Len(sockets)
    /\ etStep \in {"none", "given", "bind", "fifo", "engine"}
    /\ DOMAIN etReading = Threads

(* The socket and the FIFO of the service are of one configuration, but    *)
(* while a configure replaces them.                                        *)
InStep ==
    /\ (etEngine /\ etStep \in {"none", "given"}) =>
           (etSock # NoSocket /\ sockets[etSock] = Bound(EtConfigs[etFid]))
    /\ etStep = "given" => etPort = 7777
    /\ etStep \in {"bind", "fifo"} => etPort % 65536 = PortOf(Config)
    /\ (etStep = "bind" /\ etSock # NoSocket) => sockets[etSock] = Unbound
    /\ etStep \in {"fifo", "engine"} =>
           (etSock # NoSocket /\ sockets[etSock] = Bound(Config))
    /\ etStep = "engine" => etFid = etConfigured

(* A call keeps what it was given, whatever becomes of the fields.         *)
CallsKeep ==
    \A t \in Threads : (etReading[t] # <<>> /\ ~etReading[t].overlapped) =>
        /\ etReading[t].sock \in 1..Len(sockets)
        /\ sockets[etReading[t].sock] = Bound(EtConfigs[etReading[t].fid])

EtInv == EtTypes /\ InStep /\ CallsKeep

-----------------------------------------------------------------------------
(* Another socket changes none of those there are.                         *)
LEMMA AnotherSocket ==
    ASSUME EtTypes, NEW e
    PROVE  /\ \E S : Append(sockets, e) \in Seq(S)
           /\ Len(sockets) \in Nat
           /\ Len(Append(sockets, e)) = Len(sockets) + 1
           /\ Append(sockets, e)[Len(sockets) + 1] = e
           /\ \A k \in 1..Len(sockets) : Append(sockets, e)[k] = sockets[k]
<1>1. PICK S : sockets \in Seq(S)
  BY DEF EtTypes
<1>2. sockets \in Seq(S \union {e})
  BY <1>1
<1>3. Append(sockets, e) \in Seq(S \union {e})
  BY <1>2
<1> QED
  BY <1>2, <1>3

(* A service that opens another socket does the ET service no harm.        *)
LEMMA SocketsGrow ==
    ASSUME EtInv, UNCHANGED etVars,
           sockets' = sockets \/ \E e : sockets' = Append(sockets, e)
    PROVE  EtInv'
<1>t. EtTypes /\ InStep /\ CallsKeep
  BY DEF EtInv
<1>u. UNCHANGED <<etPort, etSock, etFid, etConfigured, etEngine, etStep, etReading>>
  BY DEF etVars, etFields
<1>n. Len(sockets) \in Nat
  BY <1>t, AnotherSocket
<1>1. CASE sockets' = sockets
  BY <1>t, <1>u, <1>1 DEF EtInv, EtTypes, InStep, CallsKeep, Config
<1>2. CASE \E e : sockets' = Append(sockets, e)
  <2>1. PICK e : sockets' = Append(sockets, e)
    BY <1>2
  <2>2. /\ \E S : sockets' \in Seq(S)
        /\ Len(sockets') = Len(sockets) + 1
        /\ \A k \in 1..Len(sockets) : sockets'[k] = sockets[k]
    BY <1>t, <2>1, AnotherSocket
  <2>3. EtTypes'
    BY <1>t, <1>u, <1>n, <2>2 DEF EtTypes
  <2>4. etSock # NoSocket => sockets'[etSock] = sockets[etSock]
    BY <1>t, <1>n, <2>2 DEF EtTypes, NoSocket
  <2>5. InStep'
    BY <1>t, <1>u, <2>4 DEF InStep, Config
  <2>6. CallsKeep'
    BY <1>t, <1>u, <1>n, <2>2 DEF CallsKeep
  <2> QED
    BY <2>3, <2>5, <2>6 DEF EtInv
<1> QED
  BY <1>1, <1>2

(* configure and execute of the ET service.                                *)
LEMMA EtStepInv ==
    ASSUME EtInv, EtNext
    PROVE  EtInv'
<1>t. EtTypes /\ InStep /\ CallsKeep
  BY DEF EtInv
<1>n. Len(sockets) \in Nat
  BY <1>t, AnotherSocket
<1>1. CASE EtConfigure
  BY <1>t, <1>1 DEF EtConfigure, EtInv, EtTypes, InStep, CallsKeep
<1>2. CASE Missing
  BY <1>t, <1>2 DEF Missing, EtInv, EtTypes, InStep, CallsKeep
<1>3. CASE Exits
  <2>1. UNCHANGED etVars /\ sockets' = sockets
    BY <1>3 DEF Exits
  <2> QED
    BY <2>1, SocketsGrow
<1>4. CASE OpenSock
  <2>u. UNCHANGED <<etFid, etConfigured, etEngine, etReading>> /\ etStep' = "bind"
    BY <1>4 DEF OpenSock
  <2>1. etPort' % 65536 = PortOf(Config)'
    <3>1. etPort = 7777
      BY <1>t, <1>4 DEF OpenSock, InStep
    <3>2. 7777 % 65536 = 7777
      OBVIOUS
    <3>3. Config' = Config
      BY <2>u DEF Config
    <3> QED
      BY <1>4, <3>1, <3>2, <3>3 DEF OpenSock, PortOf
  <2>2. CASE NewSocket = NoSocket
    <3>1. etSock' = 0 /\ sockets' = sockets
      BY <1>4, <2>2 DEF OpenSock, NoSocket
    <3> QED
      BY <1>t, <1>n, <2>u, <2>1, <3>1 DEF EtInv, EtTypes, InStep, CallsKeep, NoSocket
  <2>3. CASE NewSocket # NoSocket
    <3>1. etSock' = Len(sockets) + 1 /\ sockets' = Append(sockets, Unbound)
      BY <1>4, <2>3 DEF OpenSock, NewSocket
    <3>2. /\ \E S : sockets' \in Seq(S)
          /\ Len(sockets') = Len(sockets) + 1
          /\ sockets'[Len(sockets) + 1] = Unbound
          /\ \A k \in 1..Len(sockets) : sockets'[k] = sockets[k]
      BY <1>t, <3>1, AnotherSocket
    <3>3. EtTypes'
      BY <1>t, <1>n, <2>u, <3>1, <3>2 DEF EtTypes
    <3>4. InStep'
      BY <2>u, <2>1, <3>1, <3>2 DEF InStep
    <3>5. CallsKeep'
      BY <1>t, <1>n, <2>u, <3>2 DEF CallsKeep
    <3> QED
      BY <3>3, <3>4, <3>5 DEF EtInv
  <2> QED
    BY <2>2, <2>3
<1>5. CASE BindSock
  <2>u. /\ UNCHANGED <<etPort, etSock, etFid, etConfigured, etEngine, etReading>>
        /\ etStep = "bind" /\ etStep' = "fifo" /\ etSock # NoSocket
        /\ sockets' = [sockets EXCEPT ![etSock] = Wanted]
    BY <1>5 DEF BindSock, etFields
  <2>1. /\ \E S : sockets' \in Seq(S)
        /\ Len(sockets') = Len(sockets)
        /\ sockets'[etSock] = Wanted
        /\ \A k \in 1..Len(sockets) : k # etSock => sockets'[k] = sockets[k]
    <3>1. PICK S : sockets \in Seq(S)
      BY <1>t DEF EtTypes
    <3>2. sockets \in Seq(S \union {Wanted}) /\ etSock \in 1..Len(sockets)
      BY <1>t, <2>u, <3>1 DEF EtTypes, NoSocket
    <3>3. sockets' \in Seq(S \union {Wanted}) /\ Len(sockets') = Len(sockets)
      BY <2>u, <3>2
    <3> QED
      BY <2>u, <3>2, <3>3
  <2>2. Wanted = Bound(Config)
    BY <1>t, <2>u DEF InStep, Wanted, Bound
  <2>3. EtTypes'
    BY <1>t, <2>u, <2>1 DEF EtTypes
  <2>4. InStep'
    <3>1. Config' = Config /\ Bound(Config)' = Bound(Config) /\ PortOf(Config)' = PortOf(Config)
      BY <2>u DEF Config, Bound, PortOf
    <3> QED
      BY <1>t, <2>u, <2>1, <2>2, <3>1 DEF InStep
  <2>5. CallsKeep'
    <3>1. \A c : Bound(c) # Unbound
      BY DEF Bound, Unbound
    <3>2. sockets[etSock] = Unbound
      BY <1>t, <2>u DEF InStep
    <3> QED
      BY <1>t, <2>u, <2>1, <3>1, <3>2 DEF CallsKeep
  <2> QED
    BY <2>3, <2>4, <2>5 DEF EtInv
<1>6. CASE OpenFifo
  BY <1>t, <1>6 DEF OpenFifo, EtInv, EtTypes, InStep, CallsKeep, Config
<1>7. CASE StoreEtEngine
  <2>u. /\ UNCHANGED <<etPort, etSock, etFid, etConfigured, etReading>>
        /\ etStep = "engine" /\ etStep' = "none"
    BY <1>7 DEF StoreEtEngine, etFields
  <2>1. sockets' = sockets \/ \E e : sockets' = Append(sockets, e)
    BY <1>7 DEF StoreEtEngine, OpenAndBind
  <2>2. /\ \E S : sockets' \in Seq(S)
        /\ Len(sockets') \in Nat /\ Len(sockets') >= Len(sockets)
        /\ \A k \in 1..Len(sockets) : sockets'[k] = sockets[k]
    <3>1. CASE sockets' = sockets
      <4>1. \E S : sockets' \in Seq(S)
        BY <1>t, <3>1 DEF EtTypes
      <4>2. Len(sockets') = Len(sockets) /\ Len(sockets) >= Len(sockets)
        BY <1>n, <3>1
      <4> QED
        BY <1>n, <3>1, <4>1, <4>2
    <3>2. CASE \E e : sockets' = Append(sockets, e)
      <4>1. PICK e : sockets' = Append(sockets, e)
        BY <3>2
      <4>2. /\ \E S : sockets' \in Seq(S)
            /\ Len(sockets') = Len(sockets) + 1
            /\ \A k \in 1..Len(sockets) : sockets'[k] = sockets[k]
        BY <1>t, <4>1, AnotherSocket
      <4> QED
        BY <1>n, <4>2
    <3> QED
      BY <2>1, <3>1, <3>2
  <2>3. EtTypes'
    BY <1>t, <1>n, <2>u, <2>2 DEF EtTypes
  <2>4. InStep'
    <3>1. etSock # NoSocket /\ sockets[etSock] = Bound(Config) /\ Config = EtConfigs[etFid]
      BY <1>t, <2>u DEF InStep, Config
    <3>2. sockets'[etSock] = sockets[etSock]
      BY <1>t, <1>n, <2>2, <3>1 DEF EtTypes, NoSocket
    <3> QED
      BY <2>u, <3>1, <3>2 DEF InStep
  <2>5. CallsKeep'
    BY <1>t, <1>n, <2>u, <2>2 DEF CallsKeep
  <2> QED
    BY <2>3, <2>4, <2>5 DEF EtInv
<1>8. ASSUME NEW t \in Threads, EtExecute(t)
      PROVE  EtInv'
  <2>u. /\ UNCHANGED <<sockets, etPort, etSock, etFid, etConfigured, etEngine, etStep>>
        /\ etEngine
        /\ etReading' = [etReading EXCEPT ![t] =
               [sock |-> etSock, fid |-> etFid, overlapped |-> etStep # "none"]]
    BY <1>8 DEF EtExecute, etFields
  <2>1. EtTypes' /\ InStep'
    BY <1>t, <2>u DEF EtTypes, InStep, Config
  <2>2. /\ etReading'[t] = [sock |-> etSock, fid |-> etFid, overlapped |-> etStep # "none"]
        /\ \A s \in Threads : s # t => etReading'[s] = etReading[s]
    BY <1>t, <2>u DEF EtTypes
  <2>3. etStep = "none" => /\ etSock \in 1..Len(sockets)
                           /\ sockets[etSock] = Bound(EtConfigs[etFid])
    BY <1>t, <1>n, <2>u DEF InStep, EtTypes, NoSocket
  <2>4. CallsKeep'
    <3> SUFFICES ASSUME NEW s \in Threads, etReading'[s] # <<>>, ~etReading'[s].overlapped
                 PROVE  /\ etReading'[s].sock \in 1..Len(sockets)
                        /\ sockets[etReading'[s].sock] = Bound(EtConfigs[etReading'[s].fid])
      BY <2>u DEF CallsKeep, Bound, PortOf
    <3>1. CASE s = t
      <4>1. /\ etReading'[s].sock = etSock /\ etReading'[s].fid = etFid
        BY <2>2, <3>1
      <4>2. etStep = "none"
        <5> SUFFICES ASSUME etStep # "none" PROVE FALSE
          OBVIOUS
        <5>1. (etStep # "none") = TRUE
          OBVIOUS
        <5>2. etReading'[s] = [sock |-> etSock, fid |-> etFid, overlapped |-> TRUE]
          BY <2>2, <3>1, <5>1, Zenon
        <5>3. etReading'[s].overlapped
          BY <5>2
        <5> QED
          BY <5>3
      <4> QED
        BY <2>3, <4>1, <4>2
    <3>2. CASE s # t
      BY <1>t, <2>2, <3>2 DEF CallsKeep
    <3> QED
      BY <3>1, <3>2
  <2> QED
    BY <2>1, <2>4 DEF EtInv
<1> QED
  BY <1>1, <1>2, <1>3, <1>4, <1>5, <1>6, <1>7, <1>8
     DEF EtNext, EtConfiguring, NoIds, BindFails, EtFails, GetBuffersFails

-----------------------------------------------------------------------------
(* The other services leave what the ET service has alone, but for the     *)
(* sockets they open.                                                      *)
LEMMA OthersStep ==
    ASSUME EtInv, Packetize \/ Assemble \/ Chain \/ Reader
    PROVE  EtInv'
<1>1. UNCHANGED etVars
  BY DEF Packetize, Assemble, Chain, Reader
<1>2. CASE Packetize
  <2>1. sockets' = sockets
    BY <1>2 DEF Packetize, PktNext, BeginConfigure, Assign, StoreEngine, PktThread, Execute,
                TakeArgument, HostGiven, HostEmpty, SeesHost, DefaultHost, SetsHost,
                UseInterface, UseHost, Sent, SendFails
  <2> QED
    BY <1>1, <2>1, SocketsGrow
<1>3. CASE Assemble
  <2>1. sockets' = sockets \/ \E e : sockets' = Append(sockets, e)
    BY <1>3 DEF Assemble, AsmNext, AsmConfigure, AsmSetInterface, AsmSetPort, AsmSet, AsmMissing,
                AsmStoreEngine, ZmqConnectFails,
                AsmThread, AsmExecute, OpenUdpSocket, OpenAndBind, Received, Pushed, AsmFails
  <2> QED
    BY <1>1, <2>1, SocketsGrow
<1>4. CASE Chain \/ Reader
  <2>1. sockets' = sockets
    BY <1>4 DEF Chain, Reader
  <2> QED
    BY <1>1, <2>1, SocketsGrow
<1> QED
  BY <1>2, <1>3, <1>4

(* The ET service's invariant holds whatever services run beside it.       *)
LEMMA EtInductive == ServicesSpec => []EtInv
<1>1. ServicesInit => EtInv
  <2> SUFFICES ASSUME ServicesInit PROVE EtInv
    OBVIOUS
  <2>1. /\ sockets = <<>> /\ etSock = 0 /\ etStep = "none" /\ ~etEngine
        /\ etReading = [t \in Threads |-> <<>>]
    BY DEF ServicesInit, EtInit, NoSocket
  <2>2. sockets \in Seq({})
    BY <2>1
  <2>3. EtTypes
    BY <2>1, <2>2 DEF EtTypes
  <2>4. InStep /\ CallsKeep
    BY <2>1 DEF InStep, CallsKeep
  <2> QED
    BY <2>3, <2>4 DEF EtInv
<1>2. EtInv /\ [ServicesNext]_serviceVars => EtInv'
  <2> SUFFICES ASSUME EtInv, [ServicesNext]_serviceVars PROVE EtInv'
    OBVIOUS
  <2>1. CASE AssembleEt
    BY <2>1, EtStepInv DEF AssembleEt
  <2>2. CASE Packetize \/ Assemble \/ Chain \/ Reader
    BY <2>2, OthersStep
  <2>3. CASE UNCHANGED serviceVars
    BY <2>3, SocketsGrow DEF serviceVars
  <2> QED
    BY <2>1, <2>2, <2>3 DEF ServicesNext
<1> QED
  BY <1>1, <1>2, PTL DEF ServicesSpec

(* A call of the ET service that no configure overlaps reads from a socket *)
(* bound to the port of the configuration whose FIFO it fills.             *)
THEOREM EtServiceReadsItsPort == ServicesSpec => []EtReadsItsPort
<1>1. EtInv => EtReadsItsPort
  BY DEF EtInv, CallsKeep, EtReadsItsPort, Bound, NoSocket
<1> QED
  BY <1>1, EtInductive, PTL

-----------------------------------------------------------------------------
(* The chain's invariant holds whatever services run beside it.            *)
LEMMA ChainInductive == ServicesSpec => []HipoInv
<1>1. ServicesInit => HipoInv
  BY HipoInitInv DEF ServicesInit
<1>2. HipoInv /\ [ServicesNext]_serviceVars => HipoInv'
  <2>1. [ServicesNext]_serviceVars => [HipoNext]_hipoVars
    BY DEF ServicesNext, Packetize, Assemble, AssembleEt, Chain, Reader, serviceVars
  <2> QED
    BY <2>1, HipoNextInv
<1> QED
  BY <1>1, <1>2, PTL DEF ServicesSpec

(* An event that the engine's threads left alone while it was written is   *)
(* in the file as it was read.                                             *)
THEOREM RecordsRight == ServicesSpec => []UndisturbedIsRight
<1>1. HipoInv => UndisturbedIsRight
  BY HipoToFileAssumption DEF HipoInv, InPlace, UndisturbedIsRight, Limit, HipoTypes
<1> QED
  BY <1>1, ChainInductive, PTL

(* Files are closed when they are full and not before.                     *)
THEOREM FilesClosedWhenFull == ServicesSpec => []FilesAreFilled
<1>1. HipoInv => FilesAreFilled
  BY DEF HipoInv
<1> QED
  BY <1>1, ChainInductive, PTL
-----------------------------------------------------------------------------
(* The packetize service: one configuration.                               *)

(* A host that was ever configured as empty is what the calls themselves   *)
(* replace.                                                                *)
EmptyHost == \E n \in 1..configured : "host" \in DOMAIN Configs[n] /\ Configs[n]["host"] = ""

(* An assignment to the field is still to come in the configure under way. *)
Pending(f) == \E n \in 1..Len(todo) : todo[n][1] = f

PktTypes ==
    /\ \E S : todo \in Seq(S)
    /\ engine \in Nat /\ configured \in Nat
    /\ engine <= configured /\ configured <= Len(Configs)
    /\ todo # <<>> => engine < configured
    /\ DOMAIN at = Threads /\ DOMAIN overlapped = Threads
    /\ args = [t \in Threads |-> args[t]]
    /\ \A t \in Threads : overlapped[t] \in BOOLEAN

(* What the assignments to come will leave in the fields: the last one of  *)
(* each field is that of the configuration in force.                       *)
LastInForce ==
    /\ \A n \in 1..Len(todo) :
           (\A m \in 1..Len(todo) : m > n => todo[m][1] # todo[n][1])
               => todo[n][2] = InForce(todo[n][1])
    /\ \A n \in 1..Len(todo) :
           (todo[n][1] = "host" /\ todo[n][2] = "") => EmptyHost

(* A field that no assignment is pending for has the value in force; the   *)
(* host has it, or what a call has put in the place of an empty one.       *)
Settled ==
    /\ \A f \in Fields \ {"host"} :
           (configured > 0 /\ ~Pending(f)) => f \in DOMAIN fields /\ fields[f] = {InForce(f)}
    /\ (configured > 0 /\ ~Pending("host")) =>
           /\ "host" \in DOMAIN fields
           /\ fields["host"] \subseteq {InForce("host")} \union
                                           (IF EmptyHost THEN {"127.0.0.1"} ELSE {})
    /\ engine > 0 => "host" \in DOMAIN fields
    /\ "host" \in DOMAIN fields => /\ fields["host"] # {}
                                   /\ "" \in fields["host"] => EmptyHost

(* A call that no configure overlaps: none is under way, and what it has   *)
(* read is in force.                                                       *)
CallInForce(t) ==
    /\ at[t] = "idle" => DOMAIN args[t] = {}
    /\ at[t] # "idle" => engine > 0
    /\ at[t] \in {"default", "assigning"} => EmptyHost
    /\ (at[t] # "idle" /\ ~overlapped[t]) =>
           /\ todo = <<>> /\ engine = configured /\ configured > 0
           /\ \A f \in DOMAIN args[t] \ ByReference : args[t][f] = InForce(f)
           /\ at[t] # "arguments" => Fields \ ByReference \subseteq DOMAIN args[t]
           /\ at[t] \in {"interface", "address"} => fields["host"] # {""}
           /\ (at[t] \in {"address", "sending"} /\ InForce("mtu") = 0) =>
                  /\ "interface" \in DOMAIN args[t]
                  /\ args[t]["interface"] = IF InForce("interface") = "" THEN "eth0"
                                            ELSE InForce("interface")
           /\ at[t] = "sending" => args[t]["host"] \in HostsInForce

CallsInForce == \A t \in Threads : CallInForce(t)

PktInv == PktTypes /\ LastInForce /\ Settled /\ CallsInForce

(* The list of a source's values for some of the fields.                   *)
Pairs(source) == {<<f, source[f]>> : f \in FieldNames}

Occurs(list, e) == \E n \in 1..Len(list) : list[n] = e

Lists(list, source, some) ==
    /\ list \in Seq(Pairs(source))
    /\ \A e : Occurs(list, e) <=> \E f \in some \intersect Fields \intersect DOMAIN source :
                                        e = <<f, source[f]>>

(* What occurs in two lists, one after the other.                          *)
LEMMA ConcatOccurs ==
    ASSUME NEW S, NEW s \in Seq(S), NEW u \in Seq(S), NEW e
    PROVE  s \o u \in Seq(S) /\ (Occurs(s \o u, e) <=> Occurs(s, e) \/ Occurs(u, e))
<1>1. /\ s \o u \in Seq(S) /\ Len(s \o u) = Len(s) + Len(u) /\ Len(s) \in Nat /\ Len(u) \in Nat
      /\ \A n \in 1..Len(s) : (s \o u)[n] = s[n]
      /\ \A n \in 1..Len(u) : (s \o u)[Len(s) + n] = u[n]
  OBVIOUS
<1>2. Occurs(s, e) => Occurs(s \o u, e)
  BY <1>1 DEF Occurs
<1>3. Occurs(u, e) => Occurs(s \o u, e)
  <2>1. \A n \in 1..Len(u) : Len(s) + n \in 1..Len(s \o u)
    BY <1>1
  <2> QED
    BY <1>1, <2>1 DEF Occurs
<1>4. ASSUME NEW n \in 1..Len(s \o u), (s \o u)[n] = e PROVE Occurs(s, e) \/ Occurs(u, e)
  <2>1. CASE n <= Len(s)
    BY <1>1, <1>4, <2>1 DEF Occurs
  <2>2. CASE n > Len(s)
    <3>1. n - Len(s) \in 1..Len(u) /\ n = Len(s) + (n - Len(s))
      BY <1>1, <2>2
    <3> QED
      BY <1>1, <1>4, <3>1 DEF Occurs
  <2> QED
    BY <1>1, <2>1, <2>2
<1> QED
  BY <1>1, <1>2, <1>3, <1>4 DEF Occurs

(* One field more.                                                         *)
LEMMA FromLists ==
    ASSUME NEW source, NEW f \in FieldNames
    PROVE  Lists(From(source, f), source, {f})
<1>1. CASE f \in Fields \intersect DOMAIN source
  <2>1. From(source, f) = << <<f, source[f]>> >>
    BY <1>1 DEF From
  <2>2. From(source, f) \in Seq(Pairs(source)) /\ Len(From(source, f)) = 1
        /\ From(source, f)[1] = <<f, source[f]>>
    BY <2>1 DEF Pairs
  <2>3. \A e : Occurs(From(source, f), e) <=> e = <<f, source[f]>>
    BY <2>2 DEF Occurs
  <2> QED
    BY <1>1, <2>2, <2>3 DEF Lists
<1>2. CASE f \notin Fields \intersect DOMAIN source
  <2>1. From(source, f) = <<>>
    BY <1>2 DEF From
  <2> QED
    BY <1>2, <2>1 DEF Lists, Occurs
<1> QED
  BY <1>1, <1>2

LEMMA OneFieldMore ==
    ASSUME NEW source, NEW list, NEW some, NEW f \in FieldNames, Lists(list, source, some)
    PROVE  Lists(list \o From(source, f), source, some \union {f})
<1>1. Lists(From(source, f), source, {f})
  BY FromLists
<1>2. list \in Seq(Pairs(source)) /\ From(source, f) \in Seq(Pairs(source))
  BY <1>1 DEF Lists
<1>3. list \o From(source, f) \in Seq(Pairs(source))
  BY <1>2
<1>4. ASSUME NEW e
      PROVE  Occurs(list \o From(source, f), e)
                <=> \E g \in (some \union {f}) \intersect Fields \intersect DOMAIN source :
                        e = <<g, source[g]>>
  <2>1. Occurs(list \o From(source, f), e) <=> Occurs(list, e) \/ Occurs(From(source, f), e)
    BY <1>2, ConcatOccurs
  <2> QED
    BY <1>1, <2>1 DEF Lists
<1> QED
  BY <1>3, <1>4 DEF Lists

(* The defaults are those of all fields, the values given those of all that*)
(* the configuration has.                                                  *)
LEMMA AllNineListed ==
    ASSUME NEW config
    PROVE  /\ Lists(GivenAssignments(config), config, FieldNames)
           /\ Lists(DefaultAssignments, Defaults, FieldNames)
<1>1. /\ "host" \in FieldNames /\ "interface" \in FieldNames /\ "mtu" \in FieldNames
      /\ "port" \in FieldNames /\ "ver" \in FieldNames /\ "dataId" \in FieldNames
      /\ "protocol" \in FieldNames /\ "delay" \in FieldNames /\ "debug" \in FieldNames
  BY DEF FieldNames
<1>2. Lists(GivenAssignments(config), config, FieldNames)
  <2> DEFINE l1 == From(config, "host")
             l2 == l1 \o From(config, "interface")
             l3 == l2 \o From(config, "debug")
             l4 == l3 \o From(config, "mtu")
             l5 == l4 \o From(config, "port")
             l6 == l5 \o From(config, "ver")
             l7 == l6 \o From(config, "delay")
             l8 == l7 \o From(config, "dataId")
             l9 == l8 \o From(config, "protocol")
  <2>0. GivenAssignments(config) = l9
    BY DEF GivenAssignments
  <2> HIDE DEF l1, l2, l3, l4, l5, l6, l7, l8, l9
  <2>1. Lists(l1, config, {"host"})
    BY <1>1, FromLists DEF l1
  <2>2. Lists(l2, config, {"host"} \union {"interface"})
    BY <1>1, <2>1, OneFieldMore DEF l2
  <2>3. Lists(l3, config, {"host"} \union {"interface"} \union {"debug"})
    BY <1>1, <2>2, OneFieldMore DEF l3
  <2>4. Lists(l4, config, {"host"} \union {"interface"} \union {"debug"} \union {"mtu"})
    BY <1>1, <2>3, OneFieldMore DEF l4
  <2>5. Lists(l5, config, {"host"} \union {"interface"} \union {"debug"} \union {"mtu"}
                              \union {"port"})
    BY <1>1, <2>4, OneFieldMore DEF l5
  <2>6. Lists(l6, config, {"host"} \union {"interface"} \union {"debug"} \union {"mtu"}
                              \union {"port"} \union {"ver"})
    BY <1>1, <2>5, OneFieldMore DEF l6
  <2>7. Lists(l7, config, {"host"} \union {"interface"} \union {"debug"} \union {"mtu"}
                              \union {"port"} \union {"ver"} \union {"delay"})
    BY <1>1, <2>6, OneFieldMore DEF l7
  <2>8. Lists(l8, config, {"host"} \union {"interface"} \union {"debug"} \union {"mtu"}
                              \union {"port"} \union {"ver"} \union {"delay"}
                              \union {"dataId"})
    BY <1>1, <2>7, OneFieldMore DEF l8
  <2>9. Lists(l9, config, {"host"} \union {"interface"} \union {"debug"} \union {"mtu"}
                              \union {"port"} \union {"ver"} \union {"delay"}
                              \union {"dataId"} \union {"protocol"})
    BY <1>1, <2>8, OneFieldMore DEF l9
  <2>10. FieldNames = {"host"} \union {"interface"} \union {"debug"} \union {"mtu"}
                              \union {"port"} \union {"ver"} \union {"delay"}
                              \union {"dataId"} \union {"protocol"}
    BY DEF FieldNames
  <2> QED
    BY <2>0, <2>9, <2>10
<1>3. Lists(DefaultAssignments, Defaults, FieldNames)
  <2> DEFINE l1 == From(Defaults, "host")
             l2 == l1 \o From(Defaults, "interface")
             l3 == l2 \o From(Defaults, "mtu")
             l4 == l3 \o From(Defaults, "port")
             l5 == l4 \o From(Defaults, "ver")
             l6 == l5 \o From(Defaults, "dataId")
             l7 == l6 \o From(Defaults, "protocol")
             l8 == l7 \o From(Defaults, "delay")
             l9 == l8 \o From(Defaults, "debug")
  <2>0. DefaultAssignments = l9
    BY DEF DefaultAssignments
  <2> HIDE DEF l1, l2, l3, l4, l5, l6, l7, l8, l9
  <2>1. Lists(l1, Defaults, {"host"})
    BY <1>1, FromLists DEF l1
  <2>2. Lists(l2, Defaults, {"host"} \union {"interface"})
    BY <1>1, <2>1, OneFieldMore DEF l2
  <2>3. Lists(l3, Defaults, {"host"} \union {"interface"} \union {"mtu"})
    BY <1>1, <2>2, OneFieldMore DEF l3
  <2>4. Lists(l4, Defaults, {"host"} \union {"interface"} \union {"mtu"} \union {"port"})
    BY <1>1, <2>3, OneFieldMore DEF l4
  <2>5. Lists(l5, Defaults, {"host"} \union {"interface"} \union {"mtu"} \union {"port"}
                                \union {"ver"})
    BY <1>1, <2>4, OneFieldMore DEF l5
  <2>6. Lists(l6, Defaults, {"host"} \union {"interface"} \union {"mtu"} \union {"port"}
                                \union {"ver"} \union {"dataId"})
    BY <1>1, <2>5, OneFieldMore DEF l6
  <2>7. Lists(l7, Defaults, {"host"} \union {"interface"} \union {"mtu"} \union {"port"}
                                \union {"ver"} \union {"dataId"} \union {"protocol"})
    BY <1>1, <2>6, OneFieldMore DEF l7
  <2>8. Lists(l8, Defaults, {"host"} \union {"interface"} \union {"mtu"} \union {"port"}
                                \union {"ver"} \union {"dataId"} \union {"protocol"}
                                \union {"delay"})
    BY <1>1, <2>7, OneFieldMore DEF l8
  <2>9. Lists(l9, Defaults, {"host"} \union {"interface"} \union {"mtu"} \union {"port"}
                                \union {"ver"} \union {"dataId"} \union {"protocol"}
                                \union {"delay"} \union {"debug"})
    BY <1>1, <2>8, OneFieldMore DEF l9
  <2>10. FieldNames = {"host"} \union {"interface"} \union {"mtu"} \union {"port"}
                                \union {"ver"} \union {"dataId"} \union {"protocol"}
                                \union {"delay"} \union {"debug"}
    BY DEF FieldNames
  <2> QED
    BY <2>0, <2>9, <2>10
<1> QED
  BY <1>2, <1>3

(* What a configure assigns: every field, and last the value that is then  *)
(* in force.                                                               *)
LEMMA AssignsAll ==
    ASSUME NEW config, DOMAIN config \subseteq Fields, NEW list, list = Assignments(config)
    PROVE  /\ \E S : list \in Seq(S)
           /\ \A f \in Fields : \E n \in 1..Len(list) : list[n][1] = f
           /\ \A n \in 1..Len(list) :
                 /\ list[n][1] \in Fields
                 /\ list[n][2] \in {Defaults[list[n][1]], config[list[n][1]]}
                 /\ list[n][2] # Defaults[list[n][1]] => list[n][1] \in DOMAIN config
                 /\ (\A m \in 1..Len(list) : m > n => list[m][1] # list[n][1]) =>
                        list[n][2] = IF list[n][1] \in DOMAIN config THEN config[list[n][1]]
                                     ELSE Defaults[list[n][1]]
<1> DEFINE D == DefaultAssignments
           G == GivenAssignments(config)
           S == Pairs(Defaults) \union Pairs(config)
<1>1. Lists(D, Defaults, FieldNames) /\ Lists(G, config, FieldNames)
  BY AllNineListed
<1>2. Fields \subseteq FieldNames /\ FieldNames = DOMAIN Defaults
  BY PacketizeServiceAssumption DEF FieldNames, Defaults
<1>3. D \in Seq(S) /\ G \in Seq(S)
  <2>1. D \in Seq(Pairs(Defaults)) /\ G \in Seq(Pairs(config))
    BY <1>1 DEF Lists
  <2> QED
    BY <2>1
<1>4. /\ \A e : Occurs(D, e) <=> \E f \in Fields : e = <<f, Defaults[f]>>
      /\ \A e : Occurs(G, e) <=> \E f \in DOMAIN config : e = <<f, config[f]>>
  <2>1. FieldNames \intersect Fields \intersect DOMAIN Defaults = Fields
        /\ FieldNames \intersect Fields \intersect DOMAIN config = DOMAIN config
    BY <1>2
  <2> QED
    BY <1>1, <2>1 DEF Lists
<1>5. list = D \o G
  BY DEF Assignments
<1> HIDE DEF D, G, S
<1>6. /\ list \in Seq(S) /\ Len(list) = Len(D) + Len(G) /\ Len(D) \in Nat /\ Len(G) \in Nat
      /\ \A n \in 1..Len(D) : list[n] = D[n]
      /\ \A n \in 1..Len(G) : list[Len(D) + n] = G[n]
  BY <1>3, <1>5
<1>7. ASSUME NEW f \in Fields PROVE \E n \in 1..Len(list) : list[n][1] = f
  <2>1. Occurs(D, <<f, Defaults[f]>>)
    BY <1>4
  <2>2. PICK n \in 1..Len(D) : D[n] = <<f, Defaults[f]>>
    BY <2>1 DEF Occurs
  <2> QED
    BY <1>6, <2>2
<1>8. ASSUME NEW n \in 1..Len(D)
      PROVE  \E f \in Fields : D[n] = <<f, Defaults[f]>>
  BY <1>4 DEF Occurs
<1>9. ASSUME NEW n \in 1..Len(G)
      PROVE  \E f \in DOMAIN config : G[n] = <<f, config[f]>>
  BY <1>4 DEF Occurs
<1>10. ASSUME NEW n \in 1..Len(list)
       PROVE  /\ list[n][1] \in Fields
              /\ list[n][2] \in {Defaults[list[n][1]], config[list[n][1]]}
              /\ list[n][2] # Defaults[list[n][1]] => list[n][1] \in DOMAIN config
              /\ (\A m \in 1..Len(list) : m > n => list[m][1] # list[n][1]) =>
                     list[n][2] = IF list[n][1] \in DOMAIN config THEN config[list[n][1]]
                                  ELSE Defaults[list[n][1]]
  <2>1. CASE n <= Len(D)
    <3>1. n \in 1..Len(D) /\ list[n] = D[n]
      BY <1>6, <2>1
    <3>2. PICK f \in Fields : D[n] = <<f, Defaults[f]>>
      BY <1>8, <3>1
    <3>3. list[n][1] = f /\ list[n][2] = Defaults[f]
      BY <3>1, <3>2
    <3>4. ASSUME f \in DOMAIN config PROVE \E m \in 1..Len(list) : m > n /\ list[m][1] = f
      <4>1. Occurs(G, <<f, config[f]>>)
        BY <1>4, <3>4
      <4>2. PICK m \in 1..Len(G) : G[m] = <<f, config[f]>>
        BY <4>1 DEF Occurs
      <4>3. Len(D) + m \in 1..Len(list) /\ Len(D) + m > n /\ list[Len(D) + m][1] = f
        BY <1>6, <2>1, <4>2
      <4> QED
        BY <4>3
    <3> QED
      BY <3>3, <3>4
  <2>2. CASE n > Len(D)
    <3>1. n - Len(D) \in 1..Len(G) /\ Len(D) + (n - Len(D)) = n
      BY <1>6, <2>2
    <3>2. PICK f \in DOMAIN config : G[n - Len(D)] = <<f, config[f]>>
      BY <1>9, <3>1
    <3>3. list[n][1] = f /\ list[n][2] = config[f]
      BY <1>6, <3>1, <3>2
    <3> QED
      BY <3>3
  <2> QED
    BY <1>6, <2>1, <2>2
<1> QED
  BY <1>6, <1>7, <1>10

-----------------------------------------------------------------------------
(* What is in force depends on the number of configurations given alone.   *)
LEMMA ForceStays ==
    ASSUME configured' = configured
    PROVE  /\ \A f : InForce(f)' = InForce(f)
           /\ EmptyHost' = EmptyHost /\ HostsInForce' = HostsInForce
BY DEF InForce, EmptyHost, HostsInForce

(* A step of one call that leaves the service's fields alone.              *)
LEMMA CallStep ==
    ASSUME PktInv, NEW t \in Threads, NEW place, NEW taken,
           UNCHANGED <<fields, engine, configured, todo, overlapped>>,
           at' = [at EXCEPT ![t] = place], args' = [args EXCEPT ![t] = taken],
           CallInForce(t)'
    PROVE  PktInv'
<1>t. PktTypes /\ LastInForce /\ Settled /\ CallsInForce
  BY DEF PktInv
<1>1. PktTypes'
  BY <1>t DEF PktTypes
<1>2. LastInForce' /\ Settled'
  BY <1>t, ForceStays DEF LastInForce, Settled, Pending
<1>3. ASSUME NEW s \in Threads, s # t PROVE CallInForce(s)'
  <2>1. at'[s] = at[s] /\ args'[s] = args[s]
    BY <1>t, <1>3 DEF PktTypes
  <2>2. CallInForce(s)
    BY <1>t DEF CallsInForce
  <2> QED
    BY <2>1, <2>2, ForceStays DEF CallInForce
<1> QED
  BY <1>1, <1>2, <1>3 DEF PktInv, CallsInForce

(* The contents of a field that has one value, and of the host.            *)
LEMMA ContentsAre ==
    ASSUME NEW f, fields[f] # {}
    PROVE  /\ Contents(f) \in fields[f] \union {Torn}
           /\ \A v : fields[f] = {v} => Contents(f) = v
           /\ Contents(f) = Torn => \/ Torn \in fields[f]
                                   \/ \A v : fields[f] # {v}
           /\ Contents(f) # Torn => fields[f] = {Contents(f)}
<1>1. CASE \E v \in fields[f] : fields[f] = {v}
  <2>1. PICK v \in fields[f] : fields[f] = {v}
    BY <1>1
  <2>2. (CHOOSE w \in fields[f] : TRUE) \in fields[f]
    BY <2>1
  <2>3. Contents(f) = v
    BY <1>1, <2>1, <2>2 DEF Contents
  <2> QED
    BY <2>1, <2>3
<1>2. CASE ~ \E v \in fields[f] : fields[f] = {v}
  <2>1. Contents(f) = Torn
    BY <1>2 DEF Contents
  <2> QED
    BY <1>2, <2>1
<1> QED
  BY <1>1, <1>2

(* One configure is asked for, when the one before it is done.             *)
LEMMA BeginConfigureInv ==
    ASSUME PktInv, BeginConfigure
    PROVE  PktInv'
<1>t. PktTypes /\ LastInForce /\ Settled /\ CallsInForce
  BY DEF PktInv
<1>u. /\ UNCHANGED <<fields, engine, at, args>>
      /\ engine = configured /\ configured' = configured + 1 /\ configured < Len(Configs)
      /\ todo' = Assignments(Configs[configured'])
      /\ overlapped' = [t \in Threads |-> overlapped[t] \/ at[t] # "idle"]
  BY DEF BeginConfigure
<1>n. /\ configured \in Nat /\ Len(Configs) \in Nat /\ configured' \in 1..Len(Configs)
      /\ DOMAIN Configs[configured'] \subseteq Fields /\ Fields \subseteq FieldNames
      /\ "host" \in Fields
  BY <1>t, <1>u, PacketizeServiceAssumption DEF PktTypes
<1> DEFINE c == Configs[configured']
<1>1. /\ \E S : todo' \in Seq(S)
      /\ \A f \in Fields : \E n \in 1..Len(todo') : todo'[n][1] = f
      /\ \A n \in 1..Len(todo') :
            /\ todo'[n][1] \in Fields
            /\ todo'[n][2] \in {Defaults[todo'[n][1]], c[todo'[n][1]]}
            /\ todo'[n][2] # Defaults[todo'[n][1]] => todo'[n][1] \in DOMAIN c
            /\ (\A m \in 1..Len(todo') : m > n => todo'[m][1] # todo'[n][1]) =>
                   todo'[n][2] = IF todo'[n][1] \in DOMAIN c THEN c[todo'[n][1]]
                                 ELSE Defaults[todo'[n][1]]
  <2>1. PICK cc : cc = c
    OBVIOUS
  <2>2. PICK list : list = todo'
    OBVIOUS
  <2>3. list = Assignments(cc) /\ DOMAIN cc \subseteq Fields
    BY <1>u, <1>n, <2>1, <2>2
  <2> HIDE DEF c
  <2> QED
    BY <2>1, <2>2, <2>3, AssignsAll
<1>2. \A f \in Fields : InForce(f)' = IF f \in DOMAIN c THEN c[f] ELSE Defaults[f]
  BY DEF InForce
<1>3. EmptyHost => EmptyHost'
  <2>1. 1..configured \subseteq 1..configured'
    BY <1>u, <1>n
  <2> QED
    BY <2>1 DEF EmptyHost
<1>4. ("host" \in DOMAIN c /\ c["host"] = "") => EmptyHost'
  <2>1. configured' \in 1..configured'
    BY <1>n
  <2> QED
    BY <2>1 DEF EmptyHost
<1> HIDE DEF c
<1>5. PktTypes'
  <2>1. \E S : todo' \in Seq(S)
    BY <1>1
  <2>2. DOMAIN overlapped' = Threads /\ \A t \in Threads : overlapped'[t] \in BOOLEAN
    BY <1>u
  <2> QED
    BY <1>t, <1>u, <1>n, <2>1, <2>2 DEF PktTypes
<1>6. LastInForce'
  <2>1. Defaults["host"] # ""
    BY DEF Defaults
  <2>2. ASSUME NEW n \in 1..Len(todo'), todo'[n][1] = "host", todo'[n][2] = "" PROVE EmptyHost'
    BY <1>1, <1>4, <2>1, <2>2
  <2> QED
    BY <1>1, <1>2, <2>2 DEF LastInForce
<1>7. Settled'
  <2>1. \A f \in Fields : Pending(f)'
    BY <1>1 DEF Pending
  <2> QED
    BY <1>t, <1>u, <1>n, <1>3, <2>1 DEF Settled
<1>8. ASSUME NEW t \in Threads PROVE CallInForce(t)'
  <2>1. CallInForce(t) /\ (at[t] # "idle" => overlapped'[t])
    BY <1>t, <1>u DEF CallsInForce
  <2> QED
    BY <1>u, <1>3, <2>1 DEF CallInForce
<1> QED
  BY <1>5, <1>6, <1>7, <1>8 DEF PktInv, CallsInForce

(* One assignment, or the half of one.                                     *)
LEMMA AssignInv ==
    ASSUME PktInv, Assign
    PROVE  PktInv'
<1>t. PktTypes /\ LastInForce /\ Settled /\ CallsInForce
  BY DEF PktInv
<1>p. PICK f, value : f = Head(todo)[1] /\ value = Head(todo)[2]
  OBVIOUS
<1>u. /\ todo # <<>> /\ UNCHANGED <<engine, configured, at, args, overlapped>>
      /\ \/ /\ f \in DOMAIN fields /\ value \notin fields[f]
            /\ fields' = With(fields, f, fields[f] \union {value})
            /\ todo' = todo
         \/ /\ fields' = With(fields, f, {value})
            /\ todo' = Tail(todo)
  BY <1>p DEF Assign
<1>n. PICK S : todo \in Seq(S)
  BY <1>t DEF PktTypes
<1>1. /\ Len(todo) \in Nat \ {0} /\ f = todo[1][1] /\ value = todo[1][2]
      /\ engine < configured /\ engine \in Nat /\ configured \in Nat
  BY <1>t, <1>u, <1>n, <1>p DEF PktTypes
<1>2. /\ \A g : InForce(g)' = InForce(g)
      /\ EmptyHost' = EmptyHost
  BY <1>u, ForceStays
<1>3. (f = "host" /\ value = "") => EmptyHost
  <2>1. 1 \in 1..Len(todo)
    BY <1>1
  <2> QED
    BY <1>t, <1>1, <2>1 DEF LastInForce
<1>4. ASSUME NEW t \in Threads PROVE CallInForce(t)'
  <2>1. CallInForce(t) /\ (at[t] # "idle" => overlapped[t])
    BY <1>t, <1>u, <1>1 DEF CallsInForce, CallInForce, PktTypes
  <2> QED
    BY <1>u, <1>2, <2>1 DEF CallInForce
<1>5. /\ f \in DOMAIN fields'
      /\ \A g : g # f => ((g \in DOMAIN fields' <=> g \in DOMAIN fields)
                         /\ (g \in DOMAIN fields => fields'[g] = fields[g]))
  BY <1>u DEF With
<1>6. CASE todo' = todo /\ fields' = With(fields, f, fields[f] \union {value}) /\ f \in DOMAIN fields
  <2>1. PktTypes' /\ LastInForce'
    BY <1>t, <1>u, <1>2, <1>6 DEF PktTypes, LastInForce
  <2>2. Pending(f) /\ \A g : Pending(g)' = Pending(g)
    BY <1>1, <1>6 DEF Pending
  <2>3. fields'[f] = fields[f] \union {value}
    BY <1>6 DEF With
  <2>4. Settled'
    <3>1. ASSUME NEW g \in Fields \ {"host"}, configured' > 0, ~Pending(g)'
          PROVE  g \in DOMAIN fields' /\ fields'[g] = {InForce(g)'}
      BY <1>t, <1>u, <1>2, <1>5, <2>2, <3>1 DEF Settled
    <3>2. ASSUME configured' > 0, ~Pending("host")'
          PROVE  /\ "host" \in DOMAIN fields'
                 /\ fields'["host"] \subseteq {InForce("host")'} \union
                                           (IF EmptyHost' THEN {"127.0.0.1"} ELSE {})
      BY <1>t, <1>u, <1>2, <1>5, <2>2, <3>2 DEF Settled
    <3>3. ASSUME "host" \in DOMAIN fields'
          PROVE  fields'["host"] # {} /\ ("" \in fields'["host"] => EmptyHost')
      BY <1>t, <1>2, <1>3, <1>5, <2>3, <3>3, <1>6 DEF Settled
    <3>4. engine' > 0 => "host" \in DOMAIN fields'
      BY <1>t, <1>u, <1>5 DEF Settled
    <3> QED
      BY <3>1, <3>2, <3>3, <3>4 DEF Settled
  <2> QED
    BY <1>4, <2>1, <2>4 DEF PktInv, CallsInForce
<1>7. CASE todo' = Tail(todo) /\ fields' = With(fields, f, {value})
  <2>1. /\ todo' \in Seq(S) /\ Len(todo') = Len(todo) - 1
        /\ \A n \in 1..Len(todo') : todo'[n] = todo[n + 1] /\ n + 1 \in 1..Len(todo)
    BY <1>n, <1>u, <1>7
  <2>2. fields'[f] = {value}
    BY <1>7 DEF With
  <2>3. PktTypes'
    BY <1>t, <1>u, <1>1, <2>1 DEF PktTypes
  <2>4. LastInForce'
    <3>1. ASSUME NEW n \in 1..Len(todo'),
                 \A m \in 1..Len(todo') : m > n => todo'[m][1] # todo'[n][1]
          PROVE  todo'[n][2] = InForce(todo'[n][1])
      <4>1. ASSUME NEW m \in 1..Len(todo), m > n + 1 PROVE todo[m][1] # todo[n + 1][1]
        <5>1. m - 1 \in 1..Len(todo') /\ m - 1 > n /\ todo'[m - 1] = todo[m]
          BY <1>1, <2>1, <4>1
        <5> QED
          BY <2>1, <3>1, <5>1
      <4> QED
        BY <1>t, <2>1, <4>1 DEF LastInForce
    <3>2. ASSUME NEW n \in 1..Len(todo'), todo'[n][1] = "host", todo'[n][2] = "" PROVE EmptyHost
      BY <1>t, <2>1, <3>2 DEF LastInForce
    <3> QED
      BY <1>2, <3>1, <3>2 DEF LastInForce
  <2>5. ASSUME NEW g, ~Pending(g)', g # f PROVE ~Pending(g)
    <3>1. ASSUME NEW n \in 1..Len(todo), todo[n][1] = g PROVE FALSE
      <4>1. n # 1
        BY <1>1, <2>5, <3>1
      <4>2. n - 1 \in 1..Len(todo') /\ todo'[n - 1] = todo[n]
        BY <1>1, <2>1, <4>1
      <4> QED
        BY <2>5, <3>1, <4>2 DEF Pending
    <3> QED
      BY <3>1 DEF Pending
  <2>6. ASSUME ~Pending(f)' PROVE value = InForce(f)
    <3>1. ASSUME NEW m \in 1..Len(todo), m > 1 PROVE todo[m][1] # todo[1][1]
      <4>1. m - 1 \in 1..Len(todo') /\ todo'[m - 1] = todo[m]
        BY <1>1, <2>1, <3>1
      <4> QED
        BY <1>1, <2>6, <4>1 DEF Pending
    <3>2. 1 \in 1..Len(todo)
      BY <1>1
    <3> QED
      BY <1>t, <1>1, <3>1, <3>2 DEF LastInForce
  <2>7. Settled'
    <3>1. ASSUME NEW g \in Fields \ {"host"}, configured' > 0, ~Pending(g)'
          PROVE  g \in DOMAIN fields' /\ fields'[g] = {InForce(g)'}
      <4>1. CASE g = f
        BY <1>2, <1>5, <2>2, <2>6, <3>1, <4>1
      <4>2. CASE g # f
        BY <1>t, <1>u, <1>2, <1>5, <2>5, <3>1, <4>2 DEF Settled
      <4> QED
        BY <4>1, <4>2
    <3>2. ASSUME configured' > 0, ~Pending("host")'
          PROVE  /\ "host" \in DOMAIN fields'
                 /\ fields'["host"] \subseteq {InForce("host")'} \union
                                           (IF EmptyHost' THEN {"127.0.0.1"} ELSE {})
      <4>1. CASE "host" = f
        BY <1>2, <1>5, <2>2, <2>6, <3>2, <4>1
      <4>2. CASE "host" # f
        BY <1>t, <1>u, <1>2, <1>5, <2>5, <3>2, <4>2 DEF Settled
      <4> QED
        BY <4>1, <4>2
    <3>3. ASSUME "host" \in DOMAIN fields'
          PROVE  fields'["host"] # {} /\ ("" \in fields'["host"] => EmptyHost')
      BY <1>t, <1>2, <1>3, <1>5, <2>2, <3>3 DEF Settled
    <3>4. engine' > 0 => "host" \in DOMAIN fields'
      BY <1>t, <1>u, <1>5 DEF Settled
    <3> QED
      BY <3>1, <3>2, <3>3, <3>4 DEF Settled
  <2> QED
    BY <1>4, <2>3, <2>4, <2>7 DEF PktInv, CallsInForce
<1> QED
  BY <1>u, <1>6, <1>7

(* The engine is stored: the configure is done.                            *)
LEMMA StoreEngineInv ==
    ASSUME PktInv, StoreEngine
    PROVE  PktInv'
<1>t. PktTypes /\ LastInForce /\ Settled /\ CallsInForce
  BY DEF PktInv
<1>u. /\ UNCHANGED <<fields, configured, todo, at, args, overlapped>>
      /\ todo = <<>> /\ engine < configured /\ engine' = engine + 1
  BY DEF StoreEngine
<1>1. PktTypes'
  BY <1>t, <1>u DEF PktTypes
<1>2. LastInForce' /\ Settled'
  <2>1. configured > 0 /\ ~Pending("host")
    BY <1>t, <1>u DEF PktTypes, Pending
  <2>2. "host" \in DOMAIN fields
    BY <1>t, <2>1 DEF Settled
  <2>3. LastInForce'
    BY <1>t, <1>u, ForceStays DEF LastInForce
  <2>4. \A f : Pending(f)' = Pending(f)
    BY <1>u DEF Pending
  <2> QED
    BY <1>t, <1>u, <2>2, <2>3, <2>4, ForceStays DEF Settled
<1>3. ASSUME NEW t \in Threads PROVE CallInForce(t)'
  <2>1. CallInForce(t)
    BY <1>t DEF CallsInForce
  <2>2. engine # configured /\ engine' > 0
    BY <1>t, <1>u DEF PktTypes
  <2>3. at[t] # "idle" => overlapped[t]
    BY <2>1, <2>2 DEF CallInForce
  <2> QED
    BY <1>u, <2>1, <2>2, <2>3, ForceStays DEF CallInForce
<1> QED
  BY <1>1, <1>2, <1>3 DEF PktInv, CallsInForce

(* A call that no configure overlaps finds every field but the host as     *)
(* configured, and a host of its configuration or one put in its place.    *)
LEMMA FieldsInForce ==
    ASSUME PktInv, NEW t \in Threads, at[t] # "idle", ~overlapped[t]
    PROVE  /\ \A f \in Fields \ {"host"} : fields[f] = {InForce(f)}
           /\ \A f \in Fields \ ByReference : Contents(f) = InForce(f)
           /\ Contents("interface") = InForce("interface")
           /\ fields["host"] # {}
           /\ fields["host"] # {""} => Contents("host") \in HostsInForce
<1>1. todo = <<>> /\ configured > 0
  BY DEF PktInv, CallsInForce, CallInForce
<1>2. \A f : ~Pending(f)
  BY <1>1 DEF Pending
<1>3. Settled
  BY DEF PktInv
<1>4. \A f \in Fields \ {"host"} : fields[f] = {InForce(f)}
  BY <1>1, <1>2, <1>3 DEF Settled
<1>5. ASSUME NEW f \in Fields \ {"host"} PROVE Contents(f) = InForce(f)
  <2>1. fields[f] = {InForce(f)} /\ fields[f] # {}
    BY <1>4
  <2> QED
    BY <2>1, ContentsAre
<1>6. "interface" \in Fields \ {"host"} /\ "host" \in Fields
  BY PacketizeServiceAssumption
<1>7. /\ fields["host"] # {}
      /\ fields["host"] \subseteq {InForce("host")} \union
                                      (IF EmptyHost THEN {"127.0.0.1"} ELSE {})
      /\ "" \in fields["host"] => EmptyHost
  BY <1>1, <1>2, <1>3 DEF Settled
<1>8. ASSUME fields["host"] # {""} PROVE Contents("host") \in HostsInForce
  <2>1. HostsInForce = ({InForce("host")} \ {""})
                           \union (IF EmptyHost THEN {"127.0.0.1", Torn} ELSE {})
    BY DEF HostsInForce, EmptyHost
  <2>2. CASE EmptyHost
    <3>1. Contents("host") \in fields["host"] \union {Torn}
      BY <1>7, ContentsAre
    <3>2. Contents("host") # Torn => fields["host"] = {Contents("host")}
      BY <1>7, ContentsAre
    <3>3. Contents("host") # ""
      BY <1>8, <3>2 DEF Torn
    <3> QED
      BY <1>7, <2>1, <2>2, <3>1, <3>3
  <2>3. CASE ~EmptyHost
    <3>1. fields["host"] = {InForce("host")}
      BY <1>7, <2>3
    <3>2. Contents("host") = InForce("host")
      BY <1>7, <3>1, ContentsAre
    <3> QED
      BY <1>8, <2>1, <3>1, <3>2
  <2> QED
    BY <2>2, <2>3
<1> QED
  BY <1>4, <1>5, <1>6, <1>7, <1>8 DEF ByReference

(* A call begins.                                                          *)
LEMMA ExecuteInv ==
    ASSUME PktInv, NEW t \in Threads, Execute(t)
    PROVE  PktInv'
<1>t. PktTypes /\ LastInForce /\ Settled /\ CallsInForce
  BY DEF PktInv
<1>u. /\ UNCHANGED <<fields, engine, configured, todo, args>>
      /\ engine > 0 /\ at[t] = "idle" /\ at' = [at EXCEPT ![t] = "arguments"]
      /\ overlapped' = [overlapped EXCEPT ![t] = engine < configured]
  BY DEF Execute, Go
<1>1. PktTypes' /\ LastInForce' /\ Settled'
  <2>1. ASSUME NEW s \in Threads PROVE overlapped'[s] \in BOOLEAN
    <3>1. CASE s = t
      BY <1>t, <1>u, <3>1 DEF PktTypes
    <3>2. CASE s # t
      BY <1>t, <1>u, <3>2 DEF PktTypes
    <3> QED
      BY <3>1, <3>2
  <2>2. PktTypes'
    BY <1>t, <1>u, <2>1 DEF PktTypes
  <2> QED
    BY <1>t, <1>u, <2>2, ForceStays DEF LastInForce, Settled, Pending
<1>2. CallInForce(t)'
  <2>1. at'[t] = "arguments" /\ (overlapped'[t] <=> engine < configured) /\ DOMAIN args[t] = {}
    BY <1>t, <1>u DEF PktTypes, CallsInForce, CallInForce
  <2>2. ~overlapped'[t] => todo = <<>> /\ engine = configured /\ configured > 0
    BY <1>t, <1>u, <2>1 DEF PktTypes
  <2> QED
    BY <1>u, <2>1, <2>2 DEF CallInForce
<1>3. ASSUME NEW s \in Threads, s # t PROVE CallInForce(s)'
  <2>1. at'[s] = at[s] /\ overlapped'[s] = overlapped[s]
    BY <1>t, <1>u, <1>3 DEF PktTypes
  <2>2. CallInForce(s)
    BY <1>t DEF CallsInForce
  <2> QED
    BY <1>u, <2>1, <2>2, ForceStays DEF CallInForce
<1> QED
  BY <1>1, <1>2, <1>3 DEF PktInv, CallsInForce

(* A call reads its arguments, looks at the host and the interface, and    *)
(* sends.                                                                  *)
LEMMA ReadsInv ==
    ASSUME PktInv, NEW t \in Threads,
           \/ \E f \in Fields \ ByReference : TakeArgument(t, f)
           \/ HostGiven(t) \/ HostEmpty(t) \/ UseInterface(t) \/ UseHost(t) \/ Sent(t)
    PROVE  PktInv'
<1>t. PktTypes /\ CallInForce(t)
  BY DEF PktInv, CallsInForce
<1>a. args = [args EXCEPT ![t] = args[t]] /\ t \in DOMAIN args /\ t \in DOMAIN at
  BY <1>t DEF PktTypes
<1>1. ASSUME NEW f \in Fields \ ByReference, TakeArgument(t, f) PROVE PktInv'
  <2>u. /\ UNCHANGED <<fields, engine, configured, todo, overlapped>>
        /\ at[t] = "arguments" /\ at' = [at EXCEPT ![t] = "arguments"]
        /\ args' = [args EXCEPT ![t] = With(args[t], f, Contents(f))]
    BY <1>1 DEF TakeArgument, Go, Took
  <2>1. /\ at'[t] = "arguments" /\ DOMAIN args'[t] = DOMAIN args[t] \union {f}
        /\ args'[t][f] = Contents(f) /\ \A k \in DOMAIN args[t] : k # f => args'[t][k] = args[t][k]
    BY <1>a, <2>u DEF With
  <2>2. ~overlapped[t] => Contents(f) = InForce(f)
    BY <2>u, FieldsInForce
  <2>3. CallInForce(t)'
    BY <1>t, <2>u, <2>1, <2>2, ForceStays DEF CallInForce
  <2> QED
    BY <2>u, <2>3, CallStep
<1>2. CASE HostGiven(t)
  <2>u. /\ UNCHANGED <<fields, engine, configured, todo, overlapped, args>>
        /\ at[t] = "arguments" /\ at' = [at EXCEPT ![t] = "interface"]
        /\ fields["host"] # {""} /\ Fields \ ByReference \subseteq DOMAIN args[t]
    BY <1>2 DEF HostGiven, SeesHost, Go
  <2>1. at'[t] = "interface"
    BY <1>a, <2>u
  <2>2. CallInForce(t)'
    BY <1>t, <2>u, <2>1, ForceStays DEF CallInForce
  <2> QED
    BY <1>a, <2>u, <2>2, CallStep
<1>3. CASE HostEmpty(t)
  <2>u. /\ UNCHANGED <<fields, engine, configured, todo, overlapped, args>>
        /\ at[t] = "arguments" /\ at' = [at EXCEPT ![t] = "default"]
        /\ "" \in fields["host"] /\ Fields \ ByReference \subseteq DOMAIN args[t]
    BY <1>3 DEF HostEmpty, SeesHost, Go
  <2>1. at'[t] = "default"
    BY <1>a, <2>u
  <2>2. EmptyHost
    BY <1>t, <2>u DEF PktInv, Settled, CallInForce
  <2>3. CallInForce(t)'
    BY <1>t, <2>u, <2>1, <2>2, ForceStays DEF CallInForce
  <2> QED
    BY <1>a, <2>u, <2>3, CallStep
<1>4. CASE UseInterface(t)
  <2>u. /\ UNCHANGED <<fields, engine, configured, todo, overlapped>>
        /\ at[t] = "interface" /\ at' = [at EXCEPT ![t] = "address"]
    BY <1>4 DEF UseInterface, Go
  <2>1. at'[t] = "address"
    BY <1>a, <2>u
  <2>2. /\ "interface" \in Fields \ {"host"} /\ "interface" \in ByReference
        /\ "mtu" \in Fields \ ByReference
    BY PacketizeServiceAssumption DEF ByReference
  <2>3. CASE args[t]["mtu"] # 0 /\ UNCHANGED args
    <3>1. (~overlapped[t]) => InForce("mtu") # 0
      BY <1>t, <2>u, <2>2, <2>3 DEF CallInForce
    <3>2. CallInForce(t)'
      BY <1>t, <2>u, <2>1, <2>3, <3>1, ForceStays DEF CallInForce
    <3> QED
      BY <1>a, <2>u, <2>3, <3>2, CallStep
  <2>4. ASSUME NEW taken, args' = [args EXCEPT ![t] = With(args[t], "interface", taken)],
               ~overlapped[t] => taken = IF InForce("interface") = "" THEN "eth0"
                                         ELSE InForce("interface")
        PROVE  PktInv'
    <3>1. /\ DOMAIN args'[t] = DOMAIN args[t] \union {"interface"}
          /\ args'[t]["interface"] = taken
          /\ \A k \in DOMAIN args[t] : k # "interface" => args'[t][k] = args[t][k]
      BY <1>a, <2>4 DEF With
    <3>3. CallInForce(t)'
      <4>1. ASSUME ~overlapped[t]
            PROVE  /\ \A k \in DOMAIN args'[t] \ ByReference : args'[t][k] = InForce(k)
                   /\ Fields \ ByReference \subseteq DOMAIN args'[t]
                   /\ fields["host"] # {""}
        BY <1>t, <2>u, <2>2, <3>1, <4>1 DEF CallInForce
      <4>2. at[t] # "idle" /\ engine > 0
            /\ (~overlapped[t] => todo = <<>> /\ engine = configured /\ configured > 0)
        BY <1>t, <2>u DEF CallInForce
      <4> QED
        BY <2>u, <2>1, <2>4, <3>1, <4>1, <4>2, ForceStays DEF CallInForce
    <3> QED
      BY <2>u, <2>4, <3>3, CallStep
  <2>5. CASE "" \in fields["interface"] /\ Took(t, "interface", "eth0")
    <3>1. ~overlapped[t] => InForce("interface") = ""
      <4>1. ~overlapped[t] => fields["interface"] = {InForce("interface")}
        BY <2>u, <2>2, FieldsInForce
      <4> QED
        BY <2>5, <4>1
    <3> QED
      BY <2>4, <2>5, <3>1 DEF Took
  <2>6. CASE fields["interface"] # {""} /\ Took(t, "interface", Contents("interface"))
    <3>1. ~overlapped[t] => /\ InForce("interface") # ""
                            /\ Contents("interface") = InForce("interface")
      <4>1. ~overlapped[t] => /\ fields["interface"] = {InForce("interface")}
                              /\ Contents("interface") = InForce("interface")
        BY <2>u, <2>2, FieldsInForce
      <4> QED
        BY <2>6, <4>1
    <3>2. PICK taken : taken = Contents("interface")
      OBVIOUS
    <3> QED
      BY <2>4, <2>6, <3>1, <3>2 DEF Took
  <2> QED
    BY <1>4, <2>3, <2>5, <2>6 DEF UseInterface
<1>5. CASE UseHost(t)
  <2>u. /\ UNCHANGED <<fields, engine, configured, todo, overlapped>>
        /\ at[t] = "address" /\ at' = [at EXCEPT ![t] = "sending"]
        /\ args' = [args EXCEPT ![t] = With(args[t], "host", Contents("host"))]
    BY <1>5 DEF UseHost, Go, Took
  <2>1. /\ at'[t] = "sending" /\ DOMAIN args'[t] = DOMAIN args[t] \union {"host"}
        /\ args'[t]["host"] = Contents("host")
        /\ \A k : (k # "host" /\ k \in DOMAIN args[t]) => args'[t][k] = args[t][k]
    BY <1>a, <2>u DEF With
  <2>2. ~overlapped[t] => Contents("host") \in HostsInForce
    BY <1>t, <2>u, FieldsInForce DEF CallInForce
  <2>3. "host" \in ByReference /\ "interface" # "host"
    BY DEF ByReference
  <2>4. CallInForce(t)'
    <3>1. ASSUME ~overlapped[t]
          PROVE  /\ \A k \in DOMAIN args'[t] \ ByReference : args'[t][k] = InForce(k)
                 /\ Fields \ ByReference \subseteq DOMAIN args'[t]
                 /\ InForce("mtu") = 0 =>
                        /\ "interface" \in DOMAIN args'[t]
                        /\ args'[t]["interface"] = IF InForce("interface") = "" THEN "eth0"
                                                   ELSE InForce("interface")
      BY <1>t, <2>u, <2>1, <2>3, <3>1 DEF CallInForce
    <3>2. engine > 0 /\ (~overlapped[t] => todo = <<>> /\ engine = configured /\ configured > 0)
      BY <1>t, <2>u DEF CallInForce
    <3> QED
      BY <2>u, <2>1, <2>2, <3>1, <3>2, ForceStays DEF CallInForce
  <2> QED
    BY <2>u, <2>4, CallStep
<1>6. CASE Sent(t)
  <2>u. /\ UNCHANGED <<fields, engine, configured, todo, overlapped>>
        /\ at' = [at EXCEPT ![t] = "idle"]
        /\ args' = [args EXCEPT ![t] = [f \in {} |-> 0]]
    BY <1>6 DEF Sent, Go
  <2>1. at'[t] = "idle" /\ DOMAIN args'[t] = {}
    BY <1>a, <2>u
  <2>2. CallInForce(t)'
    BY <2>1 DEF CallInForce
  <2> QED
    BY <2>u, <2>2, CallStep
<1> QED
  BY <1>1, <1>2, <1>3, <1>4, <1>5, <1>6

(* A call puts the default in the place of a host configured as empty.     *)
LEMMA DefaultHostInv ==
    ASSUME PktInv, NEW t \in Threads, DefaultHost(t)
    PROVE  PktInv'
<1>t. PktTypes /\ LastInForce /\ Settled /\ CallsInForce /\ CallInForce(t)
  BY DEF PktInv, CallsInForce
<1>p. PICK before, next, values :
          /\ at[t] = before /\ before \in {"default", "assigning"}
          /\ at' = [at EXCEPT ![t] = next] /\ next \in {"assigning", "interface"}
          /\ values \in {fields["host"] \union {"127.0.0.1"}, {"127.0.0.1"}}
          /\ fields' = With(fields, "host", values)
  BY DEF DefaultHost, SetsHost, Go
<1>u. UNCHANGED <<engine, configured, todo, args, overlapped>>
  BY DEF DefaultHost, SetsHost
<1>f. /\ \A f : InForce(f)' = InForce(f)
      /\ EmptyHost' = EmptyHost /\ HostsInForce' = HostsInForce
  BY <1>u, ForceStays
<1>1. EmptyHost /\ engine > 0
  BY <1>t, <1>p DEF CallInForce
<1>2. /\ DOMAIN fields' = DOMAIN fields \union {"host"} /\ fields'["host"] = values
      /\ \A f : (f # "host" /\ f \in DOMAIN fields) => fields'[f] = fields[f]
      /\ "host" \in DOMAIN fields
  BY <1>t, <1>p, <1>1 DEF With, Settled
<1>3. values # {} /\ values # {""}
  BY <1>p
<1>4. PktTypes' /\ LastInForce'
  <2>1. PktTypes'
    BY <1>t, <1>p, <1>u DEF PktTypes
  <2>2. LastInForce'
    BY <1>t, <1>u, <1>f DEF LastInForce
  <2> QED
    BY <2>1, <2>2
<1>5. Settled'
  <2>1. \A f : Pending(f)' = Pending(f)
    BY <1>u DEF Pending
  <2>2. ASSUME NEW f \in Fields \ {"host"}, configured > 0, ~Pending(f)
        PROVE  f \in DOMAIN fields' /\ fields'[f] = {InForce(f)}
    BY <1>t, <1>2, <2>2 DEF Settled
  <2>3. ASSUME configured > 0, ~Pending("host")
        PROVE  fields'["host"] \subseteq {InForce("host")} \union {"127.0.0.1"}
    BY <1>t, <1>p, <1>1, <1>2, <2>3 DEF Settled
  <2> QED
    BY <1>u, <1>1, <1>2, <1>3, <2>1, <2>2, <2>3, <1>f DEF Settled
<1>6. ASSUME NEW s \in Threads PROVE CallInForce(s)'
  <2>1. CallInForce(s)
    BY <1>t DEF CallsInForce
  <2>2. CASE s = t
    <3>1. at'[t] = next /\ at[t] # "idle" /\ at[t] # "arguments"
      BY <1>t, <1>p DEF PktTypes
    <3> QED
      BY <1>t, <1>p, <1>u, <1>1, <1>2, <1>3, <2>2, <3>1, <1>f DEF CallInForce
  <2>3. CASE s # t
    <3>1. at'[s] = at[s]
      BY <1>t, <1>p, <2>3 DEF PktTypes
    <3> QED
      BY <1>u, <1>2, <1>3, <2>1, <3>1, <1>f DEF CallInForce
  <2> QED
    BY <2>2, <2>3
<1> QED
  BY <1>4, <1>5, <1>6 DEF PktInv, CallsInForce

LEMMA PktUnchanged ==
    ASSUME PktInv, UNCHANGED pktVars
    PROVE  PktInv'
<1>u. UNCHANGED <<fields, engine, configured, todo, at, args, overlapped>>
  BY DEF pktVars
<1>f. /\ \A f : InForce(f)' = InForce(f)
      /\ EmptyHost' = EmptyHost /\ HostsInForce' = HostsInForce
  BY <1>u, ForceStays
<1>t. PktTypes /\ LastInForce /\ Settled /\ CallsInForce
  BY DEF PktInv
<1>1. PktTypes'
  BY <1>t, <1>u DEF PktTypes
<1>2. LastInForce' /\ Settled'
  <2>1. LastInForce'
    BY <1>t, <1>u, <1>f DEF LastInForce
  <2>2. \A f : Pending(f)' = Pending(f)
    BY <1>u DEF Pending
  <2>3. Settled'
    BY <1>t, <1>u, <2>2, <1>f DEF Settled
  <2> QED
    BY <2>1, <2>3
<1>3. ASSUME NEW t \in Threads PROVE CallInForce(t)'
  <2>1. CallInForce(t)
    BY <1>t DEF CallsInForce
  <2> QED
    BY <1>u, <1>f, <2>1 DEF CallInForce
<1> QED
  BY <1>1, <1>2, <1>3 DEF PktInv, CallsInForce

LEMMA PktNextInv ==
    ASSUME PktInv, PktNext
    PROVE  PktInv'
<1>1. CASE BeginConfigure
  BY <1>1, BeginConfigureInv
<1>2. CASE Assign
  BY <1>2, AssignInv
<1>3. CASE StoreEngine
  BY <1>3, StoreEngineInv
<1>4. ASSUME NEW t \in Threads, PktThread(t) PROVE PktInv'
  <2>1. CASE Execute(t)
    BY <2>1, ExecuteInv
  <2>2. CASE \/ \E f \in Fields \ ByReference : TakeArgument(t, f)
             \/ HostGiven(t) \/ HostEmpty(t) \/ UseInterface(t) \/ UseHost(t) \/ Sent(t)
    BY <2>2, ReadsInv
  <2>3. CASE DefaultHost(t)
    BY <2>3, DefaultHostInv
  <2>4. CASE SendFails(t)
    BY <2>4, PktUnchanged DEF SendFails
  <2> QED
    BY <1>4, <2>1, <2>2, <2>3, <2>4 DEF PktThread
<1> QED
  BY <1>1, <1>2, <1>3, <1>4 DEF PktNext

LEMMA PktInitInv == PktInit => PktInv
<1> SUFFICES ASSUME PktInit PROVE PktInv
  OBVIOUS
<1>1. /\ fields = [f \in {} |-> 0] /\ engine = 0 /\ configured = 0 /\ todo = <<>>
      /\ at = [t \in Threads |-> "idle"] /\ args = [t \in Threads |-> [f \in {} |-> 0]]
      /\ overlapped = [t \in Threads |-> FALSE]
  BY DEF PktInit
<1>2. PktTypes
  <2>1. todo \in Seq({})
    BY <1>1
  <2>2. Len(Configs) >= 0
    BY PacketizeServiceAssumption
  <2> QED
    BY <1>1, <2>1, <2>2 DEF PktTypes
<1>3. LastInForce
  BY <1>1 DEF LastInForce
<1>4. Settled
  <2>1. DOMAIN fields = {} /\ ~(engine > 0) /\ ~(configured > 0)
    BY <1>1
  <2> QED
    BY <2>1 DEF Settled
<1>5. CallsInForce
  BY <1>1 DEF CallsInForce, CallInForce
<1> QED
  BY <1>2, <1>3, <1>4, <1>5 DEF PktInv

(* A call of the packetize service that no configure overlaps sends with   *)
(* the last configuration given and with nothing of an earlier one; what   *)
(* other calls do to the strings they share shows only in a host that was  *)
(* configured as empty.                                                    *)
THEOREM OneConfigurationInForce == ServicesSpec => []OneConfiguration
<1>1. ServicesInit => PktInv
  BY PktInitInv DEF ServicesInit
<1>2. PktInv /\ [ServicesNext]_serviceVars => PktInv'
  <2>1. [ServicesNext]_serviceVars => PktNext \/ UNCHANGED pktVars
    BY DEF ServicesNext, Packetize, Assemble, AssembleEt, Chain, Reader, serviceVars
  <2> QED
    BY <2>1, PktNextInv, PktUnchanged
<1>3. PktInv => OneConfiguration
  <2> SUFFICES ASSUME PktInv, NEW t \in Threads, at[t] = "sending", ~overlapped[t]
               PROVE  /\ args[t]["host"] \in HostsInForce
                      /\ \A f \in Fields \ ByReference : args[t][f] = InForce(f)
                      /\ InForce("mtu") = 0 =>
                             args[t]["interface"] = IF InForce("interface") = "" THEN "eth0"
                                                    ELSE InForce("interface")
    BY DEF OneConfiguration
  <2>1. CallInForce(t)
    BY DEF PktInv, CallsInForce
  <2> QED
    BY <2>1 DEF CallInForce
<1> QED
  BY <1>1, <1>2, <1>3, PTL DEF ServicesSpec
=============================================================================

-------------------------- MODULE PacketizeService --------------------------
(***************************************************************************)
(* EjfatPacketizeService: configure writes the service's fields one by one *)
(* and then stores a new engine; execute, on as many threads as the        *)
(* framework likes, reads those fields and sends with them.  Only the      *)
(* pointer to the engine is accessed atomically.  The numbers are read     *)
(* when execute calls process; the two strings go down to sendBuffer by    *)
(* reference and are read there, and sendBuffer writes to one of them.     *)
(***************************************************************************)
EXTENDS CppProcess

CONSTANTS
    Fields,         \* the fields looked at, host, interface and mtu among them
    Configs         \* the configurations given, in this order: functions from
                    \* some of the fields to values

FieldNames == {"host", "interface", "mtu", "port", "ver", "dataId", "protocol", "delay", "debug"}

ASSUME PacketizeServiceAssumption ==
    /\ {"host", "interface", "mtu"} \subseteq Fields
    /\ Fields \subseteq FieldNames
    /\ Len(Configs) \in Nat /\ DOMAIN Configs = 1..Len(Configs)
    /\ \A i \in DOMAIN Configs : DOMAIN Configs[i] \subseteq Fields

ByReference == {"host", "interface"}

Defaults ==
    [host |-> "127.0.0.1", interface |-> "eth0", mtu |-> 1024, port |-> 19522, ver |-> 1,
     dataId |-> 1, protocol |-> 1, delay |-> 0, debug |-> FALSE]

(* The contents of a string that another thread is assigning to.           *)
Torn == "torn"

VARIABLES
    fields,         \* the service's fields; none has a value at first.  The
                    \* values that one may be seen to have: the old and the
                    \* new while a string is being assigned
    engine,         \* how many engines have been stored in engine_
    configured,     \* how many of Configs have been, or are being, applied
    todo,           \* the assignments left of the configure under way, in
                    \* order: a field and its value
    at,             \* where each thread is in execute
    args,           \* what each has read of the fields so far
    overlapped      \* whether a configure fell into the execute under way

pktVars == <<fields, engine, configured, todo, at, args, overlapped>>

PktInit ==
    /\ fields = [f \in {} |-> 0]
    /\ engine = 0
    /\ configured = 0
    /\ todo = <<>>
    /\ at = [t \in Threads |-> "idle"]
    /\ args = [t \in Threads |-> [f \in {} |-> 0]]
    /\ overlapped = [t \in Threads |-> FALSE]

With(f, key, value) == [k \in DOMAIN f \union {key} |-> IF k = key THEN value ELSE f[k]]

-----------------------------------------------------------------------------
(* configure                                                               *)

(* The assignment of a field, if the source has a value for it.            *)
From(source, f) ==
    IF f \in Fields \intersect DOMAIN source THEN << <<f, source[f]>> >> ELSE <<>>

GivenAssignments(config) ==
    From(config, "host") \o From(config, "interface") \o From(config, "debug")
        \o From(config, "mtu") \o From(config, "port") \o From(config, "ver")
        \o From(config, "delay") \o From(config, "dataId") \o From(config, "protocol")

DefaultAssignments ==
    From(Defaults, "host") \o From(Defaults, "interface") \o From(Defaults, "mtu")
        \o From(Defaults, "port") \o From(Defaults, "ver") \o From(Defaults, "dataId")
        \o From(Defaults, "protocol") \o From(Defaults, "delay") \o From(Defaults, "debug")

(* Variant, not the code: what is not given keeps its value.               *)
AssignmentsKeeping(config) ==
    (IF engine = 0 THEN DefaultAssignments ELSE <<>>) \o GivenAssignments(config)

(* The defaults for all fields, then the values given.                     *)
Assignments(config) == DefaultAssignments \o GivenAssignments(config)

(* The orchestrator waits for one configure before it asks for another.    *)
BeginConfigure ==
    /\ ~exited
    /\ todo = <<>> /\ engine = configured
    /\ configured < Len(Configs)
    /\ configured' = configured + 1
    /\ todo' = Assignments(Configs[configured + 1])
    /\ overlapped' = [t \in Threads |-> overlapped[t] \/ at[t] # "idle"]
    /\ UNCHANGED <<exited, sockets, fields, engine, at, args>>

(* A number is assigned in one go, a string in two.                        *)
Assign ==
    /\ ~exited
    /\ todo # <<>>
    /\ LET f     == Head(todo)[1]
           value == Head(todo)[2]
           begun == f \in DOMAIN fields /\ value \in fields[f]
       IN  IF f \in ByReference /\ f \in DOMAIN fields /\ ~begun
             THEN /\ fields' = With(fields, f, fields[f] \union {value})
                  /\ todo' = todo
             ELSE /\ fields' = With(fields, f, {value})
                  /\ todo' = Tail(todo)
    /\ UNCHANGED <<exited, sockets, engine, configured, at, args, overlapped>>

StoreEngine ==
    /\ ~exited
    /\ todo = <<>> /\ engine < configured
    /\ engine' = engine + 1
    /\ UNCHANGED <<exited, sockets, fields, configured, todo, at, args, overlapped>>

-----------------------------------------------------------------------------
(* execute, process and sendBuffer                                         *)

Go(t, from, to) ==
    /\ ~exited
    /\ at[t] = from
    /\ at' = [at EXCEPT ![t] = to]

Took(t, f, value) == args' = [args EXCEPT ![t] = With(args[t], f, value)]

(* A service is configured before it is asked to execute.                  *)
Execute(t) ==
    /\ engine > 0
    /\ Go(t, "idle", "arguments")
    /\ overlapped' = [overlapped EXCEPT ![t] = engine < configured]
    /\ UNCHANGED <<exited, sockets, fields, engine, configured, todo, args>>

(* What a reader of the field gets.                                        *)
Contents(f) == IF \E v \in fields[f] : fields[f] = {v} THEN CHOOSE v \in fields[f] : TRUE ELSE Torn

(* The arguments by value are read in any order.                           *)
TakeArgument(t, f) ==
    /\ Go(t, "arguments", "arguments")
    /\ f \notin DOMAIN args[t]
    /\ Took(t, f, Contents(f))
    /\ UNCHANGED <<exited, sockets, fields, engine, configured, todo, overlapped>>

SeesHost(t, next) ==
    /\ Go(t, "arguments", next)
    /\ Fields \ ByReference \subseteq DOMAIN args[t]
    /\ UNCHANGED <<exited, sockets, fields, engine, configured, todo, args, overlapped>>

HostGiven(t) == SeesHost(t, "interface") /\ fields["host"] # {""}

HostEmpty(t) == SeesHost(t, "default") /\ "" \in fields["host"]

SetsHost(t, from, values, next) ==
    /\ Go(t, from, next)
    /\ fields' = With(fields, "host", values)
    /\ UNCHANGED <<exited, sockets, engine, configured, todo, args, overlapped>>

DefaultHost(t) ==
    \/ SetsHost(t, "default", fields["host"] \union {"127.0.0.1"}, "assigning")
    \/ SetsHost(t, "assigning", {"127.0.0.1"}, "interface")

UseInterface(t) ==
    /\ Go(t, "interface", "address")
    /\ \/ args[t]["mtu"] # 0 /\ UNCHANGED args
       \/ args[t]["mtu"] = 0 /\ "" \in fields["interface"] /\ Took(t, "interface", "eth0")
       \/ /\ args[t]["mtu"] = 0 /\ fields["interface"] # {""}
          /\ Took(t, "interface", Contents("interface"))
    /\ UNCHANGED <<exited, sockets, fields, engine, configured, todo, overlapped>>

UseHost(t) ==
    /\ Go(t, "address", "sending")
    /\ Took(t, "host", Contents("host"))
    /\ UNCHANGED <<exited, sockets, fields, engine, configured, todo, overlapped>>

(* sendPacketizedBuffer (Packetizer) with what was read; the socket is the *)
(* call's own and is closed.                                               *)
Sent(t) ==
    /\ Go(t, "sending", "idle")
    /\ args' = [args EXCEPT ![t] = [f \in {} |-> 0]]
    /\ UNCHANGED <<exited, sockets, fields, engine, configured, todo, overlapped>>

(* It fails, and process ends the program.                                 *)
SendFails(t) ==
    /\ ~exited
    /\ at[t] = "sending"
    /\ exited' = TRUE
    /\ UNCHANGED <<sockets, pktVars>>

PktThread(t) ==
    \/ Execute(t) \/ (\E f \in Fields \ ByReference : TakeArgument(t, f))
    \/ HostGiven(t) \/ HostEmpty(t) \/ DefaultHost(t)
    \/ UseInterface(t) \/ UseHost(t) \/ Sent(t) \/ SendFails(t)

PktNext == BeginConfigure \/ Assign \/ StoreEngine \/ \E t \in Threads : PktThread(t)

-----------------------------------------------------------------------------
(* The configuration in force.                                             *)
InForce(f) ==
    IF f \in DOMAIN Configs[configured] THEN Configs[configured][f] ELSE Defaults[f]

(* A host that was configured as empty is replaced by the calls themselves,*)
(* under each other's eyes, and one that is late does so even under a later*)
(* configuration.                                                          *)
HostsInForce ==
    ({InForce("host")} \ {""})
        \union (IF \E i \in 1..configured : "host" \in DOMAIN Configs[i] /\ Configs[i]["host"] = ""
                THEN {"127.0.0.1", Torn} ELSE {})

(* A call that no configure overlaps sends with the last configuration and *)
(* with nothing else: no value of an earlier one is left over, and nothing *)
(* that another thread's call does to the shared strings shows, but for the*)
(* host that is configured as empty.                                       *)
OneConfiguration ==
    \A t \in Threads : (at[t] = "sending" /\ ~overlapped[t]) =>
        /\ args[t]["host"] \in HostsInForce
        /\ \A f \in Fields \ ByReference : args[t][f] = InForce(f)
        /\ InForce("mtu") = 0 =>
               args[t]["interface"] = IF InForce("interface") = "" THEN "eth0"
                                      ELSE InForce("interface")
=============================================================================

------------------------------- MODULE MCConn -------------------------------
(***************************************************************************)
(* Model checking the connection manager.                                  *)
(*                                                                         *)
(* Three cases: dialing and accepting at the limits, persistent            *)
(* connections that compete for the permits of a host, and shutting down   *)
(* with a connection of each kind.                                         *)
(***************************************************************************)
EXTENDS ConnProperties, TLC

CONSTANTS
    c1, c2, c3,      \* connections
    a1, a2,          \* two ports of one host
    b,               \* another host
    i,               \* a port the first host connects from
    w                \* a port a whitelisted host connects from

MCHost == a1 :> "a" @@ a2 :> "a" @@ i :> "a" @@ b :> "b" @@ w :> "w"
MCGroup == a1 :> 1 @@ a2 :> 1 @@ i :> 1 @@ b :> 2 @@ w :> 3

VARIABLE scenario

\* The addresses each operation is called with.
Manual == [limits |-> {a1}, persistent |-> {}, shutdown |-> {b}]
Inbound == [limits |-> {i, w}, persistent |-> {i}, shutdown |-> {i}]
Persistents == [limits |-> {}, persistent |-> {a1, a2, b}, shutdown |-> {a1}]

\* The number of connections at a time.
AtATime == [limits |-> 3, persistent |-> 3, shutdown |-> 2]

FewConnections ==
    Cardinality({c \in Conns : pc[c] # "free"}) <= AtATime[scenario]

\* The address of a persistent entry is not added again before the goroutine of
\* the old entry has ended, and at shutdown no entry is added any more and none
\* is removed before its goroutine has been started.
Callers ==
    \/ \E c \in Conns :
           \/ \E a \in Manual[scenario] : Connect(c, a)
           \/ \E a \in Inbound[scenario] : Accept(c, a)
           \/ \E a \in Persistents[scenario] :
                  /\ \A d \in Conns :
                         kind[d] = "persistent" /\ addr[d] = a => pc[d] = "free"
                  /\ run = "running" /\ AddPersistent(c, a)
           \/ Close(c) \/ Disconnect(c)
           \/ (scenario = "shutdown" => pc[c] # "queued") /\ Remove(c)
    \/ scenario = "shutdown" /\ Shutdown

ConnInit ==
    /\ Init /\ scenario \in DOMAIN Manual
    /\ outboundHandler = IF scenario = "persistent" THEN "done" ELSE "check"

ConnNext ==
    /\ UNCHANGED scenario
    /\ \/ Callers \/ \E c \in Conns : Proceed(c)
       \/ OutboundStep \/ AddPersistentSent \/ PersistentStep \/ RunStep
    /\ FewConnections'

ConnSpec == ConnInit /\ [][ConnNext]_<<vars, scenario>>
=============================================================================

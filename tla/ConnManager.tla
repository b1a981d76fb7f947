---------------------------- MODULE ConnManager -----------------------------
(***************************************************************************)
(* The connection manager: its maps of connections, the permits that limit *)
(* their number, and the goroutines that accept, dial, close, retry and    *)
(* shut down connections.                                                  *)
(*                                                                         *)
(* A connection attempt is named by its id from the beginning.  An id is   *)
(* used again once nobody knows it any more.  A step is what runs under    *)
(* one hold of a mutex, or one operation on a channel.                     *)
(***************************************************************************)
EXTENDS Naturals, Sequences, FiniteSets, Functions

CONSTANTS
    Conns,               \* the ids that nextConnID gives out
    NoConn,
    Addrs,               \* the addresses, as host:port
    Host,                \* addrHostKey
    Group,               \* GroupKey
    Whitelisted,         \* the whitelisted addresses
    Loopback,            \* the addresses of this host
    KnownAddrs,          \* the addresses that GetNewAddress returns
    MaxNormalConns, MaxConnsPerHost, TargetOutbound, MaxPersistent,
    MaxPerOutboundGroup, \* maxPerOutboundGroup
    Listeners            \* the number of listeners

ASSUME ConnsAssumption == IsFiniteSet(Conns) /\ NoConn \notin Conns

ASSUME AddrsAssumption ==
    /\ DOMAIN Host = Addrs /\ DOMAIN Group = Addrs
    /\ Whitelisted \subseteq Addrs /\ Loopback \subseteq Addrs
    /\ KnownAddrs \subseteq Addrs /\ Addrs # {}

ASSUME LimitsAssumption ==
    /\ MaxNormalConns \in Nat /\ MaxConnsPerHost \in Nat
    /\ TargetOutbound \in Nat /\ MaxPersistent \in Nat
    /\ MaxPerOutboundGroup \in Nat /\ Listeners \in Nat

Hosts == {Host[a] : a \in Addrs}
AnyAddr == CHOOSE a \in Addrs : TRUE  \* stands for no address yet

VARIABLES
    kind, addr,      \* of each connection
    pc,              \* where the goroutine that serves it is
    held,            \* the permits it has to give back
    persistent, pending, active, connIDByAddr,
    totalNormalConnsSem, activeOutboundsSem, perHostCounts,
    outboundAddrs,   \* outboundGroups.addrs; counts is kept in step with it
    connMtx,         \* who keeps the connection mutex while it waits
    runPersistentChan, launching, cancelable, cancelled,
    outboundHandler, persistentHandler,
    run, removing    \* Run, and the ids it still has to remove

jobVars     == <<kind, addr, pc>>
mapVars     == <<persistent, pending, active, connIDByAddr>>
permitVars  == <<held, totalNormalConnsSem, activeOutboundsSem, perHostCounts>>
launchVars  == <<connMtx, runPersistentChan, launching, cancelable, cancelled>>
runVars     == <<outboundHandler, persistentHandler, run, removing>>
vars == <<jobVars, mapVars, permitVars, outboundAddrs, launchVars, runVars>>

Kinds == {"none", "manual", "outbound", "inbound", "persistent"}
Permits == {"group", "host", "total", "outbound"}
Points ==
    {"free", "total", "pick", "group", "host", "add", "dial", "register",
     "dialing", "open", "dropped", "release", "unwind", "queued", "wait"}

TypeOK ==
    /\ kind \in [Conns -> Kinds] /\ addr \in [Conns -> Addrs]
    /\ pc \in [Conns -> Points] /\ held \in [Conns -> SUBSET Permits]
    /\ persistent \subseteq Conns /\ pending \subseteq Conns
    /\ active \subseteq Conns /\ connIDByAddr \in [Addrs -> Conns \cup {NoConn}]
    /\ totalNormalConnsSem \in Nat /\ activeOutboundsSem \in Nat
    /\ perHostCounts \in [Hosts -> Nat] /\ outboundAddrs \in [Addrs -> Nat]
    /\ connMtx \in Conns \cup {NoConn} /\ runPersistentChan \in Seq(Conns)
    /\ launching \in Conns \cup {NoConn}
    /\ cancelable \subseteq Conns /\ cancelled \subseteq Conns
    /\ outboundHandler \in {"check", "acquire", "busy", "done"}
    /\ persistentHandler \in {"on", "done"}
    /\ run \in {"running", "canceled", "removing", "returned"}
    /\ removing \subseteq Conns

Init ==
    /\ kind = [c \in Conns |-> "none"] /\ addr = [c \in Conns |-> AnyAddr]
    /\ pc = [c \in Conns |-> "free"] /\ held = [c \in Conns |-> {}]
    /\ persistent = {} /\ pending = {} /\ active = {}
    /\ connIDByAddr = [a \in Addrs |-> NoConn]
    /\ totalNormalConnsSem = 0 /\ activeOutboundsSem = 0
    /\ perHostCounts = [h \in Hosts |-> 0] /\ outboundAddrs = [a \in Addrs |-> 0]
    /\ connMtx = NoConn /\ runPersistentChan = <<>> /\ launching = NoConn
    /\ cancelable = {} /\ cancelled = {}
    /\ outboundHandler \in {"check", "done"}  \* done: GetNewAddress is nil
    /\ persistentHandler = "on" /\ run = "running" /\ removing = {}

-----------------------------------------------------------------------------
\* The maps, under the connection mutex.  Each operator gives connIDByAddr
\* after an entry of c has been added or removed.
Indexed(c)   == IF c \in persistent THEN connIDByAddr
                ELSE [connIDByAddr EXCEPT ![addr[c]] = c]
\* Deliberate slip: removes the address of a persistent entry, too.
UnindexedAlways(c) == [connIDByAddr EXCEPT ![addr[c]] = NoConn]
Unindexed(c) == IF c \in persistent THEN connIDByAddr
                ELSE [connIDByAddr EXCEPT ![addr[c]] = NoConn]

\* rejectConnectedAddr and rejectDuplicateAddr.
RejectConnectedAddr(a) == connIDByAddr[a] \in pending \cup active
RejectDuplicateAddr(a) == connIDByAddr[a] \in persistent \cup pending \cup active

\* needsHostPermit and maybeReserveHostPermit.
NeedsHostPermit(a) == MaxConnsPerHost # 0 /\ a \notin Whitelisted \cup Loopback
\* Deliberate slip: allows one connection too many.
HostPermitFreeOneMore(a) ==
    NeedsHostPermit(a) => perHostCounts[Host[a]] <= MaxConnsPerHost
HostPermitFree(a)  ==
    NeedsHostPermit(a) => perHostCounts[Host[a]] + 1 <= MaxConnsPerHost
ReserveHostPermit(c, a) ==
    IF NeedsHostPermit(a)
    THEN /\ perHostCounts' = [perHostCounts EXCEPT ![Host[a]] = @ + 1]
         /\ held' = [held EXCEPT ![c] = @ \cup {"host"}]
    ELSE UNCHANGED <<perHostCounts, held>>

\* The permits of totalNormalConnsSem and activeOutboundsSem.
AcquireTotal(c) ==
    /\ totalNormalConnsSem < MaxNormalConns
    /\ totalNormalConnsSem' = totalNormalConnsSem + 1
    /\ held' = [held EXCEPT ![c] = @ \cup {"total"}]

\* addAddr and removeAddr of the outbound groups.
AddAddr(a) == outboundAddrs' = [outboundAddrs EXCEPT ![a] = @ + 1]
RemoveAddr(a) ==
    outboundAddrs' =
        [outboundAddrs EXCEPT ![a] = IF @ = 0 THEN 0 ELSE @ - 1]

GoTo(c, point) == pc' = [pc EXCEPT ![c] = point]

\* nextConnID: an id that nobody knows.  Which one makes no difference.
Unused(c) ==
    /\ pc[c] = "free" /\ c \notin persistent \cup removing
    /\ \A a \in Addrs : connIDByAddr[a] # c

Begin(c, k, a, point) ==
    /\ Unused(c) /\ c = CHOOSE d \in Conns : Unused(d)
    /\ kind' = [kind EXCEPT ![c] = k] /\ addr' = [addr EXCEPT ![c] = a]
    /\ GoTo(c, point)

Move(c, from, to) == pc[c] = from /\ GoTo(c, to) /\ UNCHANGED <<kind, addr>>

ShuttingDown == run # "running"
MutexFree == connMtx = NoConn

-----------------------------------------------------------------------------
\* Connect: the permit of the host, the permit of a normal connection, the
\* outbound group.  The caller's context may end at any moment.
Connect(c, a) ==
    /\ HostPermitFree(a)
    /\ Begin(c, "manual", a, "total")
    /\ ReserveHostPermit(c, a)
    /\ UNCHANGED <<mapVars, totalNormalConnsSem, activeOutboundsSem,
                   outboundAddrs, launchVars, runVars>>

ConnectAcquire(c) ==
    /\ kind[c] = "manual" /\ Move(c, "total", "group")
    /\ AcquireTotal(c)
    /\ UNCHANGED <<mapVars, activeOutboundsSem, perHostCounts, outboundAddrs,
                   launchVars, runVars>>

ConnectRefused(c) ==
    /\ kind[c] = "manual" /\ Move(c, "total", "release")
    /\ UNCHANGED <<mapVars, permitVars, outboundAddrs, launchVars, runVars>>

ConnectGroup(c) ==
    /\ Move(c, "group", "dial")
    /\ AddAddr(addr[c]) /\ held' = [held EXCEPT ![c] = @ \cup {"group"}]
    /\ UNCHANGED <<mapVars, totalNormalConnsSem, activeOutboundsSem,
                   perHostCounts, launchVars, runVars>>

\* targetOutboundHandler, one address at a time.  The pause after many failed
\* attempts only delays it.
OutboundCheck ==
    /\ outboundHandler = "check"
    /\ outboundHandler' = IF ShuttingDown THEN "done" ELSE "acquire"
    /\ UNCHANGED <<jobVars, mapVars, permitVars, outboundAddrs, launchVars,
                   persistentHandler, run, removing>>

OutboundAcquire(c) ==
    /\ outboundHandler = "acquire" /\ outboundHandler' = "busy"
    /\ activeOutboundsSem < TargetOutbound
    /\ activeOutboundsSem' = activeOutboundsSem + 1
    /\ Begin(c, "outbound", AnyAddr, "total")
    /\ held' = [held EXCEPT ![c] = {"outbound"}]
    /\ UNCHANGED <<mapVars, totalNormalConnsSem, perHostCounts, outboundAddrs,
                   launchVars, persistentHandler, run, removing>>

OutboundAcquireTotal(c) ==
    /\ kind[c] = "outbound" /\ Move(c, "total", "pick")
    /\ AcquireTotal(c)
    /\ UNCHANGED <<mapVars, activeOutboundsSem, perHostCounts, outboundAddrs,
                   launchVars, runVars>>

\* Deliberate slip: Acquire waits for an outbound permit whatever happens.
OutboundGivesUpLate ==
    /\ ShuttingDown /\ outboundHandler' = "done"
    /\ \E c \in Conns : kind[c] = "outbound" /\ Move(c, "total", "release")
    /\ UNCHANGED <<mapVars, permitVars, outboundAddrs, launchVars,
                   persistentHandler, run, removing>>
\* Acquire gives up when the context is done.
OutboundGivesUp ==
    /\ ShuttingDown /\ outboundHandler' = "done"
    /\ \/ /\ outboundHandler = "acquire" /\ UNCHANGED jobVars
       \/ \E c \in Conns : kind[c] = "outbound" /\ Move(c, "total", "release")
    /\ UNCHANGED <<mapVars, permitVars, outboundAddrs, launchVars,
                   persistentHandler, run, removing>>

\* pickOutboundAddr: the address manager offers any address.
GroupCount(a) ==
    LET InGroup == {b \in Addrs : Group[b] = Group[a]}
    IN  SumFunctionOnSet(outboundAddrs, InGroup)

PickOutboundAddr(c, a) ==
    /\ pc[c] = "pick" /\ GoTo(c, "host") /\ UNCHANGED kind
    /\ GroupCount(a) < MaxPerOutboundGroup
    /\ addr' = [addr EXCEPT ![c] = a]
    /\ AddAddr(a) /\ held' = [held EXCEPT ![c] = @ \cup {"group"}]
    /\ UNCHANGED <<mapVars, totalNormalConnsSem, activeOutboundsSem,
                   perHostCounts, launchVars, runVars>>

PickFails(c) ==
    /\ Move(c, "pick", "unwind")
    /\ UNCHANGED <<mapVars, permitVars, outboundAddrs, launchVars, runVars>>

OutboundReserve(c) ==
    /\ kind[c] = "outbound" /\ pc[c] = "host" /\ UNCHANGED <<kind, addr>>
    /\ IF HostPermitFree(addr[c])
       THEN /\ GoTo(c, "dial") /\ outboundHandler' = "check"
            /\ ReserveHostPermit(c, addr[c])
       ELSE /\ GoTo(c, "unwind")
            /\ UNCHANGED <<outboundHandler, perHostCounts, held>>
    /\ UNCHANGED <<mapVars, totalNormalConnsSem, activeOutboundsSem,
                   outboundAddrs, launchVars, persistentHandler, run, removing>>

-----------------------------------------------------------------------------
\* listenHandler.  The rate limiter and the random drops turn away any
\* connection, which is no step.
AtListener(c) == kind[c] = "inbound" /\ pc[c] \in {"host", "total"}

Accept(c, a) ==
    /\ run \in {"running", "canceled"} /\ MutexFree
    /\ Cardinality({d \in Conns : AtListener(d)}) < Listeners
    /\ ~RejectDuplicateAddr(a)
    /\ Begin(c, "inbound", a, "host")
    /\ UNCHANGED <<mapVars, permitVars, outboundAddrs, launchVars, runVars>>

AcceptReserve(c) ==
    /\ kind[c] = "inbound" /\ pc[c] = "host" /\ UNCHANGED <<kind, addr>>
    /\ IF HostPermitFree(addr[c])
       THEN GoTo(c, "total") /\ ReserveHostPermit(c, addr[c])
       ELSE GoTo(c, "release") /\ UNCHANGED <<perHostCounts, held>>
    /\ UNCHANGED <<mapVars, totalNormalConnsSem, activeOutboundsSem,
                   outboundAddrs, launchVars, runVars>>

\* Deliberate slip: the permit of the host is kept when there is no other permit.
AcceptAcquireOrDrop(c) ==
    /\ kind[c] = "inbound" /\ pc[c] = "total" /\ UNCHANGED <<kind, addr>>
    /\ IF addr[c] \in Whitelisted
       THEN GoTo(c, "add") /\ UNCHANGED <<totalNormalConnsSem, held>>
       ELSE IF ~ShuttingDown /\ totalNormalConnsSem < MaxNormalConns
       THEN GoTo(c, "add") /\ AcquireTotal(c)
       ELSE GoTo(c, "free") /\ UNCHANGED <<totalNormalConnsSem, held>>
    /\ UNCHANGED <<mapVars, activeOutboundsSem, perHostCounts, outboundAddrs,
                   launchVars, runVars>>

AcceptAcquire(c) ==
    /\ kind[c] = "inbound" /\ pc[c] = "total" /\ UNCHANGED <<kind, addr>>
    /\ IF addr[c] \in Whitelisted
       THEN GoTo(c, "add") /\ UNCHANGED <<totalNormalConnsSem, held>>
       ELSE IF ~ShuttingDown /\ totalNormalConnsSem < MaxNormalConns
       THEN GoTo(c, "add") /\ AcquireTotal(c)
       ELSE GoTo(c, "release") /\ UNCHANGED <<totalNormalConnsSem, held>>
    /\ UNCHANGED <<mapVars, activeOutboundsSem, perHostCounts, outboundAddrs,
                   launchVars, runVars>>

\* The goroutine of an accepted connection: addActiveConn.
AcceptAdd(c) ==
    /\ MutexFree /\ Move(c, "add", "open")
    /\ active' = active \cup {c} /\ connIDByAddr' = Indexed(c)
    /\ UNCHANGED <<persistent, pending, permitVars, outboundAddrs, launchVars,
                   runVars>>
-----------------------------------------------------------------------------
\* dial.  The context of a manual connection belongs to its caller.
ContextDone(c) == ShuttingDown \/ c \in cancelled

DialCheck(c) ==
    /\ \/ ~ContextDone(c) /\ Move(c, "dial", "register")
       \/ (ContextDone(c) \/ kind[c] = "manual") /\ Move(c, "dial", "release")
    /\ UNCHANGED <<mapVars, permitVars, outboundAddrs, launchVars, runVars>>

RejectDial(c) ==
    IF kind[c] = "persistent" THEN RejectConnectedAddr(addr[c])
                              ELSE RejectDuplicateAddr(addr[c])

DialRegister(c) ==
    /\ MutexFree
    /\ \/ /\ RejectDial(c) /\ Move(c, "register", "release")
          /\ UNCHANGED <<pending, connIDByAddr>>
       \/ /\ ~RejectDial(c) /\ Move(c, "register", "dialing")
          /\ pending' = pending \cup {c} /\ connIDByAddr' = Indexed(c)
    /\ UNCHANGED <<persistent, active, permitVars, outboundAddrs, launchVars,
                   runVars>>

\* The dial fails, times out or is canceled.
DialFails(c) ==
    /\ MutexFree /\ Move(c, "dialing", "release")
    /\ pending' = pending \ {c}
    /\ connIDByAddr' = IF c \in pending THEN Unindexed(c) ELSE connIDByAddr
    /\ UNCHANGED <<persistent, active, permitVars, outboundAddrs, launchVars,
                   runVars>>

\* The dial succeeds.  It counts only if it has not been canceled meanwhile.
DialSucceeds(c) ==
    /\ MutexFree
    /\ \/ /\ c \in pending /\ Move(c, "dialing", "open")
          /\ pending' = pending \ {c} /\ active' = active \cup {c}
          /\ connIDByAddr' = Indexed(c)
       \/ /\ c \notin pending /\ Move(c, "dialing", "release")
          /\ UNCHANGED <<pending, active, connIDByAddr>>
    /\ UNCHANGED <<persistent, permitVars, outboundAddrs, launchVars, runVars>>

\* Conn.Close, by the peer's handlers, by Disconnect or Remove, or when the
\* goroutine of a persistent connection ends: removeActiveConn.
Close(c) ==
    /\ MutexFree /\ pc[c] \in {"open", "dropped"}
    /\ GoTo(c, "release") /\ UNCHANGED <<kind, addr>>
    /\ active' = active \ {c}
    /\ connIDByAddr' = IF c \in active THEN Unindexed(c) ELSE connIDByAddr
    /\ UNCHANGED <<persistent, pending, permitVars, outboundAddrs, launchVars,
                   runVars>>

\* The callbacks that give the permits back, in their order.
ReleaseOrder ==
    [none |-> <<>>, manual |-> <<"group", "total", "host">>,
     outbound |-> <<"group", "host", "total", "outbound">>,
     inbound |-> <<"total", "host">>, persistent |-> <<"host">>]

Before(k, p, q) ==
    LET order == ReleaseOrder[k]
    IN  \E m, n \in DOMAIN order : m < n /\ order[m] = p /\ order[n] = q

Less(n) == IF n = 0 THEN 0 ELSE n - 1

Release(c, p) ==
    /\ pc[c] \in {"release", "unwind"}
    /\ p \in held[c] /\ \A q \in held[c] : ~Before(kind[c], q, p)
    /\ held' = [held EXCEPT ![c] = @ \ {p}]
    /\ IF p = "group" THEN RemoveAddr(addr[c]) ELSE UNCHANGED outboundAddrs
    /\ perHostCounts' = IF p = "host"
                        THEN [perHostCounts EXCEPT ![Host[addr[c]]] = @ - 1]
                        ELSE perHostCounts
    /\ totalNormalConnsSem' = IF p = "total" THEN Less(totalNormalConnsSem)
                              ELSE totalNormalConnsSem
    /\ activeOutboundsSem' = IF p = "outbound" THEN Less(activeOutboundsSem)
                             ELSE activeOutboundsSem
    /\ UNCHANGED <<jobVars, mapVars, launchVars, runVars>>

\* Deliberate slip: a persistent connection is not tried again.
ReleasedForGood(c) ==
    /\ pc[c] \in {"release", "unwind"} /\ held[c] = {}
    /\ outboundHandler' = IF pc[c] = "unwind" THEN "check" ELSE outboundHandler
    /\ GoTo(c, "free") /\ kind' = [kind EXCEPT ![c] = "none"]
    /\ addr' = [addr EXCEPT ![c] = AnyAddr]
    /\ UNCHANGED <<mapVars, permitVars, outboundAddrs, launchVars,
                   persistentHandler, run, removing>>

\* Everything is given back: the goroutine ends, the outbound handler goes on
\* with its loop, a persistent connection waits for its next attempt.
Released(c) ==
    /\ pc[c] \in {"release", "unwind"} /\ held[c] = {}
    /\ outboundHandler' = IF pc[c] = "unwind" THEN "check" ELSE outboundHandler
    /\ IF kind[c] = "persistent" THEN GoTo(c, "wait") /\ UNCHANGED <<kind, addr>>
       ELSE /\ GoTo(c, "free") /\ kind' = [kind EXCEPT ![c] = "none"]
            /\ addr' = [addr EXCEPT ![c] = AnyAddr]
    /\ UNCHANGED <<mapVars, permitVars, outboundAddrs, launchVars,
                   persistentHandler, run, removing>>

-----------------------------------------------------------------------------
\* AddPersistent.  Its send on the channel may block, with the mutex held.
MaxPersistentsPerHost(a) ==
    /\ NeedsHostPermit(a)
    /\ Cardinality({d \in persistent : Host[addr[d]] = Host[a]}) + 1
           > MaxConnsPerHost

AddPersistent(c, a) ==
    /\ MutexFree /\ Cardinality(persistent) + 1 <= MaxPersistent
    /\ ~RejectDuplicateAddr(a) /\ ~MaxPersistentsPerHost(a)
    /\ Begin(c, "persistent", a, "queued")
    /\ persistent' = persistent \cup {c}
    /\ connIDByAddr' = [connIDByAddr EXCEPT ![a] = c]
    /\ AddAddr(a)
    /\ IF Len(runPersistentChan) < MaxPersistent
       THEN /\ runPersistentChan' = Append(runPersistentChan, c)
            /\ UNCHANGED connMtx
       ELSE connMtx' = c /\ UNCHANGED runPersistentChan
    /\ UNCHANGED <<pending, active, permitVars, launching, cancelable,
                   cancelled, runVars>>

AddPersistentSent ==
    /\ ~MutexFree /\ Len(runPersistentChan) < MaxPersistent
    /\ runPersistentChan' = Append(runPersistentChan, connMtx)
    /\ connMtx' = NoConn
    /\ UNCHANGED <<jobVars, mapVars, permitVars, outboundAddrs, launching,
                   cancelable, cancelled, runVars>>

\* persistentConnsHandler: takes an entry, then sets its cancel function and
\* starts its goroutine.
PersistentReceive ==
    /\ persistentHandler = "on" /\ launching = NoConn
    /\ runPersistentChan # <<>>
    /\ launching' = Head(runPersistentChan)
    /\ runPersistentChan' = Tail(runPersistentChan)
    /\ UNCHANGED <<jobVars, mapVars, permitVars, outboundAddrs, connMtx,
                   cancelable, cancelled, runVars>>

PersistentLaunch ==
    /\ launching # NoConn /\ MutexFree
    /\ cancelable' = cancelable \cup {launching}
    /\ Move(launching, "queued", "wait") /\ launching' = NoConn
    /\ UNCHANGED <<mapVars, permitVars, outboundAddrs, connMtx,
                   runPersistentChan, cancelled, runVars>>

PersistentHandlerEnds ==
    /\ ShuttingDown /\ persistentHandler = "on" /\ launching = NoConn
    /\ persistentHandler' = "done"
    /\ UNCHANGED <<jobVars, mapVars, permitVars, outboundAddrs, launchVars,
                   outboundHandler, run, removing>>

\* runPersistent: an attempt, once the host has a permit left, and the end.
\* The backoff only delays an attempt.
PersistentAttempt(c) ==
    /\ HostPermitFree(addr[c]) /\ Move(c, "wait", "dial")
    /\ ReserveHostPermit(c, addr[c])
    /\ UNCHANGED <<mapVars, totalNormalConnsSem, activeOutboundsSem,
                   outboundAddrs, launchVars, runVars>>

PersistentEnds(c) ==
    /\ ContextDone(c) /\ Move(c, "wait", "free")
    /\ cancelable' = cancelable \ {c} /\ cancelled' = cancelled \ {c}
    /\ UNCHANGED <<mapVars, permitVars, outboundAddrs, connMtx,
                   runPersistentChan, launching, runVars>>
-----------------------------------------------------------------------------
\* Disconnect of a pending connection.  Of an active one it is Close.
Disconnect(c) ==
    /\ MutexFree /\ c \in pending
    /\ pending' = pending \ {c} /\ connIDByAddr' = Unindexed(c)
    /\ IF c \in persistent THEN UNCHANGED outboundAddrs ELSE RemoveAddr(addr[c])
    /\ UNCHANGED <<jobVars, persistent, active, permitVars, launchVars, runVars>>

\* Remove.  The entry of an active connection goes at once, and the connection
\* is closed after the mutex has been released.
Known == persistent \cup pending \cup active

RemoveEntry(c) ==
    /\ MutexFree
    /\ persistent' = persistent \ {c}
    /\ pending' = pending \ {c} /\ active' = active \ {c}
    /\ connIDByAddr' = IF c \in Known
                       THEN [connIDByAddr EXCEPT ![addr[c]] = NoConn]
                       ELSE connIDByAddr
    /\ cancelled' = cancelled \cup ({c} \cap persistent \cap cancelable)
    /\ IF c \in persistent \cup pending THEN RemoveAddr(addr[c])
                                        ELSE UNCHANGED outboundAddrs
    /\ IF c \in active THEN GoTo(c, "dropped") ELSE UNCHANGED pc
    /\ UNCHANGED <<kind, addr, permitVars, connMtx, runPersistentChan,
                   launching, cancelable>>

Remove(c) == c \in Known /\ RemoveEntry(c) /\ UNCHANGED runVars

\* Run: the context is canceled and quit closed, then the listeners are
\* closed and the ids collected, then each is removed, then the goroutines
\* are waited for.
Shutdown ==
    /\ run = "running" /\ run' = "canceled"
    /\ UNCHANGED <<jobVars, mapVars, permitVars, outboundAddrs, launchVars,
                   outboundHandler, persistentHandler, removing>>

RunCollect ==
    /\ run = "canceled" /\ MutexFree
    /\ run' = "removing" /\ removing' = Known
    /\ UNCHANGED <<jobVars, mapVars, permitVars, outboundAddrs, launchVars,
                   outboundHandler, persistentHandler>>

RunRemove(c) ==
    /\ c \in removing /\ removing' = removing \ {c} /\ RemoveEntry(c)
    /\ UNCHANGED <<outboundHandler, persistentHandler, run>>

\* The goroutines that Run waits for.
Awaited(c) ==
    \/ AtListener(c) \/ pc[c] = "dropped"
    \/ kind[c] = "persistent" /\ pc[c] \notin {"free", "queued"}
    \/ kind[c] = "outbound" /\ pc[c] \notin {"free", "open"}

RunReturn ==
    /\ run = "removing" /\ removing = {} /\ run' = "returned"
    /\ outboundHandler = "done" /\ persistentHandler = "done"
    /\ \A c \in Conns : ~Awaited(c)
    /\ UNCHANGED <<jobVars, mapVars, permitVars, outboundAddrs, launchVars,
                   outboundHandler, persistentHandler, removing>>

-----------------------------------------------------------------------------
\* What the goroutine of a connection does by itself.
Proceed(c) ==
    \/ ConnectAcquire(c) \/ ConnectRefused(c) \/ ConnectGroup(c)
    \/ OutboundAcquireTotal(c) \/ PickFails(c) \/ OutboundReserve(c)
    \/ \E a \in KnownAddrs : PickOutboundAddr(c, a)
    \/ AcceptReserve(c) \/ AcceptAcquire(c) \/ AcceptAdd(c)
    \/ DialCheck(c) \/ DialRegister(c) \/ DialFails(c) \/ DialSucceeds(c)
    \/ Released(c) \/ \E p \in Permits : Release(c, p)
    \/ PersistentAttempt(c) \/ PersistentEnds(c)

\* What the handlers and Run do by themselves.
OutboundStep ==
    OutboundCheck \/ OutboundGivesUp \/ \E c \in Conns : OutboundAcquire(c)
PersistentStep == PersistentReceive \/ PersistentLaunch \/ PersistentHandlerEnds
RunStep == RunCollect \/ RunReturn \/ \E c \in Conns : RunRemove(c)

\* What the callers and the network do.
CallersStep ==
    \/ \E c \in Conns, a \in Addrs :
           Connect(c, a) \/ Accept(c, a) \/ AddPersistent(c, a)
    \/ \E c \in Conns : Close(c) \/ Disconnect(c) \/ Remove(c)
    \/ Shutdown

Next ==
    \/ CallersStep \/ \E c \in Conns : Proceed(c)
    \/ OutboundStep \/ AddPersistentSent \/ PersistentStep \/ RunStep

Spec == Init /\ [][Next]_vars
=============================================================================

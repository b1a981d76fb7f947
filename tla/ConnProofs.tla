----------------------------- MODULE ConnProofs -----------------------------
(***************************************************************************)
(* The limits of the connection manager hold, its permits come back, its   *)
(* persistent connections are served and the index of addresses is kept in *)
(* step, for any number of connections, hosts and listeners, and any       *)
(* limits.                                                                 *)
(*                                                                         *)
(* The inductive invariant says which permits a connection holds at each   *)
(* point of its goroutine, that the semaphores and the counters are the    *)
(* numbers of their holders, and where a persistent entry is.              *)
(***************************************************************************)
EXTENDS ConnProperties, FiniteSetTheorems, TLAPS

\* The permits that a connection holds from its dial to its end.
HostPermits(c) == IF NeedsHostPermit(addr[c]) THEN {"host"} ELSE {}
OwnPermits(c) ==
    HostPermits(c) \cup (IF Normal(c) THEN {"total"} ELSE {})
                   \cup (IF kind[c] = "outbound" THEN {"outbound"} ELSE {})
                   \cup (IF kind[c] \in {"manual", "outbound"} THEN {"group"} ELSE {})

\* What a connection holds at each point of its goroutine.
HeldAtPoint(c) ==
    /\ pc[c] = "free" => held[c] = {}
    /\ pc[c] \in {"queued", "wait"} => kind[c] = "persistent" /\ held[c] = {}
    /\ pc[c] = "total" =>
           \/ kind[c] = "outbound" /\ held[c] = {"outbound"}
           \/ kind[c] \in {"manual", "inbound"} /\ held[c] = HostPermits(c)
    /\ pc[c] = "pick" => kind[c] = "outbound" /\ held[c] = {"outbound", "total"}
    /\ pc[c] = "group" => kind[c] = "manual" /\ held[c] = {"total"} \cup HostPermits(c)
    /\ pc[c] = "host" =>
           \/ kind[c] = "outbound" /\ held[c] = {"outbound", "total", "group"}
           \/ kind[c] = "inbound" /\ held[c] = {}
    /\ pc[c] = "add" => kind[c] = "inbound" /\ held[c] = OwnPermits(c)
    /\ pc[c] \in {"dial", "register", "dialing", "open", "dropped"} =>
           held[c] = OwnPermits(c)
    /\ pc[c] = "unwind" => kind[c] = "outbound"

PlacedAt(c) ==
    /\ HeldAtPoint(c)
    /\ c \in pending => pc[c] = "dialing"
    /\ c \in active => pc[c] = "open"
Placed == \A c \in Conns : PlacedAt(c)

\* The semaphores and the counters are the numbers of their holders.
Holders(p) == {c \in Conns : p \in held[c]}
HostHolders(h) == {c \in Holders("host") : Host[addr[c]] = h}
GroupHolders(a) == {c \in Holders("group") : addr[c] = a}
PersistentAt(a) == {c \in persistent : addr[c] = a}

TotalCounted ==
    /\ totalNormalConnsSem = Cardinality(Holders("total"))
    /\ totalNormalConnsSem <= MaxNormalConns
OutboundCounted ==
    /\ activeOutboundsSem = Cardinality(Holders("outbound"))
    /\ activeOutboundsSem <= TargetOutbound
HostsCounted ==
    \A h \in Hosts : /\ perHostCounts[h] = Cardinality(HostHolders(h))
                     /\ perHostCounts[h] <= MaxConnsPerHost
\* Disconnect and Remove take the address of a pending connection out of its
\* group and its last callback does so again, so this is only a bound.
GroupsCounted ==
    \A a \in Addrs :
        outboundAddrs[a]
            <= Cardinality(GroupHolders(a)) + Cardinality(PersistentAt(a))
Counted == TotalCounted /\ OutboundCounted /\ HostsCounted /\ GroupsCounted

\* Where a persistent entry is, and what its cancel function has done.
GoroutinePoints ==
    {"wait", "dial", "register", "dialing", "open", "dropped", "release"}
PersistentKind ==
    \A c \in persistent : kind[c] = "persistent" /\ c \notin cancelled
CancelPlaced ==
    \A c \in cancelable \cup cancelled :
        pc[c] \in GoroutinePoints /\ kind[c] = "persistent"
PersistentPlaced ==
    /\ PersistentServed /\ PersistentKind /\ CancelPlaced
    /\ Cardinality(persistent) <= MaxPersistent

\* The part of the type that the goroutines of the connections change.
JobsType ==
    /\ kind \in [Conns -> Kinds] /\ addr \in [Conns -> Addrs]
    /\ pc \in [Conns -> Points] /\ held \in [Conns -> SUBSET Permits]

ConnInv == TypeOK /\ Placed /\ Counted /\ PersistentPlaced

-----------------------------------------------------------------------------
\* The constants and the definitions of the operators.
LEMMA AnyAddrIsOne == AnyAddr \in Addrs
  BY Zenon, AddrsAssumption DEF AnyAddr

LEMMA HostIsOne == ASSUME NEW a \in Addrs PROVE Host[a] \in Hosts
  BY Zenon DEF Hosts

\* What a reservation does, with and without a limit for the host.
LEMMA ReserveStep ==
    ASSUME NEW c \in Conns, NEW a \in Addrs, ReserveHostPermit(c, a)
    PROVE  \/ /\ NeedsHostPermit(a)
              /\ perHostCounts' = [perHostCounts EXCEPT ![Host[a]] = @ + 1]
              /\ held' = [held EXCEPT ![c] = @ \cup {"host"}]
           \/ ~NeedsHostPermit(a) /\ perHostCounts' = perHostCounts /\ held' = held
  BY Zenon DEF ReserveHostPermit

LEMMA ReserveType ==
    ASSUME TypeOK, NEW c \in Conns, NEW a \in Addrs, ReserveHostPermit(c, a)
    PROVE  /\ held' \in [Conns -> SUBSET Permits]
           /\ perHostCounts' \in [Hosts -> Nat]
<1>1. CASE held' = held /\ perHostCounts' = perHostCounts
  BY Zenon, <1>1 DEF TypeOK
<1>2. CASE /\ perHostCounts' = [perHostCounts EXCEPT ![Host[a]] = @ + 1]
           /\ held' = [held EXCEPT ![c] = @ \cup {"host"}]
  BY <1>2, HostIsOne DEF TypeOK, Permits
<1> QED  BY <1>1, <1>2, ReserveStep

-----------------------------------------------------------------------------
\* The state keeps its type, given that a permit of a host that is given back is
\* one that has been counted.
HostPermitsCounted ==
    \A c \in Conns : "host" \in held[c] => perHostCounts[Host[addr[c]]] > 0

LEMMA TypeStep == ConnInv /\ HostPermitsCounted /\ [Next]_vars => TypeOK'
<1> SUFFICES ASSUME ConnInv, HostPermitsCounted, [Next]_vars PROVE TypeOK'
  OBVIOUS
<1>t. TypeOK
  BY Zenon DEF ConnInv
<1>1. ASSUME NEW c \in Conns, NEW a \in Addrs, Connect(c, a) PROVE TypeOK'
  <2>1. /\ kind' = [kind EXCEPT ![c] = "manual"] /\ addr' = [addr EXCEPT ![c] = a]
        /\ pc' = [pc EXCEPT ![c] = "total"]
    BY Zenon, <1>1 DEF Connect, Begin, GoTo
  <2>2. /\ held' \in [Conns -> SUBSET Permits]
        /\ perHostCounts' \in [Hosts -> Nat]
    BY Zenon, <1>t, <1>1, ReserveType DEF Connect
  <2> QED
    BY Zenon, <1>t, <1>1, <2>1, <2>2
    DEF Connect, TypeOK, Kinds, Points, mapVars, launchVars, runVars
<1>2. ASSUME NEW c \in Conns, NEW a \in Addrs, Accept(c, a) PROVE TypeOK'
  <2>1. /\ kind' = [kind EXCEPT ![c] = "inbound"] /\ addr' = [addr EXCEPT ![c] = a]
        /\ pc' = [pc EXCEPT ![c] = "host"]
    BY Zenon, <1>2 DEF Accept, Begin, GoTo
  <2> QED
    BY Zenon, <1>t, <1>2, <2>1
    DEF Accept, TypeOK, Kinds, Points, permitVars, mapVars, launchVars, runVars
<1>3. ASSUME NEW c \in Conns, NEW a \in Addrs, AddPersistent(c, a) PROVE TypeOK'
  <2>1. /\ kind' = [kind EXCEPT ![c] = "persistent"] /\ addr' = [addr EXCEPT ![c] = a]
        /\ pc' = [pc EXCEPT ![c] = "queued"]
    BY Zenon, <1>3 DEF AddPersistent, Begin, GoTo
  <2>2. runPersistentChan' \in Seq(Conns) /\ connMtx' \in Conns \cup {NoConn}
    <3>1. CASE runPersistentChan' = Append(runPersistentChan, c) /\ connMtx' = connMtx
      BY <1>t, <3>1 DEF TypeOK
    <3>2. CASE runPersistentChan' = runPersistentChan /\ connMtx' = c
      BY Zenon, <1>t, <3>2 DEF TypeOK
    <3> QED  BY <1>3, <3>1, <3>2 DEF AddPersistent
  <2> QED
    BY <1>t, <1>3, <2>1, <2>2
    DEF AddPersistent, AddAddr, TypeOK, Kinds, Points, permitVars, runVars
<1>4. ASSUME NEW c \in Conns, OutboundAcquire(c) PROVE TypeOK'
  <2>1. /\ kind' = [kind EXCEPT ![c] = "outbound"] /\ addr' = [addr EXCEPT ![c] = AnyAddr]
        /\ pc' = [pc EXCEPT ![c] = "total"]
    BY Zenon, <1>4 DEF OutboundAcquire, Begin, GoTo
  <2> QED
    BY <1>t, <1>4, <2>1, AnyAddrIsOne
    DEF OutboundAcquire, TypeOK, Kinds, Points, Permits, mapVars, launchVars
<1>5. ASSUME NEW c \in Conns, ConnectAcquire(c) \/ OutboundAcquireTotal(c)
      PROVE  TypeOK'
  <2>1. AcquireTotal(c)
    BY Zenon, <1>5 DEF ConnectAcquire, OutboundAcquireTotal
  <2>2. totalNormalConnsSem' \in Nat /\ held' \in [Conns -> SUBSET Permits]
    BY <1>t, <2>1 DEF AcquireTotal, TypeOK, Permits
  <2> QED
    BY Zenon, <1>t, <1>5, <2>2
    DEF ConnectAcquire, OutboundAcquireTotal, Move, GoTo, TypeOK, Points,
        mapVars, launchVars, runVars
<1>5a. ASSUME NEW c \in Conns, ConnectRefused(c) \/ PickFails(c) PROVE TypeOK'
  BY Zenon, <1>t, <1>5a
  DEF ConnectRefused, PickFails, Move, GoTo, TypeOK, Points, mapVars,
      permitVars, launchVars, runVars
<1>5b. ASSUME NEW c \in Conns, ConnectGroup(c) PROVE TypeOK'
  BY <1>t, <1>5b
  DEF ConnectGroup, AddAddr, Move, GoTo, TypeOK, Points, Permits, mapVars,
      launchVars, runVars
<1>6. ASSUME NEW c \in Conns, NEW a \in KnownAddrs, PickOutboundAddr(c, a)
      PROVE  TypeOK'
  <2>1. a \in Addrs
    BY Zenon, AddrsAssumption
  <2> QED
    BY <1>t, <1>6, <2>1
    DEF PickOutboundAddr, AddAddr, GoTo, TypeOK, Points, Permits, mapVars,
        launchVars, runVars
<1>7. ASSUME NEW c \in Conns,
             OutboundReserve(c) \/ AcceptReserve(c) \/ PersistentAttempt(c)
      PROVE  TypeOK'
  <2>1. /\ held' \in [Conns -> SUBSET Permits]
        /\ perHostCounts' \in [Hosts -> Nat]
    <3>1. addr[c] \in Addrs
      BY Zenon, <1>t DEF TypeOK
    <3>2. \/ ReserveHostPermit(c, addr[c])
          \/ held' = held /\ perHostCounts' = perHostCounts
      BY Zenon, <1>7 DEF OutboundReserve, AcceptReserve, PersistentAttempt
    <3> QED  BY <1>t, <3>1, <3>2, ReserveType DEF TypeOK
  <2>2. /\ kind' = kind /\ addr' = addr
        /\ \E point \in Points : pc' = [pc EXCEPT ![c] = point]
        /\ outboundHandler' \in {outboundHandler, "check"}
    BY Zenon, <1>7
    DEF OutboundReserve, AcceptReserve, PersistentAttempt, Move, GoTo, Points,
        runVars
  <2>3. pc' \in [Conns -> Points]
    BY Zenon, <1>t, <2>2 DEF TypeOK
  <2> QED
    BY Zenon, <1>t, <1>7, <2>1, <2>2, <2>3
    DEF OutboundReserve, AcceptReserve, PersistentAttempt, TypeOK, mapVars,
        launchVars, runVars
<1>7a. ASSUME NEW c \in Conns, AcceptAcquire(c) PROVE TypeOK'
  <2>1. \/ totalNormalConnsSem' = totalNormalConnsSem /\ held' = held
        \/ AcquireTotal(c)
    BY Zenon, <1>7a DEF AcceptAcquire
  <2>2. \E point \in Points : pc' = [pc EXCEPT ![c] = point]
    BY Zenon, <1>7a DEF AcceptAcquire, GoTo, Points
  <2>3. pc' \in [Conns -> Points]
    BY Zenon, <1>t, <2>2 DEF TypeOK
  <2>4. totalNormalConnsSem' \in Nat /\ held' \in [Conns -> SUBSET Permits]
    <3>1. CASE totalNormalConnsSem' = totalNormalConnsSem /\ held' = held
      BY Zenon, <1>t, <3>1 DEF TypeOK
    <3>2. CASE AcquireTotal(c)
      BY <1>t, <3>2 DEF AcquireTotal, TypeOK, Permits
    <3> QED  BY <2>1, <3>1, <3>2
  <2> QED
    BY Zenon, <1>t, <1>7a, <2>3, <2>4
    DEF AcceptAcquire, TypeOK, mapVars, launchVars, runVars
<1>8. ASSUME NEW c \in Conns,
             \/ AcceptAdd(c) \/ DialCheck(c) \/ DialRegister(c) \/ DialFails(c)
             \/ DialSucceeds(c) \/ Close(c) \/ Disconnect(c)
      PROVE  TypeOK'
  <2>1. connIDByAddr' \in {connIDByAddr, Indexed(c), Unindexed(c)}
    BY Zenon, <1>8
    DEF AcceptAdd, DialCheck, DialRegister, DialFails, DialSucceeds, Close,
        Disconnect, mapVars
  <2>2. connIDByAddr' \in [Addrs -> Conns \cup {NoConn}]
    BY Zenon, <1>t, <2>1 DEF Indexed, Unindexed, TypeOK
  <2>3. /\ pc' = pc \/ \E point \in Points : pc' = [pc EXCEPT ![c] = point]
        /\ kind' = kind /\ addr' = addr
    BY Zenon, <1>8
    DEF AcceptAdd, DialCheck, DialRegister, DialFails, DialSucceeds, Close,
        Disconnect, jobVars, Move, GoTo, Points
  <2>4. pc' \in [Conns -> Points]
    BY Zenon, <1>t, <2>3 DEF TypeOK
  <2>5. outboundAddrs' \in [Addrs -> Nat]
    BY <1>t, <1>8
    DEF AcceptAdd, DialCheck, DialRegister, DialFails, DialSucceeds, Close,
        Disconnect, RemoveAddr, TypeOK
  <2>6. /\ persistent' = persistent /\ pending' \subseteq Conns
        /\ active' \subseteq Conns
    BY Zenon, <1>t, <1>8
    DEF AcceptAdd, DialCheck, DialRegister, DialFails, DialSucceeds, Close,
        Disconnect, mapVars, TypeOK
  <2>7. UNCHANGED <<permitVars, launchVars, runVars>>
    BY Zenon, <1>8
    DEF AcceptAdd, DialCheck, DialRegister, DialFails, DialSucceeds, Close,
        Disconnect
  <2> QED
    BY Zenon, <1>t, <2>2, <2>3, <2>4, <2>5, <2>6, <2>7
    DEF TypeOK, permitVars, launchVars, runVars
<1>9. ASSUME NEW c \in Conns, NEW p \in Permits, Release(c, p) PROVE TypeOK'
  <2>1. p = "host" => perHostCounts[Host[addr[c]]] - 1 \in Nat
    <3>1. /\ p = "host" => perHostCounts[Host[addr[c]]] > 0
          /\ perHostCounts[Host[addr[c]]] \in Nat
      BY Zenon, <1>t, <1>9, HostIsOne DEF HostPermitsCounted, Release, TypeOK
    <3> QED  BY <3>1
  <2>2. perHostCounts' \in [Hosts -> Nat]
    BY Zenon, <1>t, <1>9, <2>1, HostIsOne DEF Release, TypeOK
  <2>3. totalNormalConnsSem' \in Nat /\ activeOutboundsSem' \in Nat
    BY <1>t, <1>9 DEF Release, Less, TypeOK
  <2>4. outboundAddrs' \in [Addrs -> Nat]
    BY <1>t, <1>9 DEF Release, RemoveAddr, TypeOK
  <2>5. held' \in [Conns -> SUBSET Permits]
    BY Zenon, <1>t, <1>9 DEF Release, TypeOK
  <2> QED
    BY Zenon, <1>t, <1>9, <2>2, <2>3, <2>4, <2>5
    DEF Release, TypeOK, jobVars, mapVars, launchVars, runVars
<1>10. ASSUME NEW c \in Conns, Released(c) PROVE TypeOK'
  <2>1. CASE kind[c] = "persistent"
    BY Zenon, <1>t, <1>10, <2>1
    DEF Released, GoTo, TypeOK, Points, mapVars, permitVars, launchVars
  <2>2. CASE kind[c] # "persistent"
    BY Zenon, <1>t, <1>10, <2>2, AnyAddrIsOne
    DEF Released, GoTo, TypeOK, Kinds, Points, mapVars, permitVars, launchVars
  <2> QED  BY <2>1, <2>2
<1>10a. ASSUME NEW c \in Conns, PersistentEnds(c) PROVE TypeOK'
  BY Zenon, <1>t, <1>10a
  DEF PersistentEnds, Move, GoTo, TypeOK, Points, mapVars, permitVars, runVars
<1>11. ASSUME NEW c \in Conns, Remove(c) \/ RunRemove(c) PROVE TypeOK'
  <2>1. RemoveEntry(c)
    BY Zenon, <1>11 DEF Remove, RunRemove
  <2>2. /\ outboundAddrs' = outboundAddrs \/ RemoveAddr(addr[c])
        /\ \/ connIDByAddr' = connIDByAddr
           \/ connIDByAddr' = [connIDByAddr EXCEPT ![addr[c]] = NoConn]
    BY Zenon, <2>1 DEF RemoveEntry
  <2>2a. connIDByAddr' \in [Addrs -> Conns \cup {NoConn}]
    BY Zenon, <1>t, <2>2 DEF TypeOK
  <2>2b. outboundAddrs' \in [Addrs -> Nat]
    <3>1. ASSUME RemoveAddr(addr[c]) PROVE outboundAddrs' \in [Addrs -> Nat]
      BY <1>t, <3>1 DEF RemoveAddr, TypeOK
    <3> QED  BY <1>t, <2>2, <3>1 DEF TypeOK
  <2>3. pc' \in [Conns -> Points]
    BY Zenon, <1>t, <2>1 DEF RemoveEntry, GoTo, TypeOK, Points
  <2>4. /\ UNCHANGED <<outboundHandler, persistentHandler, run>>
        /\ removing' \subseteq Conns
    BY Zenon, <1>t, <1>11 DEF Remove, RunRemove, runVars, TypeOK
  <2> QED
    BY Zenon, <1>t, <2>1, <2>2a, <2>2b, <2>3, <2>4 DEF RemoveEntry, TypeOK, permitVars
<1>12. CASE OutboundCheck \/ OutboundGivesUp
  <2>1. CASE UNCHANGED jobVars
    BY Zenon, <1>t, <1>12, <2>1
    DEF OutboundCheck, OutboundGivesUp, TypeOK, jobVars, mapVars, permitVars,
        launchVars
  <2>2. ASSUME OutboundGivesUp, NEW c \in Conns, Move(c, "total", "release")
        PROVE  TypeOK'
    BY Zenon, <1>t, <2>2
    DEF OutboundGivesUp, Move, GoTo, TypeOK, Points, mapVars, permitVars,
        launchVars
  <2> QED  BY <1>12, <2>1, <2>2 DEF OutboundCheck, OutboundGivesUp
<1>13. CASE AddPersistentSent \/ PersistentReceive \/ PersistentLaunch
  <2>1. CASE AddPersistentSent
    <3>1. connMtx \in Conns
      BY Zenon, <1>t, <2>1 DEF AddPersistentSent, MutexFree, TypeOK
    <3> QED
      BY <1>t, <2>1, <3>1
      DEF AddPersistentSent, TypeOK, jobVars, mapVars, permitVars, runVars
  <2>2. CASE PersistentReceive
    <3>1. /\ Head(runPersistentChan) \in Conns
          /\ Tail(runPersistentChan) \in Seq(Conns)
      BY <1>t, <2>2 DEF PersistentReceive, TypeOK
    <3> QED
      BY Zenon, <1>t, <2>2, <3>1
      DEF PersistentReceive, TypeOK, jobVars, mapVars, permitVars, runVars
  <2>3. CASE PersistentLaunch
    BY Zenon, <1>t, <2>3
    DEF PersistentLaunch, Move, GoTo, TypeOK, Points, mapVars, permitVars,
        runVars
  <2> QED  BY <1>13, <2>1, <2>2, <2>3
<1>14. CASE PersistentHandlerEnds \/ Shutdown \/ RunCollect \/ RunReturn
  BY Zenon, <1>t, <1>14
  DEF PersistentHandlerEnds, Shutdown, RunCollect, RunReturn, Known, TypeOK,
      jobVars, mapVars, permitVars, launchVars
<1>15. CASE UNCHANGED vars
  BY Zenon, <1>t, <1>15
  DEF TypeOK, vars, jobVars, mapVars, permitVars, launchVars, runVars
<1> QED
  BY Zenon, <1>1, <1>2, <1>3, <1>4, <1>5, <1>6, <1>7, <1>8, <1>9, <1>10, <1>11,
     <1>5a, <1>5b, <1>7a, <1>10a, <1>12, <1>13, <1>14, <1>15
  DEF Next, CallersStep, Proceed, OutboundStep, PersistentStep, RunStep

-----------------------------------------------------------------------------
\* A step moves one connection at most.
OnlyAt(c) ==
    \A d \in Conns \ {c} :
        /\ kind'[d] = kind[d] /\ addr'[d] = addr[d] /\ pc'[d] = pc[d]
        /\ held'[d] = held[d]
        /\ d \in pending' => d \in pending
        /\ d \in active' => d \in active

LEMMA PlacedOthers ==
    ASSUME Placed, NEW c \in Conns, OnlyAt(c), PlacedAt(c)' PROVE Placed'
<1> SUFFICES ASSUME NEW d \in Conns \ {c} PROVE PlacedAt(d)'
  BY Zenon DEF Placed
<1>1. /\ kind'[d] = kind[d] /\ addr'[d] = addr[d] /\ pc'[d] = pc[d]
      /\ held'[d] = held[d]
      /\ d \in pending' => d \in pending
      /\ d \in active' => d \in active
  BY Zenon DEF OnlyAt
<1>2. PlacedAt(d)
  BY Zenon DEF Placed
<1>3. HostPermits(d)' = HostPermits(d) /\ OwnPermits(d)' = OwnPermits(d)
  BY Zenon, <1>1 DEF OwnPermits, HostPermits, Normal, NeedsHostPermit
<1>4. HeldAtPoint(d)'
  BY Zenon, <1>1, <1>2, <1>3 DEF PlacedAt, HeldAtPoint
<1> QED  BY <1>1, <1>2, <1>4 DEF PlacedAt

\* What a connection holds fits the point that its goroutine has reached.
LEMMA PlacedStep == ConnInv /\ [Next]_vars => Placed'
<1> SUFFICES ASSUME ConnInv, [Next]_vars PROVE Placed'
  OBVIOUS
<1>t. JobsType /\ Placed
  BY Zenon DEF ConnInv, TypeOK, JobsType
<1>1. ASSUME NEW c \in Conns, NEW a \in Addrs, Connect(c, a) PROVE Placed'
  <2>1. /\ kind' = [kind EXCEPT ![c] = "manual"] /\ addr' = [addr EXCEPT ![c] = a]
        /\ pc[c] = "free" /\ pc' = [pc EXCEPT ![c] = "total"]
    BY Zenon, <1>1 DEF Connect, Begin, Unused, GoTo
  <2>2. /\ held[c] = {} /\ c \notin pending /\ c \notin active
        /\ pending' = pending /\ active' = active
    BY Zenon, <1>t, <1>1, <2>1 DEF Placed, PlacedAt, HeldAtPoint, Connect, mapVars
  <2>3. \/ NeedsHostPermit(a) /\ held' = [held EXCEPT ![c] = @ \cup {"host"}]
        \/ ~NeedsHostPermit(a) /\ held' = held
    BY Zenon, <1>1, ReserveStep DEF Connect
  <2>4. HostPermits(c)' = held'[c]
    BY Zenon, <1>t, <2>1, <2>2, <2>3 DEF HostPermits, NeedsHostPermit, JobsType
  <2>5. HeldAtPoint(c)'
    BY Zenon, <1>t, <2>1, <2>4 DEF HeldAtPoint, JobsType
  <2>6. OnlyAt(c)
    BY Zenon, <1>t, <2>1, <2>2, <2>3 DEF OnlyAt, JobsType
  <2> QED  BY <1>t, <2>2, <2>5, <2>6, PlacedOthers DEF PlacedAt
<1>2. ASSUME NEW c \in Conns, NEW a \in Addrs, Accept(c, a) PROVE Placed'
  <2>1. /\ kind' = [kind EXCEPT ![c] = "inbound"] /\ addr' = [addr EXCEPT ![c] = a]
        /\ pc[c] = "free" /\ pc' = [pc EXCEPT ![c] = "host"]
    BY Zenon, <1>2 DEF Accept, Begin, Unused, GoTo
  <2>2. /\ held[c] = {} /\ c \notin pending /\ c \notin active
        /\ pending' = pending /\ active' = active /\ held' = held
    BY Zenon, <1>t, <1>2, <2>1
    DEF Placed, PlacedAt, HeldAtPoint, Accept, mapVars, permitVars
  <2>3. HeldAtPoint(c)'
    BY Zenon, <1>t, <2>1, <2>2 DEF HeldAtPoint, JobsType
  <2>4. OnlyAt(c)
    BY Zenon, <1>t, <2>1, <2>2 DEF OnlyAt, JobsType
  <2> QED  BY <1>t, <2>2, <2>3, <2>4, PlacedOthers DEF PlacedAt
<1>3. ASSUME NEW c \in Conns, NEW a \in Addrs, AddPersistent(c, a) PROVE Placed'
  <2>1. /\ kind' = [kind EXCEPT ![c] = "persistent"]
        /\ addr' = [addr EXCEPT ![c] = a]
        /\ pc[c] = "free" /\ pc' = [pc EXCEPT ![c] = "queued"]
    BY Zenon, <1>3 DEF AddPersistent, Begin, Unused, GoTo
  <2>2. /\ held[c] = {} /\ c \notin pending /\ c \notin active
        /\ pending' = pending /\ active' = active /\ held' = held
    BY Zenon, <1>t, <1>3, <2>1
    DEF Placed, PlacedAt, HeldAtPoint, AddPersistent, permitVars
  <2>3. HeldAtPoint(c)'
    BY Zenon, <1>t, <2>1, <2>2 DEF HeldAtPoint, JobsType
  <2>4. OnlyAt(c)
    BY Zenon, <1>t, <2>1, <2>2 DEF OnlyAt, JobsType
  <2> QED  BY <1>t, <2>2, <2>3, <2>4, PlacedOthers DEF PlacedAt
<1>4. ASSUME NEW c \in Conns, OutboundAcquire(c) PROVE Placed'
  <2>1. /\ kind' = [kind EXCEPT ![c] = "outbound"]
        /\ addr' = [addr EXCEPT ![c] = AnyAddr]
        /\ pc[c] = "free" /\ pc' = [pc EXCEPT ![c] = "total"]
    BY Zenon, <1>4 DEF OutboundAcquire, Begin, Unused, GoTo
  <2>2. /\ c \notin pending /\ c \notin active
        /\ pending' = pending /\ active' = active
        /\ held' = [held EXCEPT ![c] = {"outbound"}]
    BY Zenon, <1>t, <1>4, <2>1
    DEF Placed, PlacedAt, HeldAtPoint, OutboundAcquire, mapVars
  <2>3. HeldAtPoint(c)'
    BY Zenon, <1>t, <2>1, <2>2 DEF HeldAtPoint, JobsType
  <2>4. OnlyAt(c)
    BY Zenon, <1>t, <2>1, <2>2 DEF OnlyAt, JobsType
  <2> QED  BY <1>t, <2>2, <2>3, <2>4, PlacedOthers DEF PlacedAt
<1>5. ASSUME NEW c \in Conns, ConnectAcquire(c) \/ OutboundAcquireTotal(c)
      PROVE  Placed'
  <2>1. /\ kind' = kind /\ addr' = addr /\ pending' = pending /\ active' = active
        /\ \/ kind[c] = "manual" /\ pc' = [pc EXCEPT ![c] = "group"]
           \/ kind[c] = "outbound" /\ pc' = [pc EXCEPT ![c] = "pick"]
        /\ pc[c] = "total" /\ held' = [held EXCEPT ![c] = @ \cup {"total"}]
    BY Zenon, <1>5
    DEF ConnectAcquire, OutboundAcquireTotal, AcquireTotal, Move, GoTo, mapVars
  <2>2. PlacedAt(c)'
    <3>1. PlacedAt(c) /\ HostPermits(c)' = HostPermits(c)
      BY Zenon, <1>t, <2>1 DEF Placed, HostPermits, NeedsHostPermit
    <3> QED  BY <1>t, <2>1, <3>1 DEF PlacedAt, HeldAtPoint, JobsType
  <2>3. OnlyAt(c)
    BY Zenon, <1>t, <2>1 DEF OnlyAt, JobsType
  <2> QED  BY <1>t, <2>2, <2>3, PlacedOthers
<1>6. ASSUME NEW c \in Conns,
             \/ ConnectRefused(c) \/ PickFails(c)
             \/ OutboundGivesUp /\ Move(c, "total", "release")
      PROVE  Placed'
  <2>1. /\ kind' = kind /\ addr' = addr /\ pending' = pending /\ active' = active
        /\ \/ pc[c] = "total" /\ pc' = [pc EXCEPT ![c] = "release"]
           \/ pc[c] = "pick" /\ pc' = [pc EXCEPT ![c] = "unwind"]
        /\ held' = held
    BY Zenon, <1>6
    DEF ConnectRefused, PickFails, OutboundGivesUp, Move, GoTo, mapVars, permitVars
  <2>2. PlacedAt(c)'
    BY Zenon, <1>t, <2>1 DEF Placed, PlacedAt, HeldAtPoint, JobsType
  <2>3. OnlyAt(c)
    BY Zenon, <1>t, <2>1 DEF OnlyAt, JobsType
  <2> QED  BY <1>t, <2>2, <2>3, PlacedOthers
<1>7. ASSUME NEW c \in Conns, ConnectGroup(c) PROVE Placed'
  <2>1. /\ kind' = kind /\ addr' = addr /\ pending' = pending /\ active' = active
        /\ pc[c] = "group" /\ pc' = [pc EXCEPT ![c] = "dial"]
        /\ held' = [held EXCEPT ![c] = @ \cup {"group"}]
    BY Zenon, <1>7 DEF ConnectGroup, Move, GoTo, mapVars
  <2>2. PlacedAt(c)'
    <3>1. PlacedAt(c) /\ OwnPermits(c)' = {"total"} \cup HostPermits(c) \cup {"group"}
      BY Zenon, <1>t, <2>1
      DEF Placed, PlacedAt, HeldAtPoint, OwnPermits, HostPermits, Normal,
          NeedsHostPermit
    <3> QED  BY Zenon, <1>t, <2>1, <3>1 DEF PlacedAt, HeldAtPoint, JobsType
  <2>3. OnlyAt(c)
    BY Zenon, <1>t, <2>1 DEF OnlyAt, JobsType
  <2> QED  BY <1>t, <2>2, <2>3, PlacedOthers
<1>8. ASSUME NEW c \in Conns, NEW a \in KnownAddrs, PickOutboundAddr(c, a)
      PROVE  Placed'
  <2>1. /\ kind' = kind /\ addr' = [addr EXCEPT ![c] = a]
        /\ pending' = pending /\ active' = active
        /\ pc[c] = "pick" /\ pc' = [pc EXCEPT ![c] = "host"]
        /\ held' = [held EXCEPT ![c] = @ \cup {"group"}]
    BY Zenon, <1>8 DEF PickOutboundAddr, GoTo, mapVars
  <2>2. PlacedAt(c)'
    BY Zenon, <1>t, <2>1 DEF Placed, PlacedAt, HeldAtPoint, JobsType
  <2>3. OnlyAt(c)
    BY Zenon, <1>t, <2>1 DEF OnlyAt, JobsType
  <2> QED  BY <1>t, <2>2, <2>3, PlacedOthers
<1>9. ASSUME NEW c \in Conns, OutboundReserve(c) PROVE Placed'
  <2>1. /\ kind' = kind /\ addr' = addr /\ pending' = pending /\ active' = active
        /\ kind[c] = "outbound" /\ pc[c] = "host"
        /\ \/ pc' = [pc EXCEPT ![c] = "unwind"] /\ held' = held
           \/ pc' = [pc EXCEPT ![c] = "dial"] /\ ReserveHostPermit(c, addr[c])
    BY Zenon, <1>9 DEF OutboundReserve, GoTo, mapVars
  <2>2. ASSUME pc' = [pc EXCEPT ![c] = "dial"], ReserveHostPermit(c, addr[c])
        PROVE  Placed'
    <3>1. \/ NeedsHostPermit(addr[c]) /\ held' = [held EXCEPT ![c] = @ \cup {"host"}]
          \/ ~NeedsHostPermit(addr[c]) /\ held' = held
      BY Zenon, <1>t, <2>2, ReserveStep DEF JobsType
    <3>2. OwnPermits(c)' = {"outbound", "total", "group"} \cup HostPermits(c)
      BY Zenon, <2>1 DEF OwnPermits, HostPermits, Normal, NeedsHostPermit
    <3>3. PlacedAt(c) /\ held[c] = {"outbound", "total", "group"}
      BY Zenon, <1>t, <2>1 DEF Placed, PlacedAt, HeldAtPoint
    <3>4. held'[c] = OwnPermits(c)'
      BY Zenon, <1>t, <3>1, <3>2, <3>3 DEF HostPermits, JobsType
    <3>5. PlacedAt(c)'
      BY Zenon, <1>t, <2>1, <2>2, <3>3, <3>4 DEF PlacedAt, HeldAtPoint, JobsType
    <3>6. OnlyAt(c)
      BY Zenon, <1>t, <2>1, <2>2, <3>1 DEF OnlyAt, JobsType
    <3> QED  BY <1>t, <3>5, <3>6, PlacedOthers
  <2>3. ASSUME pc' = [pc EXCEPT ![c] = "unwind"], held' = held PROVE Placed'
    <3>1. PlacedAt(c)'
      BY Zenon, <1>t, <2>1, <2>3 DEF Placed, PlacedAt, HeldAtPoint, JobsType
    <3>2. OnlyAt(c)
      BY Zenon, <1>t, <2>1, <2>3 DEF OnlyAt, JobsType
    <3> QED  BY <1>t, <3>1, <3>2, PlacedOthers
  <2> QED  BY <2>1, <2>2, <2>3
<1>10. ASSUME NEW c \in Conns, AcceptReserve(c) \/ PersistentAttempt(c) PROVE Placed'
  <2>1. /\ kind' = kind /\ addr' = addr /\ pending' = pending /\ active' = active
        /\ (kind[c] = "inbound" /\ pc[c] = "host") \/ pc[c] = "wait"
        /\ \/ /\ pc[c] = "host" /\ pc' = [pc EXCEPT ![c] = "release"]
              /\ held' = held
           \/ /\ pc' = [pc EXCEPT ![c] = IF pc[c] = "host" THEN "total" ELSE "dial"]
              /\ ReserveHostPermit(c, addr[c])
    BY Zenon, <1>10 DEF AcceptReserve, PersistentAttempt, Move, GoTo, mapVars
  <2>2. /\ PlacedAt(c) /\ held[c] = {}
        /\ pc[c] = "wait" => kind[c] = "persistent"
    BY Zenon, <1>t, <2>1 DEF Placed, PlacedAt, HeldAtPoint
  <2>3. ASSUME pc' = [pc EXCEPT ![c] = IF pc[c] = "host" THEN "total" ELSE "dial"],
               ReserveHostPermit(c, addr[c])
        PROVE  Placed'
    <3>1. \/ NeedsHostPermit(addr[c]) /\ held' = [held EXCEPT ![c] = @ \cup {"host"}]
          \/ ~NeedsHostPermit(addr[c]) /\ held' = held
      BY Zenon, <1>t, <2>3, ReserveStep DEF JobsType
    <3>2. held'[c] = HostPermits(c)' /\ (pc[c] = "wait" => held'[c] = OwnPermits(c)')
      BY Zenon, <1>t, <2>1, <2>2, <3>1
      DEF HostPermits, OwnPermits, Normal, NeedsHostPermit, JobsType
    <3>3. PlacedAt(c)'
      BY Zenon, <1>t, <2>1, <2>2, <2>3, <3>2 DEF PlacedAt, HeldAtPoint, JobsType
    <3>4. OnlyAt(c)
      BY Zenon, <1>t, <2>1, <2>3, <3>1 DEF OnlyAt, JobsType
    <3> QED  BY <1>t, <3>3, <3>4, PlacedOthers
  <2>4. ASSUME pc[c] = "host", pc' = [pc EXCEPT ![c] = "release"], held' = held
        PROVE  Placed'
    <3>1. PlacedAt(c)'
      BY Zenon, <1>t, <2>1, <2>2, <2>4 DEF PlacedAt, HeldAtPoint, JobsType
    <3>2. OnlyAt(c)
      BY Zenon, <1>t, <2>1, <2>4 DEF OnlyAt, JobsType
    <3> QED  BY <1>t, <3>1, <3>2, PlacedOthers
  <2> QED  BY <2>1, <2>3, <2>4
<1>11. ASSUME NEW c \in Conns, AcceptAcquire(c) PROVE Placed'
  <2>1. /\ kind' = kind /\ addr' = addr /\ pending' = pending /\ active' = active
        /\ kind[c] = "inbound" /\ pc[c] = "total"
        /\ \/ /\ addr[c] \in Whitelisted /\ held' = held
              /\ pc' = [pc EXCEPT ![c] = "add"]
           \/ /\ addr[c] \notin Whitelisted /\ held' = [held EXCEPT ![c] = @ \cup {"total"}]
              /\ pc' = [pc EXCEPT ![c] = "add"]
           \/ held' = held /\ pc' = [pc EXCEPT ![c] = "release"]
    BY Zenon, <1>11 DEF AcceptAcquire, AcquireTotal, GoTo, mapVars
  <2>2. PlacedAt(c)'
    <3>1. PlacedAt(c) /\ held[c] = HostPermits(c)
      BY Zenon, <1>t, <2>1 DEF Placed, PlacedAt, HeldAtPoint
    <3>2. OwnPermits(c)' = HostPermits(c) \cup
              (IF addr[c] \in Whitelisted THEN {} ELSE {"total"})
      BY Zenon, <2>1 DEF OwnPermits, HostPermits, Normal, NeedsHostPermit
    <3>3. pc'[c] = "add" => held'[c] = OwnPermits(c)'
      BY Zenon, <1>t, <2>1, <3>1, <3>2 DEF JobsType
    <3> QED  BY Zenon, <1>t, <2>1, <3>1, <3>3 DEF PlacedAt, HeldAtPoint, JobsType
  <2>3. OnlyAt(c)
    BY Zenon, <1>t, <2>1 DEF OnlyAt, JobsType
  <2> QED  BY <1>t, <2>2, <2>3, PlacedOthers
<1>12. ASSUME NEW c \in Conns,
              \/ AcceptAdd(c) \/ DialCheck(c) \/ DialRegister(c) \/ DialFails(c)
              \/ DialSucceeds(c) \/ Close(c)
       PROVE  Placed'
  <2>1. /\ kind' = kind /\ addr' = addr /\ held' = held
        /\ pc[c] \in {"add", "dial", "register", "dialing", "open", "dropped"}
        /\ \/ /\ pc' = [pc EXCEPT ![c] = "release"]
              /\ pc[c] = "dialing" => c \notin pending'
              /\ pc[c] = "open" => c \notin active'
              /\ pending' \subseteq pending /\ active' \subseteq active
           \/ /\ pc[c] = "dial" /\ pc' = [pc EXCEPT ![c] = "register"]
              /\ pending' = pending /\ active' = active
           \/ /\ pc[c] = "register" /\ pc' = [pc EXCEPT ![c] = "dialing"]
              /\ pending' = pending \cup {c} /\ active' = active
           \/ /\ pc[c] \in {"add", "dialing"} /\ pc' = [pc EXCEPT ![c] = "open"]
              /\ pending' = pending \ {c} /\ active' = active \cup {c}
           \/ /\ pc[c] = "add" /\ pc' = [pc EXCEPT ![c] = "open"]
              /\ pending' = pending /\ active' = active \cup {c}
    BY Zenon, <1>12
    DEF AcceptAdd, DialCheck, DialRegister, DialFails, DialSucceeds, Close,
        Move, GoTo, mapVars, permitVars
  <2>2. PlacedAt(c)'
    <3>1. PlacedAt(c) /\ OwnPermits(c)' = OwnPermits(c)
      BY Zenon, <1>t, <2>1 DEF Placed, OwnPermits, HostPermits, Normal, NeedsHostPermit
    <3>2. held[c] = OwnPermits(c)
      BY Zenon, <2>1, <3>1 DEF PlacedAt, HeldAtPoint
    <3>3. HeldAtPoint(c)'
      BY Zenon, <1>t, <2>1, <3>1, <3>2 DEF HeldAtPoint, JobsType
    <3>4. /\ c \in pending' => pc'[c] = "dialing"
          /\ c \in active' => pc'[c] = "open"
      BY Zenon, <1>t, <2>1, <3>1 DEF PlacedAt, JobsType
    <3> QED  BY <3>3, <3>4 DEF PlacedAt
  <2>3. OnlyAt(c)
    BY Zenon, <1>t, <2>1 DEF OnlyAt, JobsType
  <2> QED  BY <1>t, <2>2, <2>3, PlacedOthers
<1>13. ASSUME NEW c \in Conns, NEW p \in Permits, Release(c, p) PROVE Placed'
  <2>1. /\ kind' = kind /\ addr' = addr /\ pending' = pending /\ active' = active
        /\ pc[c] \in {"release", "unwind"} /\ pc' = pc
        /\ held' = [held EXCEPT ![c] = @ \ {p}]
    BY Zenon, <1>13 DEF Release, jobVars, mapVars
  <2>2. PlacedAt(c)'
    BY Zenon, <1>t, <2>1 DEF Placed, PlacedAt, HeldAtPoint, JobsType
  <2>3. OnlyAt(c)
    BY Zenon, <1>t, <2>1 DEF OnlyAt, JobsType
  <2> QED  BY <1>t, <2>2, <2>3, PlacedOthers
<1>14. ASSUME NEW c \in Conns, Released(c) PROVE Placed'
  <2>1. /\ pending' = pending /\ active' = active /\ held' = held /\ held[c] = {}
        /\ pc[c] \in {"release", "unwind"}
        /\ \/ /\ kind[c] = "persistent" /\ kind' = kind /\ addr' = addr
              /\ pc' = [pc EXCEPT ![c] = "wait"]
           \/ /\ kind' = [kind EXCEPT ![c] = "none"]
              /\ addr' = [addr EXCEPT ![c] = AnyAddr]
              /\ pc' = [pc EXCEPT ![c] = "free"]
    BY Zenon, <1>14 DEF Released, GoTo, mapVars, permitVars
  <2>2. PlacedAt(c)'
    BY Zenon, <1>t, <2>1 DEF Placed, PlacedAt, HeldAtPoint, JobsType
  <2>3. OnlyAt(c)
    BY Zenon, <1>t, <2>1 DEF OnlyAt, JobsType
  <2> QED  BY <1>t, <2>2, <2>3, PlacedOthers
<1>15. ASSUME NEW c \in Conns,
              PersistentEnds(c) \/ (PersistentLaunch /\ c = launching)
       PROVE  Placed'
  <2>1. /\ kind' = kind /\ addr' = addr /\ pending' = pending /\ active' = active
        /\ held' = held
        /\ \/ pc[c] = "wait" /\ pc' = [pc EXCEPT ![c] = "free"]
           \/ pc[c] = "queued" /\ pc' = [pc EXCEPT ![c] = "wait"]
    BY Zenon, <1>15 DEF PersistentEnds, PersistentLaunch, Move, GoTo, mapVars, permitVars
  <2>2. PlacedAt(c)'
    BY Zenon, <1>t, <2>1 DEF Placed, PlacedAt, HeldAtPoint, JobsType
  <2>3. OnlyAt(c)
    BY Zenon, <1>t, <2>1 DEF OnlyAt, JobsType
  <2> QED  BY <1>t, <2>2, <2>3, PlacedOthers
<1>16. ASSUME NEW c \in Conns, RemoveEntry(c) PROVE Placed'
  <2>1. /\ kind' = kind /\ addr' = addr /\ held' = held
        /\ pending' = pending \ {c} /\ active' = active \ {c}
        /\ \/ c \in active /\ pc' = [pc EXCEPT ![c] = "dropped"]
           \/ pc' = pc
    BY Zenon, <1>16 DEF RemoveEntry, GoTo, permitVars
  <2>2. PlacedAt(c)'
    <3>1. PlacedAt(c) /\ (c \in active => pc[c] = "open")
      BY Zenon, <1>t DEF Placed, PlacedAt
    <3>2. OwnPermits(c)' = OwnPermits(c) /\ HostPermits(c)' = HostPermits(c)
      BY Zenon, <2>1 DEF OwnPermits, HostPermits, Normal, NeedsHostPermit
    <3> QED  BY <1>t, <2>1, <3>1, <3>2 DEF PlacedAt, HeldAtPoint, JobsType
  <2>3. OnlyAt(c)
    BY Zenon, <1>t, <2>1 DEF OnlyAt, JobsType
  <2> QED  BY <1>t, <2>2, <2>3, PlacedOthers
<1>17. CASE /\ UNCHANGED <<kind, addr, pc, held>>
            /\ pending' \subseteq pending /\ active' \subseteq active
  <2> SUFFICES ASSUME NEW c \in Conns PROVE PlacedAt(c)'
    BY Zenon DEF Placed
  <2>1. OwnPermits(c)' = OwnPermits(c) /\ HostPermits(c)' = HostPermits(c)
    BY Zenon, <1>17 DEF OwnPermits, HostPermits, Normal, NeedsHostPermit
  <2> QED  BY <1>t, <1>17, <2>1 DEF Placed, PlacedAt, HeldAtPoint
<1>18. ASSUME \/ OutboundCheck \/ (OutboundGivesUp /\ UNCHANGED jobVars)
              \/ AddPersistentSent \/ PersistentReceive \/ PersistentHandlerEnds
              \/ Shutdown \/ RunCollect \/ RunReturn \/ UNCHANGED vars
       PROVE  Placed'
  <2>1. UNCHANGED <<jobVars, mapVars, permitVars>>
    BY Zenon, <1>18
    DEF OutboundCheck, OutboundGivesUp, AddPersistentSent, PersistentReceive,
        PersistentHandlerEnds, Shutdown, RunCollect, RunReturn, vars
  <2> QED  BY <1>17, <2>1 DEF jobVars, mapVars, permitVars
<1>18a. ASSUME NEW c \in Conns, Disconnect(c) PROVE Placed'
  BY Zenon, <1>17, <1>18a DEF Disconnect, jobVars, permitVars
<1>19. CASE OutboundGivesUp
  BY Zenon, <1>6, <1>18, <1>19 DEF OutboundGivesUp
<1>20. CASE PersistentLaunch
  <2>1. launching \in Conns
    BY Zenon, <1>20 DEF PersistentLaunch, ConnInv, TypeOK
  <2> QED  BY <1>15, <1>20, <2>1
<1>21. ASSUME NEW c \in Conns, Remove(c) \/ RunRemove(c) PROVE Placed'
  BY Zenon, <1>16, <1>21 DEF Remove, RunRemove
<1>22. CASE CallersStep
  BY Zenon, <1>1, <1>2, <1>3, <1>12, <1>18, <1>18a, <1>21, <1>22 DEF CallersStep
<1>23. ASSUME NEW c \in Conns, Proceed(c) PROVE Placed'
  BY Zenon, <1>5, <1>6, <1>7, <1>8, <1>9, <1>10, <1>11, <1>12, <1>13, <1>14, <1>15,
     <1>23 DEF Proceed
<1>24. CASE OutboundStep \/ PersistentStep \/ RunStep
  BY Zenon, <1>4, <1>18, <1>19, <1>20, <1>21, <1>24
  DEF OutboundStep, PersistentStep, RunStep
<1> QED  BY <1>18, <1>22, <1>23, <1>24 DEF Next

-----------------------------------------------------------------------------
\* A connection that has a cancel function and goes on keeps its place.
LEMMA KindMoved ==
    ASSUME TypeOK, PersistentKind, CancelPlaced, NEW c \in Conns, NEW point \in Points,
           kind' = kind, pc' = [pc EXCEPT ![c] = point],
           pc[c] \in GoroutinePoints => point \in GoroutinePoints,
           UNCHANGED <<persistent, cancelable, cancelled>>
    PROVE  PersistentKind' /\ CancelPlaced'
  BY Zenon DEF PersistentKind, CancelPlaced, TypeOK

\* A new connection has no cancel function yet.
LEMMA KindBegun ==
    ASSUME TypeOK, PersistentKind, CancelPlaced, NEW c \in Conns, NEW k \in Kinds,
           NEW point \in Points, pc[c] = "free", c \notin persistent,
           kind' = [kind EXCEPT ![c] = k], pc' = [pc EXCEPT ![c] = point],
           UNCHANGED <<cancelable, cancelled>>,
           \/ persistent' = persistent
           \/ persistent' = persistent \cup {c} /\ k = "persistent"
    PROVE  PersistentKind' /\ CancelPlaced'
<1>1. c \notin cancelable /\ c \notin cancelled
  BY Zenon DEF CancelPlaced, GoroutinePoints
<1>2. CancelPlaced'
  BY Zenon, <1>1 DEF CancelPlaced, TypeOK
<1>3. PersistentKind'
  BY <1>1 DEF PersistentKind, TypeOK
<1> QED  BY <1>2, <1>3

LEMMA KindStep == ConnInv /\ [Next]_vars => PersistentKind' /\ CancelPlaced'
<1> SUFFICES ASSUME ConnInv, [Next]_vars PROVE PersistentKind' /\ CancelPlaced'
  OBVIOUS
<1>t. TypeOK /\ Placed /\ PersistentKind /\ CancelPlaced
  BY Zenon DEF ConnInv, PersistentPlaced
<1>1. ASSUME NEW c \in Conns, NEW a \in Addrs,
             Connect(c, a) \/ Accept(c, a) \/ AddPersistent(c, a)
      PROVE  PersistentKind' /\ CancelPlaced'
  <2>1. /\ pc[c] = "free" /\ c \notin persistent
        /\ \E k \in Kinds, point \in Points :
               /\ kind' = [kind EXCEPT ![c] = k] /\ pc' = [pc EXCEPT ![c] = point]
               /\ \/ persistent' = persistent
                  \/ persistent' = persistent \cup {c} /\ k = "persistent"
    BY Zenon, <1>1
    DEF Connect, Accept, AddPersistent, Begin, Unused, GoTo, Kinds, Points, mapVars
  <2>2. UNCHANGED <<cancelable, cancelled>>
    BY Zenon, <1>1 DEF Connect, Accept, AddPersistent, launchVars
  <2> QED  BY Zenon, <1>t, <2>1, <2>2, KindBegun
<1>2. ASSUME NEW c \in Conns, OutboundAcquire(c)
      PROVE  PersistentKind' /\ CancelPlaced'
  <2>1. /\ pc[c] = "free" /\ c \notin persistent
        /\ kind' = [kind EXCEPT ![c] = "outbound"] /\ pc' = [pc EXCEPT ![c] = "total"]
        /\ "outbound" \in Kinds /\ "total" \in Points
        /\ UNCHANGED <<persistent, cancelable, cancelled>>
    BY Zenon, <1>2
    DEF OutboundAcquire, Begin, Unused, GoTo, Kinds, Points, mapVars, launchVars
  <2> QED  BY Zenon, <1>t, <2>1, KindBegun
<1>3. ASSUME NEW c \in Conns,
             \/ ConnectAcquire(c) \/ ConnectRefused(c) \/ ConnectGroup(c)
             \/ OutboundAcquireTotal(c) \/ PickFails(c) \/ OutboundReserve(c)
             \/ AcceptReserve(c) \/ AcceptAcquire(c)
             \/ \E a \in KnownAddrs : PickOutboundAddr(c, a)
             \/ (OutboundGivesUp /\ Move(c, "total", "release"))
      PROVE  PersistentKind' /\ CancelPlaced'
  <2>1. /\ kind' = kind /\ pc[c] \in {"total", "group", "pick", "host"}
        /\ \E point \in Points : pc' = [pc EXCEPT ![c] = point]
    BY Zenon, <1>3
    DEF ConnectAcquire, ConnectRefused, ConnectGroup, OutboundAcquireTotal,
        PickFails, OutboundReserve, AcceptReserve, AcceptAcquire,
        PickOutboundAddr, Move, GoTo, Points
  <2>2. UNCHANGED <<persistent, cancelable, cancelled>>
    BY Zenon, <1>3
    DEF ConnectAcquire, ConnectRefused, ConnectGroup, OutboundAcquireTotal,
        PickFails, OutboundReserve, AcceptReserve, AcceptAcquire,
        PickOutboundAddr, OutboundGivesUp, mapVars, launchVars
  <2>3. pc[c] \notin GoroutinePoints
    BY Zenon, <2>1 DEF GoroutinePoints
  <2> QED  BY Zenon, <1>t, <2>1, <2>2, <2>3, KindMoved
<1>4. ASSUME NEW c \in Conns,
             \/ AcceptAdd(c) \/ DialCheck(c) \/ DialRegister(c) \/ DialFails(c)
             \/ DialSucceeds(c) \/ Close(c) \/ PersistentAttempt(c)
      PROVE  PersistentKind' /\ CancelPlaced'
  <2>1. /\ kind' = kind
        /\ \E point \in {"open", "register", "dialing", "release", "dial"} :
               pc' = [pc EXCEPT ![c] = point]
    BY Zenon, <1>4
    DEF AcceptAdd, DialCheck, DialRegister, DialFails, DialSucceeds, Close,
        PersistentAttempt, Move, GoTo
  <2>2. UNCHANGED <<persistent, cancelable, cancelled>>
    BY Zenon, <1>4
    DEF AcceptAdd, DialCheck, DialRegister, DialFails, DialSucceeds, Close,
        PersistentAttempt, mapVars, launchVars
  <2> QED  BY Zenon, <1>t, <2>1, <2>2, KindMoved DEF GoroutinePoints, Points
<1>5. ASSUME NEW c \in Conns, Released(c) PROVE PersistentKind' /\ CancelPlaced'
  <2>1. UNCHANGED <<persistent, cancelable, cancelled>>
    BY Zenon, <1>5 DEF Released, mapVars, launchVars
  <2>2. CASE kind[c] = "persistent"
    <3>1. /\ kind' = kind /\ pc' = [pc EXCEPT ![c] = "wait"]
          /\ "wait" \in Points /\ "wait" \in GoroutinePoints
      BY Zenon, <1>5, <2>2 DEF Released, GoTo, Points, GoroutinePoints
    <3> QED  BY Zenon, <1>t, <2>1, <3>1, KindMoved
  <2>3. CASE kind[c] # "persistent"
    <3>1. /\ kind' = [kind EXCEPT ![c] = "none"] /\ pc' = [pc EXCEPT ![c] = "free"]
      BY Zenon, <1>5, <2>3 DEF Released, GoTo
    <3>2. c \notin persistent /\ c \notin cancelable /\ c \notin cancelled
      BY Zenon, <1>t, <2>3 DEF PersistentKind, CancelPlaced
    <3> QED
      BY Zenon, <1>t, <2>1, <3>1, <3>2 DEF PersistentKind, CancelPlaced, TypeOK
  <2> QED  BY <2>2, <2>3
<1>6. ASSUME NEW c \in Conns, PersistentEnds(c) PROVE PersistentKind' /\ CancelPlaced'
  BY Zenon, <1>t, <1>6
  DEF PersistentEnds, Move, GoTo, mapVars, PersistentKind, CancelPlaced, TypeOK
<1>7. CASE PersistentLaunch
  <2>1. /\ launching \in Conns /\ pc[launching] = "queued"
        /\ kind' = kind /\ pc' = [pc EXCEPT ![launching] = "wait"]
        /\ cancelable' = cancelable \cup {launching}
        /\ persistent' = persistent /\ cancelled' = cancelled
    BY Zenon, <1>t, <1>7 DEF PersistentLaunch, Move, GoTo, mapVars, TypeOK
  <2>2. kind[launching] = "persistent"
    BY Zenon, <1>t, <2>1 DEF Placed, PlacedAt, HeldAtPoint
  <2> QED
    BY Zenon, <1>t, <2>1, <2>2 DEF PersistentKind, CancelPlaced, GoroutinePoints, TypeOK
<1>8. ASSUME NEW c \in Conns, RemoveEntry(c) PROVE PersistentKind' /\ CancelPlaced'
  <2>1. /\ kind' = kind /\ persistent' = persistent \ {c}
        /\ cancelable' = cancelable
        /\ cancelled' = cancelled \cup ({c} \cap persistent \cap cancelable)
        /\ pc' = pc \/ pc' = [pc EXCEPT ![c] = "dropped"]
    BY Zenon, <1>8 DEF RemoveEntry, GoTo
  <2>2. PersistentKind'
    BY Zenon, <1>t, <2>1 DEF PersistentKind
  <2>3. CancelPlaced'
    BY Zenon, <1>t, <2>1 DEF CancelPlaced, GoroutinePoints, TypeOK
  <2> QED  BY <2>2, <2>3
<1>9. CASE UNCHANGED <<kind, pc, persistent, cancelable, cancelled>>
  BY Zenon, <1>t, <1>9 DEF PersistentKind, CancelPlaced
<1>10. ASSUME NEW c \in Conns, Disconnect(c) PROVE PersistentKind' /\ CancelPlaced'
  BY Zenon, <1>9, <1>10 DEF Disconnect, jobVars, launchVars
<1>11. ASSUME \/ OutboundCheck \/ (OutboundGivesUp /\ UNCHANGED jobVars)
              \/ AddPersistentSent \/ PersistentReceive \/ PersistentHandlerEnds
              \/ Shutdown \/ RunCollect \/ RunReturn \/ UNCHANGED vars
       PROVE  PersistentKind' /\ CancelPlaced'
  <2>1. UNCHANGED <<jobVars, persistent, cancelable, cancelled>>
    BY Zenon, <1>11
    DEF OutboundCheck, OutboundGivesUp, AddPersistentSent, PersistentReceive,
        PersistentHandlerEnds, Shutdown, RunCollect, RunReturn, vars, mapVars,
        launchVars
  <2> QED  BY Zenon, <1>9, <2>1 DEF jobVars
<1>12. CASE OutboundGivesUp
  BY Zenon, <1>3, <1>11, <1>12 DEF OutboundGivesUp
<1>13. ASSUME NEW c \in Conns, Remove(c) \/ RunRemove(c)
       PROVE  PersistentKind' /\ CancelPlaced'
  BY Zenon, <1>8, <1>13 DEF Remove, RunRemove
<1>14. CASE CallersStep
  BY Zenon, <1>1, <1>4, <1>10, <1>11, <1>13, <1>14 DEF CallersStep
<1>15. ASSUME NEW c \in Conns, Proceed(c) PROVE PersistentKind' /\ CancelPlaced'
  <2>1. CASE \E p \in Permits : Release(c, p)
    BY Zenon, <1>9, <2>1 DEF Release, jobVars, mapVars, launchVars
  <2> QED  BY <1>3, <1>4, <1>5, <1>6, <1>15, <2>1 DEF Proceed
<1>16. CASE OutboundStep \/ PersistentStep \/ RunStep
  BY Zenon, <1>2, <1>7, <1>11, <1>12, <1>13, <1>16
  DEF OutboundStep, PersistentStep, RunStep
<1> QED  BY <1>11, <1>14, <1>15, <1>16 DEF Next

-----------------------------------------------------------------------------
\* The points of a goroutine that serves a persistent entry.
ServedPoints == {"wait", "dial", "register", "dialing", "open", "release"}
Queue == <<runPersistentChan, launching, connMtx>>
Queued == Range(runPersistentChan) \cup {launching, connMtx}
ServedAt(c) == (pc[c] = "queued" /\ c \in Queued) \/ pc[c] \in ServedPoints

LEMMA ServedMeans ==
    ASSUME PersistentKind
    PROVE  PersistentServed <=> (run = "running" => \A c \in persistent : ServedAt(c))
  BY Zenon DEF PersistentServed, PersistentKind, ServedAt, ServedPoints, Queued, ShuttingDown

\* One goroutine moves, and the others and the queue stay where they are.
LEMMA ServedMoved ==
    ASSUME TypeOK, PersistentServed, PersistentKind, PersistentKind', NEW c \in Conns,
           \A d \in Conns \ {c} : pc'[d] = pc[d],
           persistent' \ {c} \subseteq persistent, UNCHANGED Queue,
           run' = "running" => run = "running",
           c \in persistent' /\ run' = "running" =>
               /\ c \in persistent /\ pc[c] # "queued"
               /\ pc[c] \in ServedPoints => pc'[c] \in ServedPoints
    PROVE  PersistentServed'
<1>1. SUFFICES ASSUME run' = "running", NEW d \in persistent' PROVE ServedAt(d)'
  <2>1. PersistentServed' <=> (run' = "running" => \A d \in persistent' : ServedAt(d)')
    BY Zenon DEF PersistentServed, PersistentKind, ServedAt, ServedPoints, Queued,
           ShuttingDown
  <2> QED  BY <2>1
<1>2. \A e \in persistent : ServedAt(e)
  BY Zenon, <1>1, ServedMeans
<1>3. Queued' = Queued
  BY Zenon DEF Queued, Queue
<1>4. CASE d = c
  BY Zenon, <1>1, <1>2, <1>4 DEF ServedAt
<1>5. CASE d # c
  <2>1. d \in persistent /\ pc'[d] = pc[d]
    BY Zenon, <1>5 DEF TypeOK
  <2> QED  BY <1>2, <1>3, <2>1 DEF ServedAt
<1> QED  BY Zenon, <1>4, <1>5

\* The queue changes, and no entry gets lost.
LEMMA ServedQueue ==
    ASSUME PersistentServed, PersistentKind, PersistentKind', persistent' = persistent,
           pc' = pc, run' = run, Queued \cap Conns \subseteq Queued', TypeOK
    PROVE  PersistentServed'
<1>1. PersistentServed' <=> (run' = "running" => \A d \in persistent' : ServedAt(d)')
  BY Zenon DEF PersistentServed, PersistentKind, ServedAt, ServedPoints, Queued,
         ShuttingDown
<1>2. run = "running" => \A e \in persistent : ServedAt(e)
  BY Zenon, ServedMeans
<1>3. ASSUME NEW d \in persistent, ServedAt(d) PROVE ServedAt(d)'
  BY Zenon, <1>3 DEF ServedAt, TypeOK
<1> QED  BY Zenon, <1>1, <1>2, <1>3

LEMMA RangeAppend ==
    ASSUME NEW s \in Seq(Conns), NEW c \in Conns
    PROVE  Range(Append(s, c)) = Range(s) \cup {c}
<1>1. /\ DOMAIN Append(s, c) = 1..(Len(s) + 1) /\ DOMAIN s = 1..Len(s)
      /\ Len(s) \in Nat /\ Append(s, c)[Len(s) + 1] = c
      /\ \A n \in 1..Len(s) : Append(s, c)[n] = s[n]
  OBVIOUS
<1> QED  BY <1>1 DEF Range

LEMMA RangeTail ==
    ASSUME NEW s \in Seq(Conns), s # <<>>
    PROVE  Range(s) \subseteq Range(Tail(s)) \cup {Head(s)}
<1> SUFFICES ASSUME NEW n \in DOMAIN s
             PROVE  s[n] \in Range(Tail(s)) \cup {Head(s)}
  BY Zenon DEF Range
<1>1. CASE n = 1
  BY <1>1
<1>2. CASE n # 1
  <2>1. n \in 2..Len(s) /\ Len(s) \in Nat /\ DOMAIN Tail(s) = 1..(Len(s) - 1)
    BY <1>2
  <2>2. n - 1 \in DOMAIN Tail(s) /\ Tail(s)[n - 1] = s[n]
    BY <2>1
  <2> QED  BY <2>2 DEF Range
<1> QED  BY <1>1, <1>2

\* A persistent entry stays on its way or has its goroutine.
LEMMA ServedStep == ConnInv /\ [Next]_vars => PersistentServed'
<1> SUFFICES ASSUME ConnInv, [Next]_vars PROVE PersistentServed'
  OBVIOUS
<1>t. TypeOK /\ Placed /\ PersistentServed /\ PersistentKind
  BY Zenon DEF ConnInv, PersistentPlaced
<1>k. PersistentKind'
  BY Zenon, KindStep
<1>m. ASSUME NEW c \in Conns, NEW point \in Points, pc' = [pc EXCEPT ![c] = point],
             pc[c] # "queued", pc[c] \in ServedPoints => point \in ServedPoints,
             UNCHANGED <<persistent, Queue>>, run' = run
      PROVE  PersistentServed'
  BY Zenon, <1>t, <1>k, <1>m, ServedMoved DEF TypeOK
<1>1. ASSUME NEW c \in Conns, NEW a \in Addrs, Connect(c, a) \/ Accept(c, a)
      PROVE  PersistentServed'
  <2>1. pc[c] = "free" /\ \E point \in Points : pc' = [pc EXCEPT ![c] = point]
    BY Zenon, <1>1 DEF Connect, Accept, Begin, Unused, GoTo, Points
  <2>2. UNCHANGED <<persistent, Queue, run>>
    BY Zenon, <1>1 DEF Connect, Accept, mapVars, launchVars, runVars, Queue
  <2> QED  BY Zenon, <1>m, <2>1, <2>2 DEF ServedPoints
<1>2. ASSUME NEW c \in Conns, OutboundAcquire(c) PROVE PersistentServed'
  <2>1. pc[c] = "free" /\ pc' = [pc EXCEPT ![c] = "total"] /\ "total" \in Points
    BY Zenon, <1>2 DEF OutboundAcquire, Begin, Unused, GoTo, Points
  <2>2. UNCHANGED <<persistent, Queue, run>>
    BY Zenon, <1>2 DEF OutboundAcquire, mapVars, launchVars, Queue
  <2> QED  BY Zenon, <1>m, <2>1, <2>2 DEF ServedPoints
<1>3. ASSUME NEW c \in Conns, NEW a \in Addrs, AddPersistent(c, a) PROVE PersistentServed'
  <2>1. /\ c \notin persistent /\ persistent' = persistent \cup {c}
        /\ pc' = [pc EXCEPT ![c] = "queued"] /\ run' = run
        /\ launching' = launching
        /\ \/ /\ runPersistentChan' = Append(runPersistentChan, c)
              /\ connMtx' = connMtx
           \/ connMtx = NoConn /\ connMtx' = c /\ runPersistentChan' = runPersistentChan
    BY Zenon, <1>3 DEF AddPersistent, MutexFree, Begin, Unused, GoTo, runVars
  <2>3. (Queued \cap Conns) \cup {c} \subseteq Queued'
    <3>1. CASE runPersistentChan' = Append(runPersistentChan, c) /\ connMtx' = connMtx
      <4>1. Range(runPersistentChan') = Range(runPersistentChan) \cup {c}
        BY Zenon, <1>t, <3>1, RangeAppend DEF TypeOK
      <4> QED  BY <2>1, <3>1, <4>1 DEF Queued
    <3>2. CASE connMtx = NoConn /\ connMtx' = c /\ runPersistentChan' = runPersistentChan
      BY Zenon, <2>1, <3>2, ConnsAssumption DEF Queued
    <3> QED  BY <2>1, <3>1, <3>2
  <2>4. PersistentServed' <=> (run' = "running" => \A d \in persistent' : ServedAt(d)')
    BY Zenon, <1>k
    DEF PersistentServed, PersistentKind, ServedAt, ServedPoints, Queued,
        ShuttingDown
  <2>5. run = "running" => \A d \in persistent : ServedAt(d)
    BY Zenon, <1>t, ServedMeans
  <2>6. ASSUME NEW d \in persistent, ServedAt(d) PROVE ServedAt(d)'
    <3>1. d \in Conns /\ d # c /\ pc'[d] = pc[d]
      BY Zenon, <1>t, <2>1 DEF TypeOK
    <3> QED  BY <2>3, <2>6, <3>1 DEF ServedAt
  <2>7. ServedAt(c)'
    BY Zenon, <1>t, <2>1, <2>3 DEF ServedAt, TypeOK
  <2> QED  BY Zenon, <2>1, <2>4, <2>5, <2>6, <2>7
<1>4. ASSUME NEW c \in Conns,
             \/ ConnectAcquire(c) \/ ConnectRefused(c) \/ ConnectGroup(c)
             \/ OutboundAcquireTotal(c) \/ PickFails(c) \/ OutboundReserve(c)
             \/ AcceptReserve(c) \/ AcceptAcquire(c)
             \/ \E a \in KnownAddrs : PickOutboundAddr(c, a)
             \/ (OutboundGivesUp /\ Move(c, "total", "release"))
      PROVE  PersistentServed'
  <2>1. /\ pc[c] \in {"total", "group", "pick", "host"}
        /\ \E point \in Points : pc' = [pc EXCEPT ![c] = point]
    BY Zenon, <1>4
    DEF ConnectAcquire, ConnectRefused, ConnectGroup, OutboundAcquireTotal,
        PickFails, OutboundReserve, AcceptReserve, AcceptAcquire,
        PickOutboundAddr, Move, GoTo, Points
  <2>2. UNCHANGED <<persistent, Queue, run>>
    BY Zenon, <1>4
    DEF ConnectAcquire, ConnectRefused, ConnectGroup, OutboundAcquireTotal,
        PickFails, OutboundReserve, AcceptReserve, AcceptAcquire,
        PickOutboundAddr, OutboundGivesUp, mapVars, launchVars, runVars, Queue
  <2>3. pc[c] \notin ServedPoints /\ pc[c] # "queued"
    BY Zenon, <2>1 DEF ServedPoints
  <2> QED  BY Zenon, <1>m, <2>1, <2>2, <2>3
<1>5. ASSUME NEW c \in Conns,
             \/ AcceptAdd(c) \/ DialCheck(c) \/ DialRegister(c) \/ DialFails(c)
             \/ DialSucceeds(c) \/ Close(c) \/ PersistentAttempt(c)
      PROVE  PersistentServed'
  <2>1. /\ pc[c] # "queued"
        /\ \E point \in {"open", "register", "dialing", "release", "dial"} :
               pc' = [pc EXCEPT ![c] = point]
    BY Zenon, <1>5
    DEF AcceptAdd, DialCheck, DialRegister, DialFails, DialSucceeds, Close,
        PersistentAttempt, Move, GoTo
  <2>2. UNCHANGED <<persistent, Queue, run>>
    BY Zenon, <1>5
    DEF AcceptAdd, DialCheck, DialRegister, DialFails, DialSucceeds, Close,
        PersistentAttempt, mapVars, launchVars, runVars, Queue
  <2> QED  BY Zenon, <1>m, <2>1, <2>2 DEF ServedPoints, Points
<1>6. ASSUME NEW c \in Conns, Released(c) PROVE PersistentServed'
  <2>1. UNCHANGED <<persistent, Queue, run>> /\ pc[c] \in {"release", "unwind"}
    BY Zenon, <1>6 DEF Released, mapVars, launchVars, Queue
  <2>2. CASE kind[c] = "persistent"
    <3>1. /\ pc' = [pc EXCEPT ![c] = "wait"]
          /\ "wait" \in Points /\ "wait" \in ServedPoints /\ pc[c] # "queued"
      BY Zenon, <1>6, <2>1, <2>2 DEF Released, GoTo, Points, ServedPoints
    <3> QED  BY Zenon, <1>m, <2>1, <3>1
  <2>3. CASE kind[c] # "persistent"
    <3>1. c \notin persistent' /\ \A d \in Conns \ {c} : pc'[d] = pc[d]
      BY Zenon, <1>t, <1>6, <2>1, <2>3 DEF Released, GoTo, PersistentKind, TypeOK
    <3> QED  BY Zenon, <1>t, <1>k, <2>1, <3>1, ServedMoved
  <2> QED  BY <2>2, <2>3
<1>7. ASSUME NEW c \in Conns, PersistentEnds(c) PROVE PersistentServed'
  <2>1. /\ UNCHANGED <<persistent, Queue, run>>
        /\ \A d \in Conns \ {c} : pc'[d] = pc[d]
        /\ run # "running" \/ c \in cancelled
    BY Zenon, <1>t, <1>7
    DEF PersistentEnds, Move, GoTo, ContextDone, ShuttingDown, mapVars, runVars,
        Queue, TypeOK
  <2>2. c \in persistent' => run' # "running"
    BY Zenon, <1>t, <2>1 DEF PersistentKind
  <2> QED  BY Zenon, <1>t, <1>k, <2>1, <2>2, ServedMoved
<1>8. CASE PersistentLaunch
  <2>1. /\ launching \in Conns /\ pc[launching] = "queued" /\ launching' = NoConn
        /\ pc' = [pc EXCEPT ![launching] = "wait"]
        /\ UNCHANGED <<persistent, runPersistentChan, connMtx, run>>
    BY Zenon, <1>t, <1>8 DEF PersistentLaunch, Move, GoTo, mapVars, runVars, TypeOK
  <2>2. PersistentServed' <=> (run' = "running" => \A d \in persistent' : ServedAt(d)')
    BY Zenon, <1>k
    DEF PersistentServed, PersistentKind, ServedAt, ServedPoints, Queued,
        ShuttingDown
  <2>3. run = "running" => \A d \in persistent : ServedAt(d)
    BY Zenon, <1>t, ServedMeans
  <2>4. ASSUME NEW d \in persistent, ServedAt(d) PROVE ServedAt(d)'
    <3>1. CASE d = launching
      BY Zenon, <1>t, <2>1, <3>1 DEF ServedAt, ServedPoints, TypeOK
    <3>2. CASE d # launching
      BY Zenon, <1>t, <2>1, <2>4, <3>2 DEF ServedAt, Queued, TypeOK
    <3> QED  BY <3>1, <3>2
  <2> QED  BY Zenon, <1>t, <2>1, <2>2, <2>3, <2>4
<1>9. CASE AddPersistentSent
  <2>1. /\ connMtx \in Conns /\ UNCHANGED <<persistent, pc, run, launching>>
        /\ runPersistentChan' = Append(runPersistentChan, connMtx)
    BY Zenon, <1>t, <1>9 DEF AddPersistentSent, MutexFree, TypeOK, jobVars, mapVars, runVars
  <2>2. Range(runPersistentChan') = Range(runPersistentChan) \cup {connMtx}
    BY Zenon, <1>t, <2>1, RangeAppend DEF TypeOK
  <2>3. Queued \cap Conns \subseteq Queued'
    BY Zenon, <2>1, <2>2 DEF Queued
  <2> QED  BY Zenon, <1>t, <1>k, <2>1, <2>3, ServedQueue
<1>10. CASE PersistentReceive
  <2>1. /\ UNCHANGED <<persistent, pc, run, connMtx>> /\ launching = NoConn
        /\ runPersistentChan # <<>> /\ launching' = Head(runPersistentChan)
        /\ runPersistentChan' = Tail(runPersistentChan)
    BY Zenon, <1>10 DEF PersistentReceive, jobVars, mapVars, runVars
  <2>2. Range(runPersistentChan) \subseteq Range(runPersistentChan') \cup {launching'}
    BY Zenon, <1>t, <2>1, RangeTail DEF TypeOK
  <2>3. Queued \cap Conns \subseteq Queued'
    BY Zenon, <2>1, <2>2, ConnsAssumption DEF Queued
  <2> QED  BY <1>t, <1>k, <2>1, <2>3, ServedQueue
<1>11. ASSUME NEW c \in Conns, RemoveEntry(c), run' = run PROVE PersistentServed'
  <2>1. /\ persistent' = persistent \ {c} /\ UNCHANGED <<Queue>>
        /\ \A d \in Conns \ {c} : pc'[d] = pc[d]
    BY Zenon, <1>t, <1>11 DEF RemoveEntry, GoTo, Queue, TypeOK
  <2> QED  BY Zenon, <1>t, <1>k, <1>11, <2>1, ServedMoved
<1>12. ASSUME NEW c \in Conns, Remove(c) \/ RunRemove(c) PROVE PersistentServed'
  BY Zenon, <1>11, <1>12 DEF Remove, RunRemove, runVars
<1>13. ASSUME UNCHANGED <<pc, persistent, Queue>>, run' = "running" => run = "running"
       PROVE  PersistentServed'
  <2>1. PersistentServed' <=> (run' = "running" => \A d \in persistent' : ServedAt(d)')
    BY Zenon, <1>k
    DEF PersistentServed, PersistentKind, ServedAt, ServedPoints, Queued,
        ShuttingDown
  <2>2. run = "running" => \A d \in persistent : ServedAt(d)
    BY Zenon, <1>t, ServedMeans
  <2> QED  BY <1>t, <1>13, <2>1, <2>2 DEF ServedAt, Queue, Queued
<1>14. ASSUME NEW c \in Conns, Disconnect(c) PROVE PersistentServed'
  BY Zenon, <1>13, <1>14 DEF Disconnect, jobVars, launchVars, runVars, Queue
<1>15. ASSUME \/ OutboundCheck \/ (OutboundGivesUp /\ UNCHANGED jobVars)
              \/ PersistentHandlerEnds \/ Shutdown \/ RunCollect \/ RunReturn
              \/ UNCHANGED vars
       PROVE  PersistentServed'
  <2>1. UNCHANGED <<jobVars, mapVars, launchVars>>
    BY Zenon, <1>15
    DEF OutboundCheck, OutboundGivesUp, PersistentHandlerEnds, Shutdown,
        RunCollect, RunReturn, vars
  <2>2. run' = "running" => run = "running"
    BY Zenon, <1>15
    DEF OutboundCheck, OutboundGivesUp, PersistentHandlerEnds, Shutdown,
        RunCollect, RunReturn, vars, runVars
  <2> QED  BY Zenon, <1>13, <2>1, <2>2 DEF jobVars, mapVars, launchVars, Queue
<1>16. CASE OutboundGivesUp
  BY Zenon, <1>4, <1>15, <1>16 DEF OutboundGivesUp
<1>17. CASE CallersStep
  BY Zenon, <1>1, <1>3, <1>5, <1>12, <1>14, <1>15, <1>17 DEF CallersStep
<1>18. ASSUME NEW c \in Conns, Proceed(c) PROVE PersistentServed'
  <2>1. CASE \E p \in Permits : Release(c, p)
    BY Zenon, <1>13, <2>1 DEF Release, jobVars, mapVars, launchVars, runVars, Queue
  <2> QED  BY <1>4, <1>5, <1>6, <1>7, <1>18, <2>1 DEF Proceed
<1>19. CASE OutboundStep \/ PersistentStep \/ RunStep
  BY Zenon, <1>2, <1>8, <1>10, <1>12, <1>15, <1>16, <1>19
  DEF OutboundStep, PersistentStep, RunStep
<1> QED  BY <1>9, <1>15, <1>17, <1>18, <1>19 DEF Next

-----------------------------------------------------------------------------
\* The index of addresses.  Entries that stay as they are are still found.
LEMMA IndexKept ==
    ASSUME OutgoingIndexed, connIDByAddr' = connIDByAddr, Known' = Known,
           \A d \in Known : kind'[d] = kind[d] /\ addr'[d] = addr[d]
    PROVE  OutgoingIndexed'
  BY Zenon DEF OutgoingIndexed, Known, Connections

\* An entry goes, with its address.
LEMMA IndexDropped ==
    ASSUME TypeOK, AddressesApart, OutgoingIndexed, NEW c \in Known,
           connIDByAddr' = [connIDByAddr EXCEPT ![addr[c]] = NoConn],
           Known' = Known \ {c}, kind' = kind, addr' = addr
    PROVE  OutgoingIndexed'
<1>1. /\ Known \subseteq Conns /\ addr[c] \in Addrs
      /\ \A d \in Known : addr[d] \in Addrs
      /\ \A a \in Addrs : connIDByAddr'[a] = IF a = addr[c] THEN NoConn ELSE connIDByAddr[a]
  BY DEF TypeOK, Known
<1>2. \A d \in Known \ {c} : kind[d] # "inbound" => addr[d] # addr[c]
  BY Zenon, <1>1 DEF AddressesApart, OutgoingIndexed, Known, Connections
<1>3. \A d \in Known' : kind'[d] # "inbound" => connIDByAddr'[addr'[d]] = d
  BY Zenon, <1>1, <1>2 DEF OutgoingIndexed, Known, Connections
<1>4. \A a \in Addrs : connIDByAddr'[a] # NoConn =>
          connIDByAddr'[a] \in Known' /\ addr'[connIDByAddr'[a]] = a
  <2> SUFFICES ASSUME NEW a \in Addrs, connIDByAddr'[a] # NoConn
               PROVE  connIDByAddr'[a] \in Known' /\ addr'[connIDByAddr'[a]] = a
    OBVIOUS
  <2>1. a # addr[c] /\ connIDByAddr'[a] = connIDByAddr[a]
    BY Zenon, <1>1
  <2>2. connIDByAddr[a] \in Known /\ addr[connIDByAddr[a]] = a
    BY Zenon, <2>1 DEF OutgoingIndexed, Known, Connections
  <2>3. connIDByAddr[a] # c
    BY Zenon, <2>1, <2>2
  <2> QED BY <2>1, <2>2, <2>3
<1> QED BY Zenon, <1>3, <1>4 DEF OutgoingIndexed, Known, Connections

\* An entry comes, or is entered again, at an address that no other outgoing
\* entry has.
LEMMA IndexAdded ==
    ASSUME TypeOK, OutgoingIndexed, NEW c \in Conns, NEW a \in Addrs, addr'[c] = a,
           connIDByAddr' = [connIDByAddr EXCEPT ![a] = c],
           Known' = Known \cup {c},
           \A d \in Conns \ {c} : kind'[d] = kind[d] /\ addr'[d] = addr[d],
           \A d \in Known \ {c} : kind[d] # "inbound" => addr[d] # a,
           \A b \in Addrs : connIDByAddr[b] = c => b = a
    PROVE  OutgoingIndexed'
<1>1. /\ Known \subseteq Conns /\ c # NoConn
      /\ \A d \in Known : addr[d] \in Addrs
      /\ \A b \in Addrs : connIDByAddr'[b] = IF b = a THEN c ELSE connIDByAddr[b]
  BY ConnsAssumption DEF TypeOK, Known
<1>2. \A d \in Known' : kind'[d] # "inbound" => connIDByAddr'[addr'[d]] = d
  <2> SUFFICES ASSUME NEW d \in Known', kind'[d] # "inbound"
               PROVE  connIDByAddr'[addr'[d]] = d
    OBVIOUS
  <2>1. CASE d = c
    BY Zenon, <1>1, <2>1
  <2>2. CASE d # c
    <3>1. d \in Known /\ d \in Conns /\ kind[d] # "inbound" /\ addr'[d] = addr[d]
      BY Zenon, <1>1, <2>2
    <3>2. connIDByAddr[addr[d]] = d /\ addr[d] # a /\ addr[d] \in Addrs
      BY Zenon, <1>1, <2>2, <3>1 DEF OutgoingIndexed, Known, Connections
    <3> QED BY Zenon, <1>1, <3>1, <3>2
  <2> QED BY Zenon, <2>1, <2>2
<1>3. \A b \in Addrs : connIDByAddr'[b] # NoConn =>
          connIDByAddr'[b] \in Known' /\ addr'[connIDByAddr'[b]] = b
  <2> SUFFICES ASSUME NEW b \in Addrs, connIDByAddr'[b] # NoConn
               PROVE  connIDByAddr'[b] \in Known' /\ addr'[connIDByAddr'[b]] = b
    OBVIOUS
  <2>1. CASE b = a
    <3>1. connIDByAddr'[b] = c
      BY Zenon, <1>1, <2>1
    <3> QED BY <2>1, <3>1
  <2>2. CASE b # a
    <3>1. connIDByAddr'[b] = connIDByAddr[b] /\ connIDByAddr[b] # c
      BY Zenon, <1>1, <2>2
    <3>2. connIDByAddr[b] \in Known /\ addr[connIDByAddr[b]] = b
      BY Zenon, <3>1 DEF OutgoingIndexed, Known, Connections
    <3>3. connIDByAddr[b] \in Conns \ {c}
      BY Zenon, <1>1, <3>1, <3>2
    <3> QED BY <3>1, <3>2, <3>3
  <2> QED BY Zenon, <2>1, <2>2
<1> QED BY Zenon, <1>2, <1>3 DEF OutgoingIndexed, Known, Connections

\* An address that rejectDuplicateAddr lets pass belongs to no outgoing entry.
LEMMA NotRejected ==
    ASSUME TypeOK, OutgoingIndexed, NEW a \in Addrs, ~RejectDuplicateAddr(a)
    PROVE  /\ \A d \in Known : kind[d] # "inbound" => addr[d] # a
           /\ connIDByAddr[a] = NoConn
  BY Zenon DEF OutgoingIndexed, RejectDuplicateAddr, Known, Connections

\* A step keeps connIDByAddr in step with the maps, whatever the order of dials,
\* retries, removals and closes, as long as the callers keep addresses apart.
LEMMA IndexStep ==
    ASSUME ConnInv, AddressesApart, OutgoingIndexed, [Next]_vars
    PROVE  OutgoingIndexed'
<1>t. TypeOK /\ Placed /\ PersistentKind
  BY Zenon DEF ConnInv, PersistentPlaced
<1>k. Known \subseteq Conns
  BY Zenon, <1>t DEF TypeOK, Known
<1>n. ASSUME NEW c \in Conns, c \notin persistent, pc[c] \notin {"dialing", "open"}
      PROVE  c \notin Known /\ \A a \in Addrs : connIDByAddr[a] # c
  <2>1. c \notin Known
    BY Zenon, <1>t, <1>n DEF Placed, PlacedAt, Known
  <2> QED BY Zenon, <2>1, ConnsAssumption DEF OutgoingIndexed, Known, Connections
<1>0. CASE UNCHANGED <<kind, addr, mapVars>>
  <2>1. /\ connIDByAddr' = connIDByAddr /\ Known' = Known
        /\ \A d \in Known : kind'[d] = kind[d] /\ addr'[d] = addr[d]
    BY Zenon, <1>0 DEF mapVars, Known
  <2> QED BY Zenon, <2>1, IndexKept
<1>1. ASSUME NEW c \in Conns, c \notin persistent, pc[c] \notin {"dialing", "open"},
             \E k : kind' = [kind EXCEPT ![c] = k], \E a : addr' = [addr EXCEPT ![c] = a],
             UNCHANGED mapVars
      PROVE  OutgoingIndexed'
  <2>1. c \notin Known
    BY Zenon, <1>1, <1>n
  <2>2. \A d \in Known : kind'[d] = kind[d] /\ addr'[d] = addr[d]
    BY Zenon, <1>t, <1>k, <1>1, <2>1 DEF TypeOK
  <2>3. connIDByAddr' = connIDByAddr /\ Known' = Known
    BY Zenon, <1>1 DEF mapVars, Known
  <2> QED BY Zenon, <2>2, <2>3, IndexKept
<1>2. ASSUME NEW c \in Conns, NEW a \in Addrs, Connect(c, a) \/ Accept(c, a)
      PROVE  OutgoingIndexed'
  <2>1. /\ c \notin persistent /\ pc[c] = "free"
        /\ \E k : kind' = [kind EXCEPT ![c] = k]
        /\ \E e : addr' = [addr EXCEPT ![c] = e]
        /\ UNCHANGED mapVars
    BY Zenon, <1>2 DEF Connect, Accept, Begin, Unused
  <2> QED BY Zenon, <1>1, <2>1
<1>3. ASSUME NEW c \in Conns, OutboundAcquire(c)
      PROVE  OutgoingIndexed'
  <2>1. /\ c \notin persistent /\ pc[c] = "free"
        /\ \E k : kind' = [kind EXCEPT ![c] = k]
        /\ \E e : addr' = [addr EXCEPT ![c] = e]
        /\ UNCHANGED mapVars
    BY Zenon, <1>3 DEF OutboundAcquire, Begin, Unused
  <2> QED BY Zenon, <1>1, <2>1
<1>4. ASSUME NEW c \in Conns, NEW a \in KnownAddrs, PickOutboundAddr(c, a)
      PROVE  OutgoingIndexed'
  <2>1. pc[c] = "pick" /\ kind' = kind /\ UNCHANGED mapVars
    BY Zenon, <1>4 DEF PickOutboundAddr
  <2>2. kind[c] = "outbound"
    BY Zenon, <1>t, <2>1 DEF Placed, PlacedAt, HeldAtPoint
  <2>3. c \notin persistent
    BY Zenon, <1>t, <2>2 DEF PersistentKind
  <2>4. \E k : kind' = [kind EXCEPT ![c] = k]
    BY Zenon, <1>t, <2>1 DEF TypeOK
  <2>5. \E e : addr' = [addr EXCEPT ![c] = e]
    BY Zenon, <1>4 DEF PickOutboundAddr
  <2> QED BY Zenon, <1>1, <2>1, <2>3, <2>4, <2>5
<1>5. ASSUME NEW c \in Conns, Released(c)
      PROVE  OutgoingIndexed'
  <2>1. CASE kind[c] = "persistent"
    BY Zenon, <1>0, <1>5, <2>1 DEF Released
  <2>2. CASE kind[c] # "persistent"
    <3>1. c \notin persistent
      BY Zenon, <1>t, <2>2 DEF PersistentKind
    <3>2. /\ pc[c] \notin {"dialing", "open"}
          /\ \E k : kind' = [kind EXCEPT ![c] = k]
          /\ \E e : addr' = [addr EXCEPT ![c] = e]
          /\ UNCHANGED mapVars
      BY Zenon, <1>5, <2>2 DEF Released
    <3> QED BY Zenon, <1>1, <3>1, <3>2
  <2> QED BY Zenon, <2>1, <2>2
<1>6. ASSUME NEW c \in Conns, NEW a \in Addrs, AddPersistent(c, a)
      PROVE  OutgoingIndexed'
  <2>1. /\ ~RejectDuplicateAddr(a) /\ pc[c] = "free" /\ c \notin persistent
        /\ kind' = [kind EXCEPT ![c] = "persistent"] /\ addr' = [addr EXCEPT ![c] = a]
        /\ persistent' = persistent \cup {c} /\ UNCHANGED <<pending, active>>
        /\ connIDByAddr' = [connIDByAddr EXCEPT ![a] = c]
    BY Zenon, <1>6 DEF AddPersistent, Begin, Unused
  <2>2. /\ addr'[c] = a
        /\ \A d \in Conns \ {c} : kind'[d] = kind[d] /\ addr'[d] = addr[d]
    BY Zenon, <1>t, <2>1 DEF TypeOK
  <2>3. Known' = Known \cup {c}
    BY Zenon, <2>1 DEF Known
  <2>4. \A d \in Known \ {c} : kind[d] # "inbound" => addr[d] # a
    BY Zenon, <1>t, <2>1, NotRejected
  <2>5. \A b \in Addrs : connIDByAddr[b] = c => b = a
    BY Zenon, <1>n, <2>1
  <2> QED BY Zenon, <1>t, <2>1, <2>2, <2>3, <2>4, <2>5, IndexAdded
<1>7. ASSUME NEW c \in Conns, AcceptAdd(c)
      PROVE  OutgoingIndexed'
  <2>1. /\ pc[c] = "add" /\ kind' = kind /\ addr' = addr
        /\ UNCHANGED <<persistent, pending>> /\ active' = active \cup {c}
        /\ connIDByAddr' = Indexed(c)
    BY Zenon, <1>7 DEF AcceptAdd, Move
  <2>2. kind[c] = "inbound"
    BY Zenon, <1>t, <2>1 DEF Placed, PlacedAt, HeldAtPoint
  <2>3. c \notin persistent
    BY Zenon, <1>t, <2>2 DEF PersistentKind
  <2>4. connIDByAddr' = [connIDByAddr EXCEPT ![addr[c]] = c] /\ addr'[c] = addr[c]
    BY Zenon, <2>1, <2>3 DEF Indexed
  <2>5. Known' = Known \cup {c} /\ addr[c] \in Addrs
    BY Zenon, <1>t, <2>1 DEF Known, TypeOK
  <2>6. \A d \in Known \ {c} : kind[d] # "inbound" => addr[d] # addr[c]
    BY Zenon, <2>2 DEF AddressesApart
  <2>7. \A b \in Addrs : connIDByAddr[b] = c => b = addr[c]
    BY Zenon, <1>n, <2>1, <2>3
  <2> QED BY Zenon, <1>t, <2>1, <2>4, <2>5, <2>6, <2>7, IndexAdded
<1>8. ASSUME NEW c \in Conns, DialRegister(c)
      PROVE  OutgoingIndexed'
  <2>1. CASE /\ ~RejectDial(c) /\ Move(c, "register", "dialing")
             /\ pending' = pending \cup {c} /\ connIDByAddr' = Indexed(c)
    <3>1. /\ pc[c] = "register" /\ kind' = kind /\ addr' = addr
          /\ UNCHANGED <<persistent, active>> /\ addr[c] \in Addrs
      BY Zenon, <1>t, <1>8, <2>1 DEF DialRegister, Move, TypeOK
    <3>2. Known' = Known \cup {c}
      BY Zenon, <2>1, <3>1 DEF Known
    <3>3. CASE c \in persistent
      <4>1. connIDByAddr' = connIDByAddr /\ Known' = Known
        BY Zenon, <2>1, <3>2, <3>3 DEF Indexed, Known
      <4> QED BY Zenon, <3>1, <4>1, IndexKept
    <3>4. CASE c \notin persistent
      <4>1. connIDByAddr' = [connIDByAddr EXCEPT ![addr[c]] = c] /\ addr'[c] = addr[c]
        BY Zenon, <2>1, <3>1, <3>4 DEF Indexed
      <4>2. \A b \in Addrs : connIDByAddr[b] = c => b = addr[c]
        BY Zenon, <1>n, <3>1, <3>4
      <4>3. \A d \in Known \ {c} : kind[d] # "inbound" => addr[d] # addr[c]
        <5>1. CASE kind[c] # "persistent"
          BY Zenon, <1>t, <2>1, <3>1, <5>1, NotRejected DEF RejectDial
        <5>2. CASE kind[c] = "persistent"
          <6> SUFFICES ASSUME NEW d \in Known \ {c}, kind[d] # "inbound", addr[d] = addr[c]
                       PROVE  FALSE
            OBVIOUS
          <6>1. connIDByAddr[addr[c]] = d
            BY Zenon DEF OutgoingIndexed, Known, Connections
          <6>2. d \in persistent
            BY Zenon, <2>1, <5>2, <6>1 DEF RejectDial, RejectConnectedAddr, Known
          <6>3. kind[d] = "persistent" /\ d \in Conns
            BY Zenon, <1>t, <1>k, <6>2 DEF PersistentKind
          <6>4. pc[c] # "free" /\ c # d
            BY Zenon, <3>1
          <6> QED BY Zenon, <5>2, <6>2, <6>3, <6>4 DEF AddressesApart
        <5> QED BY Zenon, <5>1, <5>2
      <4> QED BY Zenon, <1>t, <3>1, <3>2, <4>1, <4>2, <4>3, IndexAdded
    <3> QED BY Zenon, <3>3, <3>4
  <2>2. CASE UNCHANGED <<pending, connIDByAddr>> /\ Move(c, "register", "release")
    BY Zenon, <1>0, <1>8, <2>2 DEF DialRegister, Move, mapVars
  <2> QED BY Zenon, <1>8, <2>1, <2>2 DEF DialRegister
<1>9. ASSUME NEW c \in Known, kind' = kind, addr' = addr, connIDByAddr' = Unindexed(c),
             persistent' = persistent,
             \/ c \in pending /\ pending' = pending \ {c} /\ active' = active
             \/ c \in active /\ active' = active \ {c} /\ pending' = pending
      PROVE  OutgoingIndexed'
  <2>0. pending \cap active = {}
    BY Zenon, <1>t, <1>k DEF Placed, PlacedAt, Known
  <2>1. CASE c \in persistent
    <3>1. connIDByAddr' = connIDByAddr /\ Known' = Known
      BY Zenon, <1>9, <2>1 DEF Unindexed, Known
    <3> QED BY Zenon, <1>9, <3>1, IndexKept
  <2>2. CASE c \notin persistent
    <3>1. connIDByAddr' = [connIDByAddr EXCEPT ![addr[c]] = NoConn]
      BY Zenon, <1>9, <2>2 DEF Unindexed
    <3>2. Known' = Known \ {c}
      BY Zenon, <1>9, <2>0, <2>2 DEF Known
    <3> QED BY Zenon, <1>t, <1>9, <3>1, <3>2, IndexDropped
  <2> QED BY Zenon, <2>1, <2>2
<1>10. ASSUME NEW c \in Conns, DialFails(c)
       PROVE  OutgoingIndexed'
  <2>1. CASE c \in pending
    BY Zenon, <1>9, <1>10, <2>1 DEF DialFails, Move, Known
  <2>2. CASE c \notin pending
    BY Zenon, <1>0, <1>10, <2>2 DEF DialFails, Move, mapVars
  <2> QED BY Zenon, <2>1, <2>2
<1>11. ASSUME NEW c \in Conns, DialSucceeds(c)
       PROVE  OutgoingIndexed'
  <2>1. CASE c \in pending
    <3>1. /\ kind' = kind /\ addr' = addr /\ persistent' = persistent
          /\ pending' = pending \ {c} /\ active' = active \cup {c}
          /\ connIDByAddr' = Indexed(c) /\ addr[c] \in Addrs
      BY Zenon, <1>t, <1>11, <2>1 DEF DialSucceeds, Move, TypeOK
    <3>2. Known' = Known /\ c \in Known
      BY Zenon, <2>1, <3>1 DEF Known
    <3>3. CASE c \in persistent
      BY Zenon, <3>1, <3>2, <3>3, IndexKept DEF Indexed
    <3>4. CASE c \notin persistent
      <4>1. connIDByAddr' = [connIDByAddr EXCEPT ![addr[c]] = c] /\ addr'[c] = addr[c]
        BY Zenon, <3>1, <3>4 DEF Indexed
      <4>2. \A d \in Known \ {c} : kind[d] # "inbound" => addr[d] # addr[c]
        BY Zenon, <1>k, <3>2 DEF AddressesApart, OutgoingIndexed, Known, Connections
      <4>3. \A b \in Addrs : connIDByAddr[b] = c => b = addr[c]
        BY Zenon, ConnsAssumption DEF OutgoingIndexed
      <4>4. Known' = Known \cup {c}
        BY Zenon, <3>2
      <4> QED BY Zenon, <1>t, <3>1, <4>1, <4>2, <4>3, <4>4, IndexAdded
    <3> QED BY Zenon, <3>3, <3>4
  <2>2. CASE c \notin pending
    BY Zenon, <1>0, <1>11, <2>2 DEF DialSucceeds, Move, mapVars
  <2> QED BY Zenon, <2>1, <2>2
<1>12. ASSUME NEW c \in Conns, Close(c)
       PROVE  OutgoingIndexed'
  <2>1. CASE c \in active
    BY Zenon, <1>9, <1>12, <2>1 DEF Close, Known
  <2>2. CASE c \notin active
    BY Zenon, <1>0, <1>12, <2>2 DEF Close, mapVars
  <2> QED BY Zenon, <2>1, <2>2
<1>13. ASSUME NEW c \in Conns, Disconnect(c)
       PROVE  OutgoingIndexed'
  BY Zenon, <1>9, <1>13 DEF Disconnect, Known, jobVars
<1>14. ASSUME NEW c \in Conns, RemoveEntry(c)
       PROVE  OutgoingIndexed'
  <2>1. CASE c \in Known
    <3>1. /\ connIDByAddr' = [connIDByAddr EXCEPT ![addr[c]] = NoConn]
          /\ kind' = kind /\ addr' = addr
      BY Zenon, <1>14, <2>1 DEF RemoveEntry
    <3>2. Known' = Known \ {c}
      BY Zenon, <1>14 DEF RemoveEntry, Known
    <3> QED BY Zenon, <1>t, <2>1, <3>1, <3>2, IndexDropped
  <2>2. CASE c \notin Known
    BY Zenon, <1>0, <1>14, <2>2 DEF RemoveEntry, mapVars, Known
  <2> QED BY Zenon, <2>1, <2>2
<1>15. ASSUME NEW c \in Conns,
             \/ ConnectAcquire(c) \/ ConnectRefused(c) \/ ConnectGroup(c)
             \/ OutboundAcquireTotal(c) \/ PickFails(c) \/ OutboundReserve(c)
             \/ AcceptReserve(c) \/ AcceptAcquire(c) \/ DialCheck(c)
             \/ (\E p \in Permits : Release(c, p))
             \/ PersistentAttempt(c) \/ PersistentEnds(c)
       PROVE  OutgoingIndexed'
  <2>1. UNCHANGED <<kind, addr, mapVars>>
    BY Zenon, <1>15 DEF ConnectAcquire, ConnectRefused, ConnectGroup, OutboundAcquireTotal,
       PickFails, OutboundReserve, AcceptReserve, AcceptAcquire, DialCheck, Release,
       PersistentAttempt, PersistentEnds, Move, jobVars
  <2> QED BY Zenon, <1>0, <2>1
<1>16. CASE \/ OutboundCheck \/ OutboundGivesUp \/ AddPersistentSent \/ PersistentStep
            \/ RunCollect \/ RunReturn \/ Shutdown \/ UNCHANGED vars
  <2>1. UNCHANGED <<kind, addr, mapVars>>
    BY Zenon, <1>16 DEF OutboundCheck, OutboundGivesUp, AddPersistentSent, PersistentStep,
       PersistentReceive, PersistentLaunch, PersistentHandlerEnds, RunCollect, RunReturn,
       Shutdown, vars, Move, jobVars
  <2> QED BY Zenon, <1>0, <2>1
<1>17. CASE CallersStep
  BY Zenon, <1>2, <1>6, <1>12, <1>13, <1>14, <1>16, <1>17 DEF CallersStep, Remove
<1>18. ASSUME NEW c \in Conns, Proceed(c) PROVE OutgoingIndexed'
  BY Zenon, <1>4, <1>5, <1>7, <1>8, <1>10, <1>11, <1>15, <1>18 DEF Proceed
<1>19. CASE OutboundStep \/ RunStep
  BY Zenon, <1>3, <1>14, <1>16, <1>19 DEF OutboundStep, RunStep, RunRemove
<1> QED BY Zenon, <1>16, <1>17, <1>18, <1>19 DEF Next

-----------------------------------------------------------------------------
\* Sets of connections are finite, and a step adds or removes one element.
LEMMA ConnSets ==
    ASSUME NEW S \in SUBSET Conns
    PROVE  IsFiniteSet(S) /\ Cardinality(S) \in Nat
  BY Zenon, ConnsAssumption, FS_Subset, FS_CardinalityType

LEMMA OneMore ==
    ASSUME NEW S \in SUBSET Conns, NEW c \in Conns \ S
    PROVE  Cardinality(S \cup {c}) = Cardinality(S) + 1
  BY Zenon, ConnSets, FS_AddElement

LEMMA OneLess ==
    ASSUME NEW S \in SUBSET Conns, NEW c \in S
    PROVE  Cardinality(S) > 0 /\ Cardinality(S \ {c}) = Cardinality(S) - 1
<1>1. IsFiniteSet(S) /\ Cardinality(S) \in Nat
  BY Zenon, ConnSets
<1>2. Cardinality(S \ {c}) = Cardinality(S) - 1
  BY Zenon, <1>1, FS_RemoveElement
<1>3. Cardinality(S \ {c}) \in Nat
  BY Zenon, ConnSets
<1> QED  BY <1>1, <1>2, <1>3

LEMMA Fewer ==
    ASSUME NEW S \in SUBSET Conns, NEW R \in SUBSET S
    PROVE  Cardinality(R) <= Cardinality(S)
  BY Zenon, ConnSets, FS_Subset

LEMMA NoneOfThem == Cardinality({}) = 0
  BY Zenon, FS_EmptySet


-----------------------------------------------------------------------------
\* How a step changes the holders of a permit.
Keeps(p) == Holders(p)' = Holders(p)
Gains(c, p) == c \in Conns \ Holders(p) /\ Holders(p)' = Holders(p) \cup {c}
Loses(c, p) == c \in Holders(p) /\ Holders(p)' = Holders(p) \ {c}

LEMMA HeldKept == ASSUME held' = held, NEW p PROVE Keeps(p)
  BY Zenon DEF Keeps, Holders

LEMMA HeldGained ==
    ASSUME TypeOK, NEW c \in Conns, NEW p \in Permits, p \notin held[c],
           held' = [held EXCEPT ![c] = @ \cup {p}]
    PROVE  Gains(c, p) /\ \A q \in Permits \ {p} : Keeps(q)
  BY Zenon DEF Gains, Keeps, Holders, TypeOK

LEMMA HeldLost ==
    ASSUME TypeOK, NEW c \in Conns, NEW p \in Permits, p \in held[c],
           held' = [held EXCEPT ![c] = @ \ {p}]
    PROVE  Loses(c, p) /\ \A q \in Permits \ {p} : Keeps(q)
  BY Zenon DEF Loses, Keeps, Holders, TypeOK

\* The two semaphores.
LEMMA TotalKept ==
    ASSUME TotalCounted, Keeps("total"), totalNormalConnsSem' = totalNormalConnsSem
    PROVE  TotalCounted'
  BY Zenon DEF TotalCounted, Keeps

LEMMA TotalGained ==
    ASSUME TotalCounted, NEW c, Gains(c, "total"),
           totalNormalConnsSem < MaxNormalConns,
           totalNormalConnsSem' = totalNormalConnsSem + 1
    PROVE  TotalCounted'
<1>1. Holders("total") \in SUBSET Conns /\ c \in Conns \ Holders("total")
  BY Zenon DEF Holders, Gains
<1>2. Cardinality(Holders("total") \cup {c}) = Cardinality(Holders("total")) + 1
  BY Zenon, <1>1, OneMore
<1>3. Cardinality(Holders("total")) \in Nat
  BY Zenon, <1>1, ConnSets
<1>4. Cardinality(Holders("total")') = totalNormalConnsSem'
  BY Zenon, <1>2 DEF TotalCounted, Gains
<1>5. totalNormalConnsSem' <= MaxNormalConns
  BY <1>3, LimitsAssumption DEF TotalCounted
<1> QED  BY <1>4, <1>5 DEF TotalCounted

LEMMA TotalLost ==
    ASSUME TotalCounted, NEW c, Loses(c, "total"),
           totalNormalConnsSem' = Less(totalNormalConnsSem)
    PROVE  TotalCounted'
<1>1. Holders("total") \in SUBSET Conns /\ c \in Holders("total")
  BY Zenon DEF Holders, Loses
<1>2. /\ Cardinality(Holders("total")) > 0
      /\ Cardinality(Holders("total") \ {c}) = Cardinality(Holders("total")) - 1
  BY Zenon, <1>1, OneLess
<1>3. Cardinality(Holders("total")) \in Nat
  BY Zenon, <1>1, ConnSets
<1>4. totalNormalConnsSem' = Cardinality(Holders("total")) - 1
  BY <1>2, <1>3 DEF TotalCounted, Less
<1>5. totalNormalConnsSem' <= MaxNormalConns
  BY <1>3, <1>4, LimitsAssumption DEF TotalCounted
<1> QED  BY <1>2, <1>4, <1>5 DEF TotalCounted, Loses

LEMMA OutboundKept ==
    ASSUME OutboundCounted, Keeps("outbound"),
           activeOutboundsSem' = activeOutboundsSem
    PROVE  OutboundCounted'
  BY Zenon DEF OutboundCounted, Keeps

LEMMA OutboundGained ==
    ASSUME OutboundCounted, NEW c, Gains(c, "outbound"),
           activeOutboundsSem < TargetOutbound,
           activeOutboundsSem' = activeOutboundsSem + 1
    PROVE  OutboundCounted'
<1>1. Holders("outbound") \in SUBSET Conns /\ c \in Conns \ Holders("outbound")
  BY Zenon DEF Holders, Gains
<1>2. Cardinality(Holders("outbound") \cup {c}) = Cardinality(Holders("outbound")) + 1
  BY Zenon, <1>1, OneMore
<1>3. Cardinality(Holders("outbound")) \in Nat
  BY Zenon, <1>1, ConnSets
<1>4. Cardinality(Holders("outbound")') = activeOutboundsSem'
  BY Zenon, <1>2 DEF OutboundCounted, Gains
<1>5. activeOutboundsSem' <= TargetOutbound
  BY <1>3, LimitsAssumption DEF OutboundCounted
<1> QED  BY <1>4, <1>5 DEF OutboundCounted

LEMMA OutboundLost ==
    ASSUME OutboundCounted, NEW c, Loses(c, "outbound"),
           activeOutboundsSem' = Less(activeOutboundsSem)
    PROVE  OutboundCounted'
<1>1. Holders("outbound") \in SUBSET Conns /\ c \in Holders("outbound")
  BY Zenon DEF Holders, Loses
<1>2. /\ Cardinality(Holders("outbound")) > 0
      /\ Cardinality(Holders("outbound") \ {c}) = Cardinality(Holders("outbound")) - 1
  BY Zenon, <1>1, OneLess
<1>3. Cardinality(Holders("outbound")) \in Nat
  BY Zenon, <1>1, ConnSets
<1>4. activeOutboundsSem' = Cardinality(Holders("outbound")) - 1
  BY <1>2, <1>3 DEF OutboundCounted, Less
<1>5. activeOutboundsSem' <= TargetOutbound
  BY <1>3, <1>4, LimitsAssumption DEF OutboundCounted
<1> QED  BY Zenon, <1>2, <1>4, <1>5 DEF OutboundCounted, Loses

\* The counters of the hosts.
SameAddr(S) == \A c \in S : addr'[c] = addr[c]

LEMMA HostsKept ==
    ASSUME HostsCounted, Keeps("host"), SameAddr(Holders("host")),
           perHostCounts' = perHostCounts
    PROVE  HostsCounted'
<1>1. \A h \in Hosts : HostHolders(h)' = HostHolders(h)
  BY Zenon DEF HostHolders, Keeps, SameAddr
<1> QED  BY <1>1 DEF HostsCounted

LEMMA HostGained ==
    ASSUME TypeOK, HostsCounted, NEW c, NEW a \in Addrs, Gains(c, "host"),
           SameAddr(Holders("host")), addr'[c] = a,
           perHostCounts' = [perHostCounts EXCEPT ![Host[a]] = @ + 1],
           perHostCounts[Host[a]] + 1 <= MaxConnsPerHost
    PROVE  HostsCounted'
<1> SUFFICES ASSUME NEW h \in Hosts
             PROVE  /\ perHostCounts'[h] = Cardinality(HostHolders(h)')
                    /\ perHostCounts'[h] <= MaxConnsPerHost
  BY Zenon DEF HostsCounted
<1>1. CASE h = Host[a]
  <2>1. HostHolders(h)' = HostHolders(h) \cup {c}
    BY Zenon, <1>1 DEF HostHolders, Gains, SameAddr
  <2>2. HostHolders(h) \in SUBSET Conns /\ c \in Conns \ HostHolders(h)
    BY Zenon DEF HostHolders, Holders, Gains
  <2>3. Cardinality(HostHolders(h)') = Cardinality(HostHolders(h)) + 1
    BY Zenon, <2>1, <2>2, OneMore
  <2> QED  BY <1>1, <2>3 DEF HostsCounted, TypeOK
<1>2. CASE h # Host[a]
  <2>1. HostHolders(h)' = HostHolders(h)
    BY Zenon, <1>2 DEF HostHolders, Gains, SameAddr
  <2>2. perHostCounts'[h] = perHostCounts[h]
    BY Zenon, <1>2 DEF TypeOK
  <2> QED  BY <2>1, <2>2 DEF HostsCounted
<1> QED  BY <1>1, <1>2

LEMMA HostLost ==
    ASSUME TypeOK, HostsCounted, NEW c, Loses(c, "host"), addr' = addr,
           perHostCounts' = [perHostCounts EXCEPT ![Host[addr[c]]] = @ - 1]
    PROVE  HostsCounted'
<1> SUFFICES ASSUME NEW h \in Hosts
             PROVE  /\ perHostCounts'[h] = Cardinality(HostHolders(h)')
                    /\ perHostCounts'[h] <= MaxConnsPerHost
  BY Zenon DEF HostsCounted
<1>1. CASE h = Host[addr[c]]
  <2>1. HostHolders(h)' = HostHolders(h) \ {c}
    BY Zenon, <1>1 DEF HostHolders, Loses
  <2>2. HostHolders(h) \in SUBSET Conns /\ c \in HostHolders(h)
    BY Zenon, <1>1 DEF HostHolders, Holders, Loses
  <2>3. Cardinality(HostHolders(h)') = Cardinality(HostHolders(h)) - 1
    BY Zenon, <2>1, <2>2, OneLess
  <2>4. perHostCounts'[h] = perHostCounts[h] - 1 /\ perHostCounts[h] \in Nat
    BY Zenon, <1>1 DEF TypeOK
  <2> QED  BY <2>3, <2>4, LimitsAssumption DEF HostsCounted
<1>2. CASE h # Host[addr[c]]
  <2>1. HostHolders(h)' = HostHolders(h)
    BY Zenon, <1>2 DEF HostHolders, Loses
  <2>2. perHostCounts'[h] = perHostCounts[h]
    BY Zenon, <1>2 DEF TypeOK
  <2> QED  BY <2>1, <2>2 DEF HostsCounted
<1> QED  BY <1>1, <1>2

\* The outbound groups.
InGroup(a) == Cardinality(GroupHolders(a)) + Cardinality(PersistentAt(a))

LEMMA InGroupType ==
    ASSUME TypeOK, NEW a
    PROVE  /\ GroupHolders(a) \in SUBSET Conns /\ PersistentAt(a) \in SUBSET Conns
           /\ Cardinality(GroupHolders(a)) \in Nat
           /\ Cardinality(PersistentAt(a)) \in Nat
<1>1. GroupHolders(a) \in SUBSET Conns /\ PersistentAt(a) \in SUBSET Conns
  BY Zenon DEF GroupHolders, Holders, PersistentAt, TypeOK
<1> QED  BY <1>1, ConnSets

LEMMA GroupsKept ==
    ASSUME TypeOK, GroupsCounted, Keeps("group"), persistent' = persistent,
           SameAddr(Holders("group") \cup persistent),
           \/ outboundAddrs' = outboundAddrs
           \/ \E a \in Addrs : RemoveAddr(a)
    PROVE  GroupsCounted'
<1>1. ASSUME NEW a \in Addrs
      PROVE  /\ GroupHolders(a)' = GroupHolders(a)
             /\ PersistentAt(a)' = PersistentAt(a)
  BY Zenon DEF GroupHolders, PersistentAt, Keeps, SameAddr
<1>2. ASSUME NEW a \in Addrs
      PROVE  /\ outboundAddrs[a] \in Nat /\ outboundAddrs'[a] \in Nat
             /\ outboundAddrs'[a] <= outboundAddrs[a]
  BY DEF RemoveAddr, TypeOK
<1> SUFFICES ASSUME NEW a \in Addrs PROVE outboundAddrs'[a] <= InGroup(a)'
  BY Zenon DEF GroupsCounted, InGroup
<1>3. outboundAddrs[a] <= InGroup(a) /\ InGroup(a) \in Nat /\ InGroup(a)' = InGroup(a)
  BY <1>1, InGroupType DEF GroupsCounted, InGroup
<1> QED  BY <1>2, <1>3

\* One more at an address, as a holder of a permit or as a persistent entry.
LEMMA GroupGained ==
    ASSUME TypeOK, GroupsCounted, NEW c, NEW a \in Addrs, addr'[c] = a,
           SameAddr(Holders("group") \cup persistent), AddAddr(a),
           \/ Gains(c, "group") /\ persistent' = persistent
           \/ /\ c \in Conns \ persistent /\ persistent' = persistent \cup {c}
              /\ Keeps("group")
    PROVE  GroupsCounted'
<1> SUFFICES ASSUME NEW b \in Addrs PROVE outboundAddrs'[b] <= InGroup(b)'
  BY Zenon DEF GroupsCounted, InGroup
<1>0. /\ GroupHolders(b) \in SUBSET Conns /\ PersistentAt(b) \in SUBSET Conns
      /\ Cardinality(GroupHolders(b)) \in Nat
      /\ Cardinality(PersistentAt(b)) \in Nat
  BY Zenon, InGroupType
<1>1. CASE b # a
  <2>1. GroupHolders(b)' = GroupHolders(b)
    BY Zenon, <1>1 DEF GroupHolders, Gains, Keeps, SameAddr
  <2>2. PersistentAt(b)' = PersistentAt(b)
    BY Zenon, <1>1 DEF PersistentAt, SameAddr
  <2>3. outboundAddrs'[b] = outboundAddrs[b]
    BY Zenon, <1>1 DEF AddAddr, TypeOK
  <2> QED  BY <2>1, <2>2, <2>3 DEF GroupsCounted, InGroup
<1>2. CASE b = a
  <2>1. outboundAddrs'[b] = outboundAddrs[b] + 1 /\ outboundAddrs[b] \in Nat
    BY Zenon, <1>2 DEF AddAddr, TypeOK
  <2>2. CASE Gains(c, "group") /\ persistent' = persistent
    <3>1. GroupHolders(b)' = GroupHolders(b) \cup {c}
      BY Zenon, <1>2, <2>2 DEF GroupHolders, Gains, SameAddr
    <3>2. PersistentAt(b)' = PersistentAt(b)
      BY Zenon, <2>2 DEF PersistentAt, SameAddr
    <3>3. c \in Conns \ GroupHolders(b)
      BY Zenon, <2>2 DEF GroupHolders, Gains
    <3>4. Cardinality(GroupHolders(b)') = Cardinality(GroupHolders(b)) + 1
      BY Zenon, <1>0, <3>1, <3>3, OneMore
    <3> QED  BY <1>0, <2>1, <3>2, <3>4 DEF GroupsCounted, InGroup
  <2>3. CASE /\ c \in Conns \ persistent /\ persistent' = persistent \cup {c}
             /\ Keeps("group")
    <3>1. GroupHolders(b)' = GroupHolders(b)
      BY Zenon, <1>2, <2>3 DEF GroupHolders, Keeps, SameAddr
    <3>2. PersistentAt(b)' = PersistentAt(b) \cup {c}
      BY Zenon, <1>2, <2>3 DEF PersistentAt, SameAddr
    <3>3. c \in Conns \ PersistentAt(b)
      BY Zenon, <2>3 DEF PersistentAt
    <3>4. Cardinality(PersistentAt(b)') = Cardinality(PersistentAt(b)) + 1
      BY Zenon, <1>0, <3>2, <3>3, OneMore
    <3> QED  BY <1>0, <2>1, <3>1, <3>4 DEF GroupsCounted, InGroup
  <2> QED  BY <2>2, <2>3
<1> QED  BY <1>1, <1>2

\* One less at the address of a connection.
LEMMA GroupLost ==
    ASSUME TypeOK, GroupsCounted, NEW c \in Conns, addr' = addr, RemoveAddr(addr[c]),
           \/ Loses(c, "group") /\ persistent' = persistent
           \/ /\ c \in persistent /\ persistent' = persistent \ {c}
              /\ Keeps("group")
    PROVE  GroupsCounted'
<1> SUFFICES ASSUME NEW b \in Addrs PROVE outboundAddrs'[b] <= InGroup(b)'
  BY Zenon DEF GroupsCounted, InGroup
<1>0. /\ GroupHolders(b) \in SUBSET Conns /\ PersistentAt(b) \in SUBSET Conns
      /\ Cardinality(GroupHolders(b)) \in Nat
      /\ Cardinality(PersistentAt(b)) \in Nat
  BY Zenon, InGroupType
<1>1. CASE b # addr[c]
  <2>1. GroupHolders(b)' = GroupHolders(b)
    BY Zenon, <1>1 DEF GroupHolders, Loses, Keeps
  <2>2. PersistentAt(b)' = PersistentAt(b)
    BY Zenon, <1>1 DEF PersistentAt
  <2>3. outboundAddrs'[b] = outboundAddrs[b]
    BY Zenon, <1>1 DEF RemoveAddr, TypeOK
  <2> QED  BY <2>1, <2>2, <2>3 DEF GroupsCounted, InGroup
<1>2. CASE b = addr[c]
  <2>1. /\ outboundAddrs[b] \in Nat
        /\ outboundAddrs'[b] = IF outboundAddrs[b] = 0 THEN 0 ELSE outboundAddrs[b] - 1
    BY Zenon, <1>2 DEF RemoveAddr, TypeOK
  <2>2. CASE Loses(c, "group") /\ persistent' = persistent
    <3>1. GroupHolders(b)' = GroupHolders(b) \ {c}
      BY Zenon, <2>2 DEF GroupHolders, Loses
    <3>2. PersistentAt(b)' = PersistentAt(b)
      BY Zenon, <2>2 DEF PersistentAt
    <3>3. c \in GroupHolders(b)
      BY Zenon, <1>2, <2>2 DEF GroupHolders, Loses
    <3>4. /\ Cardinality(GroupHolders(b)) > 0
          /\ Cardinality(GroupHolders(b)') = Cardinality(GroupHolders(b)) - 1
      BY Zenon, <1>0, <3>1, <3>3, OneLess
    <3> QED  BY <1>0, <2>1, <3>2, <3>4 DEF GroupsCounted, InGroup
  <2>3. CASE /\ c \in persistent /\ persistent' = persistent \ {c}
             /\ Keeps("group")
    <3>1. GroupHolders(b)' = GroupHolders(b)
      BY Zenon, <2>3 DEF GroupHolders, Keeps
    <3>2. PersistentAt(b)' = PersistentAt(b) \ {c}
      BY Zenon, <2>3 DEF PersistentAt
    <3>3. c \in PersistentAt(b)
      BY Zenon, <1>2, <2>3 DEF PersistentAt
    <3>4. /\ Cardinality(PersistentAt(b)) > 0
          /\ Cardinality(PersistentAt(b)') = Cardinality(PersistentAt(b)) - 1
      BY Zenon, <1>0, <3>2, <3>3, OneLess
    <3> QED  BY <1>0, <2>1, <3>1, <3>4 DEF GroupsCounted, InGroup
  <2> QED  BY <2>2, <2>3
<1> QED  BY <1>1, <1>2

\* When a connection that holds nothing gets its address, no counter is affected.
LEMMA NewAddress ==
    ASSUME TypeOK, NEW c \in Conns, held[c] = {}, c \notin persistent, NEW a,
           addr' = [addr EXCEPT ![c] = a]
    PROVE  /\ SameAddr(Holders("host"))
           /\ SameAddr(Holders("group") \cup persistent)
  BY Zenon DEF SameAddr, Holders, TypeOK

LEMMA CountedStep == ConnInv /\ [Next]_vars => Counted'
<1> SUFFICES ASSUME ConnInv, [Next]_vars PROVE Counted'
  OBVIOUS
<1>t. TypeOK /\ Placed
  BY Zenon DEF ConnInv
<1>c. TotalCounted /\ OutboundCounted /\ HostsCounted /\ GroupsCounted
  BY Zenon DEF ConnInv, Counted
<1>p. {"total", "outbound", "host", "group"} \subseteq Permits
  BY Zenon DEF Permits
<1>1. ASSUME NEW c \in Conns, NEW a \in Addrs, Connect(c, a) PROVE Counted'
  <2>1. /\ addr' = [addr EXCEPT ![c] = a] /\ pc[c] = "free" /\ c \notin persistent
        /\ totalNormalConnsSem' = totalNormalConnsSem
        /\ activeOutboundsSem' = activeOutboundsSem
        /\ outboundAddrs' = outboundAddrs /\ persistent' = persistent
    BY Zenon, <1>1 DEF Connect, Begin, Unused, mapVars
  <2>2. held[c] = {} /\ addr'[c] = a
    BY Zenon, <1>t, <2>1 DEF Placed, PlacedAt, HeldAtPoint, TypeOK
  <2>3. SameAddr(Holders("host")) /\ SameAddr(Holders("group") \cup persistent)
    BY Zenon, <1>t, <2>1, <2>2, NewAddress
  <2>4. CASE held' = held /\ perHostCounts' = perHostCounts
    BY Zenon, <1>t, <1>c, <2>1, <2>3, <2>4, HeldKept, TotalKept, OutboundKept,
       HostsKept, GroupsKept DEF Counted
  <2>5. CASE /\ NeedsHostPermit(a) /\ held' = [held EXCEPT ![c] = @ \cup {"host"}]
             /\ perHostCounts' = [perHostCounts EXCEPT ![Host[a]] = @ + 1]
    <3>1. perHostCounts[Host[a]] + 1 <= MaxConnsPerHost
      BY Zenon, <1>1, <2>5 DEF Connect, HostPermitFree
    <3>2. Gains(c, "host") /\ Keeps("total") /\ Keeps("outbound") /\ Keeps("group")
      BY Zenon, <1>t, <1>p, <2>2, <2>5, HeldGained
    <3>3. HostsCounted'
      BY Zenon, <1>t, <1>c, <2>2, <2>3, <2>5, <3>1, <3>2, HostGained
    <3> QED
      BY Zenon, <1>t, <1>c, <2>1, <2>3, <3>2, <3>3, TotalKept, OutboundKept, GroupsKept
      DEF Counted
  <2> QED  BY <1>1, <2>4, <2>5, ReserveStep DEF Connect
<1>2. ASSUME NEW c \in Conns, NEW a \in Addrs, Accept(c, a) PROVE Counted'
  <2>1. /\ addr' = [addr EXCEPT ![c] = a] /\ pc[c] = "free" /\ c \notin persistent
        /\ held' = held /\ totalNormalConnsSem' = totalNormalConnsSem
        /\ activeOutboundsSem' = activeOutboundsSem
        /\ perHostCounts' = perHostCounts
        /\ outboundAddrs' = outboundAddrs /\ persistent' = persistent
    BY Zenon, <1>2 DEF Accept, Begin, Unused, mapVars, permitVars
  <2>2. held[c] = {}
    BY Zenon, <1>t, <2>1 DEF Placed, PlacedAt, HeldAtPoint
  <2>3. SameAddr(Holders("host")) /\ SameAddr(Holders("group") \cup persistent)
    BY Zenon, <1>t, <2>1, <2>2, NewAddress
  <2> QED
    BY Zenon, <1>t, <1>c, <2>1, <2>3, HeldKept, TotalKept, OutboundKept, HostsKept,
       GroupsKept DEF Counted
<1>3. ASSUME NEW c \in Conns, NEW a \in Addrs, AddPersistent(c, a) PROVE Counted'
  <2>1. /\ addr' = [addr EXCEPT ![c] = a] /\ pc[c] = "free" /\ c \notin persistent
        /\ held' = held /\ totalNormalConnsSem' = totalNormalConnsSem
        /\ activeOutboundsSem' = activeOutboundsSem
        /\ perHostCounts' = perHostCounts
        /\ AddAddr(a) /\ persistent' = persistent \cup {c}
    BY Zenon, <1>3 DEF AddPersistent, Begin, Unused, permitVars
  <2>2. held[c] = {} /\ addr'[c] = a
    BY Zenon, <1>t, <2>1 DEF Placed, PlacedAt, HeldAtPoint, TypeOK
  <2>3. SameAddr(Holders("host")) /\ SameAddr(Holders("group") \cup persistent)
    BY Zenon, <1>t, <2>1, <2>2, NewAddress
  <2>4. GroupsCounted'
    BY Zenon, <1>t, <1>c, <2>1, <2>2, <2>3, HeldKept, GroupGained
  <2> QED
    BY Zenon, <1>c, <2>1, <2>3, <2>4, HeldKept, TotalKept, OutboundKept, HostsKept
    DEF Counted
<1>4. ASSUME NEW c \in Conns, OutboundAcquire(c) PROVE Counted'
  <2>1. /\ addr' = [addr EXCEPT ![c] = AnyAddr]
        /\ pc[c] = "free" /\ c \notin persistent
        /\ held' = [held EXCEPT ![c] = {"outbound"}]
        /\ totalNormalConnsSem' = totalNormalConnsSem
        /\ activeOutboundsSem < TargetOutbound
        /\ activeOutboundsSem' = activeOutboundsSem + 1
        /\ perHostCounts' = perHostCounts
        /\ outboundAddrs' = outboundAddrs /\ persistent' = persistent
    BY Zenon, <1>4 DEF OutboundAcquire, Begin, Unused, mapVars
  <2>2. held[c] = {} /\ held' = [held EXCEPT ![c] = @ \cup {"outbound"}]
    BY Zenon, <1>t, <2>1 DEF Placed, PlacedAt, HeldAtPoint, TypeOK
  <2>3. SameAddr(Holders("host")) /\ SameAddr(Holders("group") \cup persistent)
    BY Zenon, <1>t, <2>1, <2>2, NewAddress
  <2>4. Gains(c, "outbound") /\ Keeps("total") /\ Keeps("host") /\ Keeps("group")
    BY Zenon, <1>t, <1>p, <2>2, HeldGained
  <2>5. OutboundCounted'
    BY Zenon, <1>c, <2>1, <2>4, OutboundGained
  <2> QED
    BY Zenon, <1>t, <1>c, <2>1, <2>3, <2>4, <2>5, TotalKept, HostsKept, GroupsKept
    DEF Counted
<1>5. ASSUME NEW c \in Conns, AcquireTotal(c), "total" \notin held[c], addr' = addr,
             UNCHANGED <<activeOutboundsSem, perHostCounts, outboundAddrs, persistent>>
      PROVE  Counted'
  <2>1. Gains(c, "total") /\ Keeps("outbound") /\ Keeps("host") /\ Keeps("group")
    BY Zenon, <1>t, <1>p, <1>5, HeldGained DEF AcquireTotal
  <2>2. TotalCounted'
    BY Zenon, <1>c, <1>5, <2>1, TotalGained DEF AcquireTotal
  <2>3. \A S : SameAddr(S)
    BY Zenon, <1>5 DEF SameAddr
  <2> QED
    BY Zenon, <1>t, <1>c, <1>5, <2>1, <2>2, <2>3, OutboundKept, HostsKept, GroupsKept
    DEF Counted
<1>6. ASSUME NEW c \in Conns, ConnectAcquire(c) \/ OutboundAcquireTotal(c)
      PROVE  Counted'
  <2>1. pc[c] = "total" /\ addr' = addr /\ AcquireTotal(c)
    BY Zenon, <1>6 DEF ConnectAcquire, OutboundAcquireTotal, Move
  <2>2. "total" \notin held[c]
    BY Zenon, <1>t, <2>1 DEF Placed, PlacedAt, HeldAtPoint, HostPermits
  <2>3. UNCHANGED <<activeOutboundsSem, perHostCounts, outboundAddrs, persistent>>
    BY Zenon, <1>6 DEF ConnectAcquire, OutboundAcquireTotal, mapVars
  <2> QED  BY <1>5, <2>1, <2>2, <2>3
<1>7. ASSUME NEW c \in Conns, ConnectGroup(c) PROVE Counted'
  <2>1. /\ pc[c] = "group" /\ addr' = addr /\ AddAddr(addr[c])
        /\ held' = [held EXCEPT ![c] = @ \cup {"group"}]
        /\ totalNormalConnsSem' = totalNormalConnsSem
        /\ activeOutboundsSem' = activeOutboundsSem
        /\ perHostCounts' = perHostCounts /\ persistent' = persistent
    BY Zenon, <1>7 DEF ConnectGroup, Move, mapVars
  <2>2. "group" \notin held[c] /\ addr[c] \in Addrs
    BY Zenon, <1>t, <2>1 DEF Placed, PlacedAt, HeldAtPoint, HostPermits, TypeOK
  <2>3. Gains(c, "group") /\ Keeps("outbound") /\ Keeps("host") /\ Keeps("total")
    BY Zenon, <1>t, <1>p, <2>1, <2>2, HeldGained
  <2>4. \A S : SameAddr(S)
    BY Zenon, <2>1 DEF SameAddr
  <2>5. GroupsCounted'
    BY Zenon, <1>t, <1>c, <2>1, <2>2, <2>3, <2>4, GroupGained
  <2> QED
    BY Zenon, <1>c, <2>1, <2>3, <2>4, <2>5, TotalKept, OutboundKept, HostsKept DEF Counted
<1>8. ASSUME NEW c \in Conns, NEW a \in KnownAddrs, PickOutboundAddr(c, a)
      PROVE  Counted'
  <2>1. /\ pc[c] = "pick" /\ addr' = [addr EXCEPT ![c] = a] /\ AddAddr(a)
        /\ held' = [held EXCEPT ![c] = @ \cup {"group"}]
        /\ totalNormalConnsSem' = totalNormalConnsSem
        /\ activeOutboundsSem' = activeOutboundsSem
        /\ perHostCounts' = perHostCounts /\ persistent' = persistent
    BY Zenon, <1>8 DEF PickOutboundAddr, mapVars
  <2>2. kind[c] = "outbound" /\ held[c] = {"outbound", "total"}
    BY Zenon, <1>t, <2>1 DEF Placed, PlacedAt, HeldAtPoint
  <2>3. c \notin persistent
    BY Zenon, <2>2 DEF ConnInv, PersistentPlaced, PersistentKind
  <2>4. /\ SameAddr(Holders("host")) /\ SameAddr(Holders("group") \cup persistent)
        /\ addr'[c] = a /\ a \in Addrs
    <3>1. c \notin Holders("host") /\ c \notin Holders("group") \cup persistent
      BY Zenon, <2>2, <2>3 DEF Holders
    <3>2. addr'[c] = a /\ \A d \in Conns \ {c} : addr'[d] = addr[d]
      BY Zenon, <1>t, <2>1 DEF TypeOK
    <3>3. /\ Holders("host") \subseteq Conns /\ a \in Addrs
          /\ Holders("group") \cup persistent \subseteq Conns
      BY Zenon, <1>t, AddrsAssumption DEF Holders, TypeOK
    <3> QED  BY <3>1, <3>2, <3>3 DEF SameAddr
  <2>5. Gains(c, "group") /\ Keeps("outbound") /\ Keeps("host") /\ Keeps("total")
    BY Zenon, <1>t, <1>p, <2>1, <2>2, HeldGained
  <2>6. GroupsCounted'
    BY Zenon, <1>t, <1>c, <2>1, <2>4, <2>5, GroupGained
  <2> QED
    BY Zenon, <1>c, <2>1, <2>4, <2>5, <2>6, TotalKept, OutboundKept, HostsKept DEF Counted
<1>9. ASSUME NEW c \in Conns, ReserveHostPermit(c, addr[c]), HostPermitFree(addr[c]),
             "host" \notin held[c], addr' = addr,
             UNCHANGED <<totalNormalConnsSem, activeOutboundsSem, outboundAddrs,
                         persistent>>
      PROVE  Counted'
  <2>1. addr[c] \in Addrs /\ \A S : SameAddr(S)
    BY Zenon, <1>t, <1>9 DEF TypeOK, SameAddr
  <2>2. CASE held' = held /\ perHostCounts' = perHostCounts
    BY Zenon, <1>t, <1>c, <1>9, <2>1, <2>2, HeldKept, TotalKept, OutboundKept,
       HostsKept, GroupsKept DEF Counted
  <2>3. CASE /\ NeedsHostPermit(addr[c])
             /\ held' = [held EXCEPT ![c] = @ \cup {"host"}]
             /\ perHostCounts' = [perHostCounts EXCEPT ![Host[addr[c]]] = @ + 1]
    <3>1. perHostCounts[Host[addr[c]]] + 1 <= MaxConnsPerHost
      BY Zenon, <1>9, <2>3 DEF HostPermitFree
    <3>2. Gains(c, "host") /\ Keeps("total") /\ Keeps("outbound") /\ Keeps("group")
      BY Zenon, <1>t, <1>p, <1>9, <2>3, HeldGained
    <3>3. HostsCounted'
      BY Zenon, <1>t, <1>c, <1>9, <2>1, <2>3, <3>1, <3>2, HostGained
    <3> QED
      BY Zenon, <1>t, <1>c, <1>9, <2>1, <3>2, <3>3, TotalKept, OutboundKept, GroupsKept
      DEF Counted
  <2> QED  BY <1>9, <2>1, <2>2, <2>3, ReserveStep
<1>10. ASSUME UNCHANGED <<addr, held, totalNormalConnsSem, activeOutboundsSem,
                          perHostCounts, persistent>>,
              outboundAddrs' = outboundAddrs \/ \E a \in Addrs : RemoveAddr(a)
       PROVE  Counted'
  <2>1. \A S : SameAddr(S)
    BY Zenon, <1>10 DEF SameAddr
  <2> QED
    BY Zenon, <1>t, <1>c, <1>10, <2>1, HeldKept, TotalKept, OutboundKept, HostsKept,
       GroupsKept DEF Counted
<1>11. ASSUME NEW c \in Conns,
              OutboundReserve(c) \/ AcceptReserve(c) \/ PersistentAttempt(c)
       PROVE  Counted'
  <2>1. /\ addr' = addr
        /\ (kind[c] \in {"outbound", "inbound"} /\ pc[c] = "host") \/ pc[c] = "wait"
        /\ \/ HostPermitFree(addr[c]) /\ ReserveHostPermit(c, addr[c])
           \/ perHostCounts' = perHostCounts /\ held' = held
    BY Zenon, <1>11 DEF OutboundReserve, AcceptReserve, PersistentAttempt, Move
  <2>2. UNCHANGED <<totalNormalConnsSem, activeOutboundsSem, outboundAddrs, persistent>>
    BY Zenon, <1>11 DEF OutboundReserve, AcceptReserve, PersistentAttempt, mapVars
  <2>3. "host" \notin held[c]
    BY Zenon, <1>t, <2>1 DEF Placed, PlacedAt, HeldAtPoint
  <2> QED  BY <1>9, <1>10, <2>1, <2>2, <2>3
<1>12. ASSUME NEW c \in Conns, AcceptAcquire(c) PROVE Counted'
  <2>1. /\ addr' = addr /\ kind[c] = "inbound" /\ pc[c] = "total"
        /\ \/ AcquireTotal(c)
           \/ totalNormalConnsSem' = totalNormalConnsSem /\ held' = held
    BY Zenon, <1>12 DEF AcceptAcquire
  <2>2. UNCHANGED <<activeOutboundsSem, perHostCounts, outboundAddrs, persistent>>
    BY Zenon, <1>12 DEF AcceptAcquire, mapVars
  <2>3. "total" \notin held[c]
    BY Zenon, <1>t, <2>1 DEF Placed, PlacedAt, HeldAtPoint, HostPermits
  <2> QED  BY Zenon, <1>5, <1>10, <2>1, <2>2, <2>3
<1>13. ASSUME NEW c \in Conns, NEW p \in Permits, Release(c, p) PROVE Counted'
  <2>1. /\ p \in held[c] /\ held' = [held EXCEPT ![c] = @ \ {p}]
        /\ addr' = addr /\ persistent' = persistent
    BY Zenon, <1>13 DEF Release, jobVars, mapVars
  <2>2. Loses(c, p) /\ \A q \in Permits \ {p} : Keeps(q)
    BY Zenon, <1>t, <2>1, HeldLost
  <2>3. \A S : SameAddr(S)
    BY Zenon, <2>1 DEF SameAddr
  <2>4. TotalCounted'
    <3>1. CASE p = "total"
      BY Zenon, <1>c, <1>13, <2>2, <3>1, TotalLost DEF Release
    <3>2. CASE p # "total"
      <4>1. Keeps("total") /\ totalNormalConnsSem' = totalNormalConnsSem
        BY Zenon, <1>p, <1>13, <2>2, <3>2 DEF Release
      <4> QED  BY <1>c, <4>1, TotalKept
    <3> QED  BY <3>1, <3>2
  <2>5. OutboundCounted'
    <3>1. CASE p = "outbound"
      BY Zenon, <1>c, <1>13, <2>2, <3>1, OutboundLost DEF Release
    <3>2. CASE p # "outbound"
      <4>1. Keeps("outbound") /\ activeOutboundsSem' = activeOutboundsSem
        BY Zenon, <1>p, <1>13, <2>2, <3>2 DEF Release
      <4> QED  BY <1>c, <4>1, OutboundKept
    <3> QED  BY Zenon, <3>1, <3>2
  <2>6. HostsCounted'
    <3>1. CASE p = "host"
      BY Zenon, <1>t, <1>c, <1>13, <2>1, <2>2, <3>1, HostLost DEF Release
    <3>2. CASE p # "host"
      <4>1. Keeps("host") /\ perHostCounts' = perHostCounts
        BY Zenon, <1>p, <1>13, <2>2, <3>2 DEF Release
      <4> QED  BY <1>c, <2>3, <4>1, HostsKept
    <3> QED  BY Zenon, <3>1, <3>2
  <2>7. GroupsCounted'
    <3>1. CASE p = "group"
      <4>1. RemoveAddr(addr[c])
        BY Zenon, <1>13, <3>1 DEF Release
      <4> QED  BY Zenon, <1>t, <1>c, <2>1, <2>2, <3>1, <4>1, GroupLost
    <3>2. CASE p # "group"
      <4>1. Keeps("group") /\ outboundAddrs' = outboundAddrs
        BY Zenon, <1>p, <1>13, <2>2, <3>2 DEF Release
      <4> QED  BY <1>t, <1>c, <2>1, <2>3, <4>1, GroupsKept
    <3> QED  BY <3>1, <3>2
  <2> QED  BY Zenon, <2>4, <2>5, <2>6, <2>7 DEF Counted
<1>14. ASSUME NEW c \in Conns, Released(c) PROVE Counted'
  <2>1. /\ held[c] = {} /\ UNCHANGED <<persistent, permitVars, outboundAddrs>>
        /\ \/ addr' = addr
           \/ kind[c] # "persistent" /\ addr' = [addr EXCEPT ![c] = AnyAddr]
    BY Zenon, <1>14 DEF Released, mapVars
  <2>2. CASE addr' = addr
    BY Zenon, <1>10, <2>1, <2>2 DEF permitVars
  <2>3. CASE kind[c] # "persistent" /\ addr' = [addr EXCEPT ![c] = AnyAddr]
    <3>1. c \notin persistent
      BY Zenon, <2>3 DEF ConnInv, PersistentPlaced, PersistentKind
    <3>2. SameAddr(Holders("host")) /\ SameAddr(Holders("group") \cup persistent)
      BY Zenon, <1>t, <2>1, <2>3, <3>1, NewAddress
    <3> QED
      BY Zenon, <1>t, <1>c, <2>1, <3>2, HeldKept, TotalKept, OutboundKept, HostsKept,
         GroupsKept DEF Counted, permitVars
  <2> QED  BY <2>1, <2>2, <2>3
<1>15. ASSUME NEW c \in Conns, RemoveEntry(c) PROVE Counted'
  <2>1. /\ addr' = addr /\ UNCHANGED permitVars /\ addr[c] \in Addrs
        /\ persistent' = persistent \ {c}
        /\ c \in persistent => RemoveAddr(addr[c])
        /\ RemoveAddr(addr[c]) \/ outboundAddrs' = outboundAddrs
    BY Zenon, <1>t, <1>15 DEF RemoveEntry, TypeOK
  <2>2. CASE c \notin persistent
    <3>1. persistent' = persistent
      BY Zenon, <2>1, <2>2
    <3> QED  BY <1>10, <2>1, <3>1 DEF permitVars
  <2>3. CASE c \in persistent
    <3>1. GroupsCounted'
      BY Zenon, <1>t, <1>c, <2>1, <2>3, HeldKept, GroupLost DEF permitVars
    <3>2. \A S : SameAddr(S)
      BY Zenon, <2>1 DEF SameAddr
    <3> QED
      BY Zenon, <1>c, <2>1, <3>1, <3>2, HeldKept, TotalKept, OutboundKept, HostsKept
      DEF Counted, permitVars
  <2> QED  BY <2>2, <2>3
<1>16. ASSUME NEW c \in Conns, Remove(c) \/ RunRemove(c) PROVE Counted'
  BY Zenon, <1>15, <1>16 DEF Remove, RunRemove
<1>17. ASSUME NEW c \in Conns, Disconnect(c) PROVE Counted'
  <2>1. /\ UNCHANGED <<jobVars, persistent, permitVars>> /\ addr[c] \in Addrs
        /\ outboundAddrs' = outboundAddrs \/ RemoveAddr(addr[c])
    BY Zenon, <1>t, <1>17 DEF Disconnect, TypeOK
  <2> QED  BY <1>10, <2>1 DEF jobVars, permitVars
<1>18. ASSUME NEW c \in Conns,
              \/ ConnectRefused(c) \/ PickFails(c) \/ AcceptAdd(c) \/ DialCheck(c)
              \/ DialRegister(c) \/ DialFails(c) \/ DialSucceeds(c) \/ Close(c)
              \/ PersistentEnds(c)
       PROVE  Counted'
  <2>1. UNCHANGED <<addr, permitVars, outboundAddrs, persistent>>
    BY Zenon, <1>18
    DEF ConnectRefused, PickFails, AcceptAdd, DialCheck, DialRegister, DialFails,
        DialSucceeds, Close, PersistentEnds, Move, mapVars
  <2> QED  BY <1>10, <2>1 DEF permitVars
<1>19. CASE OutboundGivesUp
  <2>1. UNCHANGED <<addr, permitVars, outboundAddrs, persistent>>
    BY Zenon, <1>19 DEF OutboundGivesUp, Move, jobVars, mapVars
  <2> QED  BY <1>10, <2>1 DEF permitVars
<1>20. ASSUME \/ OutboundCheck \/ AddPersistentSent \/ PersistentReceive
              \/ PersistentLaunch \/ PersistentHandlerEnds
              \/ Shutdown \/ RunCollect \/ RunReturn \/ UNCHANGED vars
       PROVE  Counted'
  <2>1. UNCHANGED <<addr, permitVars, outboundAddrs, persistent>>
    BY Zenon, <1>20
    DEF OutboundCheck, AddPersistentSent, PersistentReceive, PersistentLaunch,
        PersistentHandlerEnds, Shutdown, RunCollect, RunReturn, Move, vars,
        jobVars, mapVars
  <2> QED  BY <1>10, <2>1 DEF permitVars
<1>22. CASE CallersStep
  BY Zenon, <1>1, <1>2, <1>3, <1>16, <1>17, <1>18, <1>20, <1>22 DEF CallersStep
<1>23. ASSUME NEW c \in Conns, Proceed(c) PROVE Counted'
  BY Zenon, <1>6, <1>7, <1>8, <1>11, <1>12, <1>13, <1>14, <1>18, <1>23 DEF Proceed
<1>24. CASE OutboundStep \/ PersistentStep \/ RunStep
  BY Zenon, <1>4, <1>16, <1>19, <1>20, <1>24 DEF OutboundStep, PersistentStep, RunStep
<1> QED  BY <1>20, <1>22, <1>23, <1>24 DEF Next

\* A permit of a host that some connection holds has been counted.
LEMMA HostPermitCounted == ConnInv => HostPermitsCounted
<1> SUFFICES ASSUME ConnInv, NEW c \in Conns, "host" \in held[c]
             PROVE  perHostCounts[Host[addr[c]]] > 0
  BY Zenon DEF HostPermitsCounted
<1>t. TypeOK /\ HostsCounted
  BY Zenon DEF ConnInv, Counted
<1>1. addr[c] \in Addrs /\ Host[addr[c]] \in Hosts
  BY Zenon, <1>t, HostIsOne DEF TypeOK
<1>2. /\ HostHolders(Host[addr[c]]) \in SUBSET Conns
      /\ c \in HostHolders(Host[addr[c]])
  BY Zenon DEF HostHolders, Holders
<1>3. Cardinality(HostHolders(Host[addr[c]])) > 0
  BY Zenon, <1>2, OneLess
<1> QED  BY <1>t, <1>1, <1>3 DEF HostsCounted

\* AddPersistent alone adds an entry, and only below MaxPersistent.
LEMMA EntriesMoved ==
    ASSUME [Next]_vars
    PROVE  \/ persistent' \subseteq persistent
           \/ \E c \in Conns : /\ persistent' = persistent \cup {c}
                               /\ Cardinality(persistent) + 1 <= MaxPersistent
<1>1. CASE CallersStep
  <2>1. ASSUME NEW c \in Conns, Remove(c) PROVE persistent' \subseteq persistent
    BY Zenon, <2>1 DEF Remove, RemoveEntry
  <2>2. ASSUME NEW c \in Conns, NEW a \in Addrs, Connect(c, a) \/ Accept(c, a)
        PROVE  persistent' \subseteq persistent
    BY Zenon, <2>2 DEF Connect, Accept, mapVars
  <2>3. ASSUME Shutdown \/ \E c \in Conns : Close(c) \/ Disconnect(c)
        PROVE  persistent' \subseteq persistent
    BY Zenon, <2>3 DEF Shutdown, Close, Disconnect, mapVars
  <2>4. ASSUME NEW c \in Conns, NEW a \in Addrs, AddPersistent(c, a)
        PROVE  /\ persistent' = persistent \cup {c}
               /\ Cardinality(persistent) + 1 <= MaxPersistent
    BY Zenon, <2>4 DEF AddPersistent
  <2> QED  BY Zenon, <1>1, <2>1, <2>2, <2>3, <2>4 DEF CallersStep
<1>2. ASSUME NEW c \in Conns, Proceed(c) PROVE persistent' \subseteq persistent
  <2>1. CASE \/ ConnectAcquire(c) \/ ConnectRefused(c) \/ ConnectGroup(c)
             \/ OutboundAcquireTotal(c) \/ PickFails(c) \/ OutboundReserve(c)
             \/ \E a \in KnownAddrs : PickOutboundAddr(c, a)
             \/ AcceptReserve(c) \/ AcceptAcquire(c)
    BY Zenon, <2>1
    DEF ConnectAcquire, ConnectRefused, ConnectGroup, OutboundAcquireTotal,
        PickFails, OutboundReserve, PickOutboundAddr, AcceptReserve,
        AcceptAcquire, mapVars
  <2>2. CASE \/ AcceptAdd(c) \/ DialCheck(c) \/ DialRegister(c) \/ DialFails(c)
             \/ DialSucceeds(c) \/ PersistentAttempt(c) \/ PersistentEnds(c)
    BY Zenon, <2>2
    DEF AcceptAdd, DialCheck, DialRegister, DialFails, DialSucceeds,
        PersistentAttempt, PersistentEnds, mapVars
  <2>3. CASE Released(c) \/ \E p \in Permits : Release(c, p)
    BY Zenon, <2>3 DEF Released, Release, mapVars
  <2> QED  BY Zenon, <1>2, <2>1, <2>2, <2>3 DEF Proceed
<1>3. CASE OutboundStep \/ AddPersistentSent \/ PersistentStep
  BY Zenon, <1>3
  DEF OutboundStep, OutboundCheck, OutboundGivesUp, OutboundAcquire,
      AddPersistentSent, PersistentStep, PersistentReceive, PersistentLaunch,
      PersistentHandlerEnds, mapVars
<1>4. CASE RunStep
  BY Zenon, <1>4 DEF RunStep, RunCollect, RunReturn, RunRemove, RemoveEntry, mapVars
<1>5. CASE UNCHANGED vars
  BY Zenon, <1>5 DEF vars, mapVars
<1> QED  BY Zenon, <1>1, <1>2, <1>3, <1>4, <1>5 DEF Next

LEMMA EntriesStep ==
    ConnInv /\ [Next]_vars => (Cardinality(persistent) <= MaxPersistent)'
<1> SUFFICES ASSUME ConnInv, [Next]_vars
             PROVE  Cardinality(persistent') <= MaxPersistent
  OBVIOUS
<1>1. persistent \in SUBSET Conns /\ Cardinality(persistent) <= MaxPersistent
  BY Zenon DEF ConnInv, TypeOK, PersistentPlaced
<1>2. Cardinality(persistent) \in Nat
  BY Zenon, <1>1, ConnSets
<1>3. CASE persistent' \subseteq persistent
  <2>1. Cardinality(persistent') <= Cardinality(persistent)
    BY Zenon, <1>1, <1>3, Fewer
  <2>2. Cardinality(persistent') \in Nat
    BY Zenon, <1>1, <1>3, ConnSets
  <2> QED  BY <1>1, <1>2, <2>1, <2>2, LimitsAssumption
<1>4. ASSUME NEW c \in Conns, persistent' = persistent \cup {c},
             Cardinality(persistent) + 1 <= MaxPersistent
      PROVE  Cardinality(persistent') <= MaxPersistent
  <2>1. CASE c \in persistent
    <3>1. persistent' = persistent
      BY Zenon, <1>4, <2>1
    <3> QED  BY <1>1, <3>1
  <2>2. CASE c \notin persistent
    <3>1. Cardinality(persistent \cup {c}) = Cardinality(persistent) + 1
      BY Zenon, <1>1, <2>2, OneMore
    <3> QED  BY <1>4, <3>1
  <2> QED  BY <2>1, <2>2
<1> QED  BY EntriesMoved, <1>3, <1>4

-----------------------------------------------------------------------------
LEMMA InitInv == Init => ConnInv
<1> SUFFICES ASSUME Init PROVE ConnInv
  OBVIOUS
<1>1. TypeOK
  BY AnyAddrIsOne DEF Init, TypeOK, Kinds, Points, Permits
<1>2. Placed
  BY Zenon DEF Init, Placed, PlacedAt, HeldAtPoint
<1>3. \A p : Holders(p) = {}
  BY Zenon DEF Init, Holders
<1>4. TotalCounted /\ OutboundCounted
  <2>1. Cardinality(Holders("total")) = 0 /\ Cardinality(Holders("outbound")) = 0
    BY Zenon, <1>3, NoneOfThem
  <2>2. totalNormalConnsSem = 0 /\ activeOutboundsSem = 0
    BY Zenon DEF Init
  <2> QED  BY <2>1, <2>2, LimitsAssumption DEF TotalCounted, OutboundCounted
<1>5. HostsCounted
  <2>1. \A h \in Hosts : Cardinality(HostHolders(h)) = 0
    BY Zenon, <1>3, NoneOfThem DEF HostHolders
  <2>2. \A h \in Hosts : perHostCounts[h] = 0
    BY Zenon DEF Init
  <2> QED  BY <2>1, <2>2, LimitsAssumption DEF HostsCounted
<1>6. GroupsCounted
  <2>1. ASSUME NEW a \in Addrs
        PROVE  Cardinality(GroupHolders(a)) = 0 /\ Cardinality(PersistentAt(a)) = 0
    <3>1. GroupHolders(a) = {} /\ PersistentAt(a) = {}
      BY Zenon, <1>3 DEF Init, GroupHolders, PersistentAt
    <3> QED  BY <3>1, NoneOfThem
  <2>2. \A a \in Addrs : outboundAddrs[a] = 0
    BY Zenon DEF Init
  <2> QED  BY <2>1, <2>2 DEF GroupsCounted
<1>7. PersistentPlaced
  BY NoneOfThem, LimitsAssumption
  DEF Init, PersistentPlaced, PersistentServed, PersistentKind, CancelPlaced
<1> QED  BY <1>1, <1>2, <1>4, <1>5, <1>6, <1>7 DEF ConnInv, Counted

\* The inductive invariant: in every reachable state of the connection manager
\* each connection holds what its goroutine has reserved up to its point, the
\* counters are the numbers of their holders, and each persistent entry is on
\* its way or served.
THEOREM ConnInvAlways == Spec => []ConnInv
<1>1. Init => ConnInv
  BY Zenon, InitInv
<1>2. ConnInv /\ [Next]_vars => ConnInv'
  <2> SUFFICES ASSUME ConnInv, [Next]_vars PROVE ConnInv'
    OBVIOUS
  <2>1. TypeOK'
    BY Zenon, HostPermitCounted, TypeStep
  <2>2. Placed' /\ Counted'
    BY Zenon, PlacedStep, CountedStep
  <2>3. PersistentPlaced'
    BY Zenon, KindStep, ServedStep, EntriesStep DEF PersistentPlaced
  <2> QED  BY <2>1, <2>2, <2>3 DEF ConnInv
<1> QED  BY <1>1, <1>2, PTL DEF Spec

\* The pending and active connections stay within MaxNormalConns, TargetOutbound,
\* MaxConnsPerHost and MaxPersistent, whatever Connect, the listeners, the
\* outbound handler, runPersistent, Disconnect, Remove and Run do at the same
\* time.
THEOREM LimitsKeptAlways == Spec => []LimitsKept
<1>1. ConnInv => LimitsKept
  <2> SUFFICES ASSUME ConnInv PROVE LimitsKept
    OBVIOUS
  <2>t. TypeOK /\ Placed /\ Counted
    BY Zenon DEF ConnInv
  <2>1. ASSUME NEW c \in Connections
        PROVE  c \in Conns /\ held[c] = OwnPermits(c)
    BY Zenon, <2>t DEF Connections, Placed, PlacedAt, HeldAtPoint, TypeOK
  <2>2. Cardinality({c \in Connections : Normal(c)}) <= MaxNormalConns
    <3> DEFINE S == {c \in Connections : Normal(c)}
    <3>1. Holders("total") \in SUBSET Conns /\ S \in SUBSET Holders("total")
      BY Zenon, <2>1 DEF Holders, OwnPermits
    <3>2. Cardinality(S) <= Cardinality(Holders("total"))
      BY Zenon, <3>1, Fewer
    <3>3. Cardinality(S) \in Nat /\ Cardinality(Holders("total")) \in Nat
      BY Zenon, <3>1, ConnSets
    <3> QED
      BY <2>t, <3>2, <3>3, LimitsAssumption DEF Counted, TotalCounted
  <2>3. Cardinality({c \in Connections : kind[c] = "outbound"}) <= TargetOutbound
    <3> DEFINE S == {c \in Connections : kind[c] = "outbound"}
    <3>1. Holders("outbound") \in SUBSET Conns /\ S \in SUBSET Holders("outbound")
      BY Zenon, <2>1 DEF Holders, OwnPermits
    <3>2. Cardinality(S) <= Cardinality(Holders("outbound"))
      BY Zenon, <3>1, Fewer
    <3>3. Cardinality(S) \in Nat /\ Cardinality(Holders("outbound")) \in Nat
      BY Zenon, <3>1, ConnSets
    <3> QED
      BY <2>t, <3>2, <3>3, LimitsAssumption DEF Counted, OutboundCounted
  <2>4. ASSUME NEW h \in Hosts
        PROVE  Cardinality({c \in Connections :
                                Host[addr[c]] = h /\ NeedsHostPermit(addr[c])})
                   <= MaxConnsPerHost
    <3> DEFINE S == {c \in Connections :
                         Host[addr[c]] = h /\ NeedsHostPermit(addr[c])}
    <3>1. HostHolders(h) \in SUBSET Conns /\ S \in SUBSET HostHolders(h)
      BY Zenon, <2>1 DEF HostHolders, Holders, OwnPermits, HostPermits
    <3>2. Cardinality(S) <= Cardinality(HostHolders(h))
      BY Zenon, <3>1, Fewer
    <3>3. Cardinality(S) \in Nat /\ Cardinality(HostHolders(h)) \in Nat
      BY Zenon, <3>1, ConnSets
    <3> QED
      BY <2>t, <3>2, <3>3, LimitsAssumption DEF Counted, HostsCounted
  <2> QED
    BY Zenon, <2>2, <2>3, <2>4 DEF LimitsKept, ConnInv, PersistentPlaced
<1> QED  BY <1>1, ConnInvAlways, PTL

\* Once no connection is open or under way, every slot of totalNormalConnsSem,
\* activeOutboundsSem and perHostCounts is back, and the outbound groups count
\* persistent entries only: no path through the goroutines leaks a permit.
THEOREM PermitsReturnedAlways == Spec => []PermitsReturned
<1>1. ConnInv => PermitsReturned
  <2> SUFFICES ASSUME ConnInv, Quiet
               PROVE  /\ totalNormalConnsSem = 0 /\ activeOutboundsSem = 0
                      /\ \A h \in Hosts : perHostCounts[h] = 0
                      /\ \A a \in Addrs :
                             outboundAddrs[a] <= Cardinality(PersistentAt(a))
    BY Zenon DEF PermitsReturned, PersistentAt
  <2>t. TypeOK /\ Placed /\ Counted
    BY Zenon DEF ConnInv
  <2>1. \A c \in Conns : held[c] = {}
    BY Zenon, <2>t DEF Quiet, Placed, PlacedAt, HeldAtPoint
  <2>2. \A p : Holders(p) = {}
    BY Zenon, <2>1 DEF Holders
  <2>3. totalNormalConnsSem = 0 /\ activeOutboundsSem = 0
    BY Zenon, <2>t, <2>2, NoneOfThem DEF Counted, TotalCounted, OutboundCounted
  <2>4. ASSUME NEW h \in Hosts PROVE perHostCounts[h] = 0
    <3>1. HostHolders(h) = {}
      BY Zenon, <2>2 DEF HostHolders
    <3> QED  BY <2>t, <3>1, NoneOfThem DEF Counted, HostsCounted
  <2>5. ASSUME NEW a \in Addrs
        PROVE  outboundAddrs[a] <= Cardinality(PersistentAt(a))
    <3>1. GroupHolders(a) = {}
      BY Zenon, <2>2 DEF GroupHolders
    <3>2. Cardinality(PersistentAt(a)) \in Nat
      BY Zenon, <2>t, ConnSets DEF PersistentAt, TypeOK
    <3> QED  BY <2>t, <3>1, <3>2, NoneOfThem DEF Counted, GroupsCounted
  <2> QED  BY <2>3, <2>4, <2>5
<1> QED  BY <1>1, ConnInvAlways, PTL

\* While Run runs, the entry of AddPersistent is in the channel, in the hands of
\* persistentConnsHandler, or served by a goroutine of runPersistent that nobody
\* has canceled.  No retry, refused attempt, Disconnect or concurrent Remove of
\* another entry makes it drop out.
THEOREM PersistentServedAlways == Spec => []PersistentServed
<1>1. ConnInv => PersistentServed
  BY Zenon DEF ConnInv, PersistentPlaced
<1> QED  BY <1>1, ConnInvAlways, PTL

\* As long as the callers keep addresses apart, connIDByAddr stays in step with
\* the maps of connections: dial, addActiveConn, removeActiveConn, Disconnect,
\* Remove and AddPersistent never leave a dead entry behind, nor an outgoing
\* connection or persistent entry that the checks for duplicates do not see.
THEOREM OutgoingIndexedAlways == Spec /\ []AddressesApart => []OutgoingIndexed
<1>1. Init => OutgoingIndexed
  BY Zenon DEF Init, OutgoingIndexed, Connections
<1>2. ConnInv /\ AddressesApart /\ OutgoingIndexed /\ [Next]_vars => OutgoingIndexed'
  BY Zenon, IndexStep
<1> QED  BY <1>1, <1>2, ConnInvAlways, PTL DEF Spec
=============================================================================

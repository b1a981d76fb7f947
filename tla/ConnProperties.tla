--------------------------- MODULE ConnProperties ---------------------------
(***************************************************************************)
(* What the connection manager promises about its connections.             *)
(***************************************************************************)
EXTENDS ConnManager

Connections == pending \cup active

\* A connection that Config.MaxNormalConns counts.
Normal(c) ==
    \/ kind[c] \in {"manual", "outbound"}
    \/ kind[c] = "inbound" /\ addr[c] \notin Whitelisted

\* Whatever is accepted, dialed, closed and retried at the same time, the
\* pending and active connections stay within the limits of Config: in total,
\* automatic outbound ones, and of one host unless it is exempt.  The entries of
\* AddPersistent stay within MaxPersistent.
LimitsKept ==
    /\ Cardinality({c \in Connections : Normal(c)}) <= MaxNormalConns
    /\ Cardinality({c \in Connections : kind[c] = "outbound"}) <= TargetOutbound
    /\ \A h \in Hosts :
           Cardinality({c \in Connections :
                            Host[addr[c]] = h /\ NeedsHostPermit(addr[c])})
               <= MaxConnsPerHost
    /\ Cardinality(persistent) <= MaxPersistent

Quiet == \A c \in Conns : pc[c] \in {"free", "queued", "wait"}

\* When no connection is open or under way, every permit is back: nothing that
\* failed, was refused, canceled or removed keeps a slot of a semaphore, of a
\* host or of an outbound group.  What is left in a group are the entries of
\* persistent connections.
PermitsReturned ==
    Quiet =>
        /\ totalNormalConnsSem = 0 /\ activeOutboundsSem = 0
        /\ \A h \in Hosts : perHostCounts[h] = 0
        /\ \A a \in Addrs :
               outboundAddrs[a] <= Cardinality({c \in persistent : addr[c] = a})

\* connIDByAddr finds every persistent entry and every outgoing connection by
\* its address, and nothing else.  It is what duplicates are rejected by, so no
\* address is ever connected to twice.
OutgoingIndexed ==
    /\ \A c \in persistent \cup Connections :
           kind[c] # "inbound" => connIDByAddr[addr[c]] = c
    /\ \A a \in Addrs : connIDByAddr[a] # NoConn =>
           /\ connIDByAddr[a] \in persistent \cup Connections
           /\ addr[connIDByAddr[a]] = a

\* What the callers see to and connIDByAddr relies on: nobody connects from an
\* address that is dialed, and AddPersistent is not called with the address of
\* an entry that was removed before the goroutine of that entry has ended.
AddressesApart ==
    /\ \A c \in Conns, d \in Known :
           kind[c] = "inbound" /\ kind[d] # "inbound" => addr[c] # addr[d]
    /\ \A c, d \in {e \in Conns : kind[e] = "persistent"} :
           /\ c # d
           /\ pc[c] # "free" \/ c \in persistent
           /\ pc[d] # "free" \/ d \in persistent
           => addr[c] # addr[d]

\* The manager attempts to always maintain a persistent connection: as long as
\* the entry exists and the manager runs, the entry is on its way to the handler
\* that starts its goroutine, or its goroutine runs and has not been canceled.
PersistentServed ==
    \A c \in persistent :
        \/ ShuttingDown
        \/ pc[c] = "queued" /\ c \in Range(runPersistentChan) \cup {launching, connMtx}
        \/ /\ pc[c] \in {"wait", "dial", "register", "dialing", "open", "release"}
           /\ kind[c] = "persistent" /\ c \notin cancelled

\* Run returns once its context is canceled: until then one of the goroutines
\* it waits for, or Run itself, can take a step.  None is stuck on a permit, on
\* the mutex or on a channel.
RunNotStuck ==
    ShuttingDown /\ run # "returned" =>
        \/ ENABLED (OutboundStep \/ PersistentStep \/ RunStep)
        \/ \E c \in Conns : Awaited(c) /\ ENABLED (Proceed(c) \/ Close(c))
=============================================================================

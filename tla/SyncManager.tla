---------------------------- MODULE SyncManager -----------------------------
(***************************************************************************)
(* The sync manager: internal/netsync/manager.go, with the pool and the    *)
(* chain it feeds and the peers it asks.                                   *)
(*                                                                         *)
(* Every peer has a goroutine that handles one message at a time, and the  *)
(* handlers of different peers, of a peer that disconnects and of the RPC  *)
(* server interleave wherever they let go of the locks: hand says where    *)
(* each of them is.  The state under the locks of the manager, and what it *)
(* keeps of every peer, is the record sm.                                  *)
(*                                                                         *)
(* A peer answers in order what it was asked; queue[p] holds what it owes. *)
(***************************************************************************)
EXTENDS ChainServer, FiniteSetsExt

CONSTANTS
    Peers,
    Rpc,              \* the goroutine of the RPC server
    NoPeer,
    NoBlock,
    Outbound,         \* the peers this node dialled
    MaxBlockHeadersPerMsg,
    MaxExpectedAnnouncements,
    MaxConsecutiveOrphanHeaders,
    SyncHeightFetchOffset,
    MinInFlightBlocks,
    MaxInFlightBlocks,
    NextBlocksBuf     \* the size of nextBlocksBuf

VARIABLES
    sm,               \* the manager
    conn,             \* peer -> "away", "on", "closing" or "gone"
    hand,             \* goroutine -> what it is doing
    remote,           \* peer -> the tip of the chain it is on
    env               \* what goes wrong: what peers do not answer, who hangs up

syncVars == <<sm, conn, hand, remote, env>>
vars     == <<serverVars, syncVars>>

Idle == [at |-> "idle", block |-> NoBlock, from |-> NoPeer, inFlight |-> 0]

NewManager ==
    [peers |-> {}, syncPeer |-> NoPeer, headersSynced |-> FALSE,
     syncHeight |-> 0, current |-> FALSE, stallTimer |-> FALSE, stalled |-> FALSE,
     needed |-> <<>>, neededFor |-> NoBlock,
     requested |-> [i \in Blocks \cup Txs |-> NoPeer],
     rejectedTxns |-> {},
     last |-> [p \in Peers |-> 0], best |-> [p \in Peers |-> NoBlock],
     orphan |-> [p \in Peers |-> NoBlock], known |-> [p \in Peers |-> {}],
     begin |-> [p \in Peers |-> {}], orphans |-> [p \in Peers |-> 0],
     queue |-> [p \in Peers |-> <<>>]]

-----------------------------------------------------------------------------
(***************************************************************************)
(* Asking.                                                                 *)
(***************************************************************************)
\* A message for a peer that is not connected is dropped.
QueueMessages(s, ps, kind, args) ==
    [s EXCEPT !.queue = [p \in Peers |->
        IF p \in ps /\ conn[p] = "on"
        THEN @[p] \o [i \in DOMAIN args |-> [kind |-> kind, arg |-> args[i]]]
        ELSE @[p]]]

\* PushGetHeadersMsg, for each of the peers ps: not twice from the same block.
PushGetHeaders(s, ps, begin) ==
    LET due == {p \in ps : s.begin[p] # {begin}}
    IN  QueueMessages(
            [s EXCEPT !.begin = [p \in Peers |-> IF p \in due THEN {begin} ELSE @[p]]],
            due, "getheaders", <<begin>>)

FetchNextHeaders(s, ps, best) == PushGetHeaders(s, ps, Block[best].parent)

RequestData(s, p, items) ==
    QueueMessages(
        [s EXCEPT !.requested =
            [i \in DOMAIN @ |-> IF i \in ToSet(items) THEN p ELSE @[i]]],
        {p}, "getdata", items)

InFlight(s, p) == Cardinality({b \in Blocks : s.requested[b] = p})

Take(list, n) == SubSeq(list, 1, Min({n, Len(list)}))

PutNextNeededBlocks(best) ==
    Take(SelectSeq(Branch[best], LAMBDA b : b \notin ToSet(chain) \cup data),
         NextBlocksBuf)

\* Deliberate slip: a list that gets short is not refilled.
NeededOnlyForNewHeader(s, best) ==
    IF s.neededFor # best
    THEN [s EXCEPT !.needed = PutNextNeededBlocks(best), !.neededFor = best]
    ELSE s

MaybeUpdateNextNeededBlocks(s, best) ==
    IF \/ s.neededFor # best
       \/ /\ s.needed # <<>> /\ Len(s.needed) < MinInFlightBlocks
          /\ Last(s.needed) # best
    THEN [s EXCEPT !.needed = PutNextNeededBlocks(best), !.neededFor = best]
    ELSE s

\* What is taken off the list is requested or was already.
FetchNextBlocks(s, p, inFlight, best) ==
    LET t     == MaybeUpdateNextNeededBlocks(s, best)
        taken == Take(t.needed, MaxInFlightBlocks - inFlight)
    IN  IF inFlight >= MaxInFlightBlocks THEN s
        ELSE RequestData(
                [t EXCEPT !.needed = SubSeq(@, Len(taken) + 1, Len(@))], p,
                SelectSeq(taken, LAMBDA b : t.requested[b] = NoPeer))

-----------------------------------------------------------------------------
(***************************************************************************)
(* The sync peer.                                                          *)
(***************************************************************************)
MaybeUpdateIsCurrent(s, latch) ==
    [s EXCEPT !.current = @ \/ (BestHeight >= s.syncHeight /\ ChainIsCurrent(latch))]

\* The candidates with the highest known block; any of them may be first.
UpdateSyncPeerState(s) ==
    LET fit  == {p \in s.peers : s.last[p] >= Height(BestHeader)}
        best == {p \in fit : \A q \in fit : s.last[q] <= s.last[p]}
    IN  IF best = {}
        THEN {[s EXCEPT !.current = ChainIsCurrent(latched), !.syncPeer = NoPeer]}
        ELSE {[s EXCEPT !.syncPeer = p] : p \in best}

StartInitialHeaderSync(s) ==
    {IF t.syncPeer = NoPeer THEN t
     ELSE LET height == t.last[t.syncPeer]
          IN  [FetchNextHeaders(t, {t.syncPeer}, BestHeader) EXCEPT
                  !.current = @ /\ BestHeight + 2 >= height,
                  !.syncHeight = Max({height, Height(BestHeader)}),
                  !.stallTimer = TRUE]
     : t \in UpdateSyncPeerState(s)}

StartChainSync(s) ==
    {IF t.syncPeer = NoPeer THEN t
     ELSE FetchNextBlocks(t, t.syncPeer, InFlight(t, t.syncPeer), BestHeader)
     : t \in UpdateSyncPeerState(s)}

-----------------------------------------------------------------------------
(***************************************************************************)
(* What a peer has announced.                                              *)
(***************************************************************************)
\* blocks[p] is known to be announced by p, for some of the peers.
MaybeUpdateBestAnnouncedBlock(s, blocks) ==
    LET higher == {p \in DOMAIN blocks :
                     s.best[p] = NoBlock \/ Height(blocks[p]) > Height(s.best[p])}
    IN  [s EXCEPT
            !.best = [p \in Peers |-> IF p \in higher THEN blocks[p] ELSE @[p]],
            !.last = [p \in Peers |-> IF p \in higher
                                      THEN Max({@[p], Height(blocks[p])}) ELSE @[p]]]

MaybeResolveOrphanBlock(s, ps, known) ==
    MaybeUpdateBestAnnouncedBlock(s, [p \in {q \in ps : s.orphan[q] \in known} |->
                                         s.orphan[p]])

OnInitialHeaderSyncDone(s, known, best) ==
    LET resolved == MaybeResolveOrphanBlock(s, s.peers, known)
    IN  FetchNextHeaders(
            [resolved EXCEPT !.headersSynced = TRUE, !.stallTimer = FALSE],
            {p \in s.peers : resolved.best[p] = NoBlock}, best)

-----------------------------------------------------------------------------
(***************************************************************************)
(* Peers come and go.                                                      *)
(***************************************************************************)
LockFree == \A g \in DOMAIN hand : hand[g].at # "processing"

Disconnect(p, s) ==
    /\ conn' = [conn EXCEPT ![p] = "closing"]
    /\ sm' = [s EXCEPT !.queue[p] = <<>>]

\* The handshake tells the height of the peer.
Dial(p) ==
    /\ conn[p] = "away"
    /\ conn' = [conn EXCEPT ![p] = "on"]
    /\ sm' = [sm EXCEPT !.last[p] = Height(remote[p])]
    /\ UNCHANGED <<serverVars, hand, remote, env>>

OnPeerConnected(p) ==
    /\ conn[p] = "on" /\ p \notin sm.peers
    /\ LET s == [sm EXCEPT !.peers = @ \cup {p}]
       IN  IF ~ s.headersSynced
           THEN sm' \in IF s.syncPeer = NoPeer THEN StartInitialHeaderSync(s) ELSE {s}
           ELSE LET t == FetchNextHeaders(s, {p}, BestHeader)
                IN  sm' \in {MaybeUpdateIsCurrent(r, latched) :
                               r \in IF t.syncPeer = NoPeer THEN StartChainSync(t)
                                     ELSE {t}}
    /\ UNCHANGED <<serverVars, conn, hand, remote, env>>

\* What p owed is asked of a peer that has announced it, or forgotten.
Reassigned(s, p) ==
    LET lost    == {i \in DOMAIN s.requested : s.requested[i] = p}
        Have(i) == {q \in s.peers : i \in s.known[q]}
        NewOwner(i) == IF Have(i) = {} THEN {NoPeer} ELSE Have(i)
        Owed(f, q) == SetToSeq({i \in lost : f[i] = q})
    IN  {[s EXCEPT
            !.requested = [i \in DOMAIN @ |-> IF i \in lost THEN f[i] ELSE @[i]],
            !.queue = [q \in Peers |->
                         IF conn[q] = "on"
                         THEN @[q] \o [i \in DOMAIN Owed(f, q) |->
                                          [kind |-> "getdata", arg |-> Owed(f, q)[i]]]
                         ELSE @[q]]]
         : f \in {g \in [lost -> s.peers \cup {NoPeer}] :
                     \A i \in lost : g[i] \in NewOwner(i)}}

OnPeerDisconnected(p) ==
    /\ conn[p] = "closing" /\ hand[p] = Idle
    /\ conn' = [conn EXCEPT ![p] = "gone"]
    /\ LET s == [sm EXCEPT !.peers = @ \ {p}]
       IN  IF ~ s.headersSynced
           THEN /\ sm' \in IF s.syncPeer = p THEN StartInitialHeaderSync(s) ELSE {s}
                /\ mp' = RemoveOrphansByTag(mp, p)
                /\ UNCHANGED hand
           ELSE /\ sm' \in Reassigned(s, p)
                /\ hand' = [hand EXCEPT ![p].at = "replace"]
                /\ UNCHANGED mp
    /\ UNCHANGED <<chainVars, calls, confirmed, remote, env>>

\* A new sync peer; then the orphans that p sent are evicted.
ReplaceSyncPeer(p) ==
    /\ hand[p].at = "replace"
    /\ hand' = [hand EXCEPT ![p] = Idle]
    /\ sm' \in IF sm.syncPeer = p THEN StartChainSync(sm) ELSE {sm}
    /\ mp' = RemoveOrphansByTag(mp, p)
    /\ UNCHANGED <<chainVars, calls, confirmed, conn, remote, env>>

Drop(p) ==
    /\ conn[p] = "on" /\ p \in env.drops
    /\ Disconnect(p, sm)
    /\ UNCHANGED <<serverVars, hand, remote, env>>

\* stallHandler of the manager receives from the timer: for long, no headers
\* have come from the sync peer.
StallTimerDue ==
    /\ sm.stallTimer /\ ~ sm.stalled
    /\ sm.syncPeer = NoPeer \/ <<sm.syncPeer, "getheaders">> \in env.mute

StallTimerFires ==
    /\ StallTimerDue
    /\ sm' = [sm EXCEPT !.stallTimer = FALSE, !.stalled = TRUE]
    /\ UNCHANGED <<serverVars, conn, hand, remote, env>>

\* It then asks who is the sync peer and disconnects that one.
HeaderStall ==
    /\ sm.stalled
    /\ LET s == [sm EXCEPT !.stalled = FALSE]
       IN  IF sm.syncPeer # NoPeer /\ conn[sm.syncPeer] = "on"
           THEN Disconnect(sm.syncPeer, s)
           ELSE sm' = s /\ UNCHANGED conn
    /\ UNCHANGED <<serverVars, hand, remote, env>>

\* stallHandler of the peer: no data that was asked for.
DataStall(p) ==
    /\ conn[p] = "on" /\ <<p, "getdata">> \in env.mute
    /\ \E i \in DOMAIN sm.queue[p] : sm.queue[p][i].kind = "getdata"
    /\ Disconnect(p, sm)
    /\ UNCHANGED <<serverVars, hand, remote, env>>

-----------------------------------------------------------------------------
(***************************************************************************)
(* Headers.                                                                *)
(***************************************************************************)
\* What p has after the block begin, on the chain it is on.
LocateHeaders(p, begin) ==
    LET theirs == Branch[remote[p]]
        shared == {i \in DOMAIN theirs : begin # NoBlock /\ theirs[i] \in ToSet(Branch[begin])}
    IN  Take(SubSeq(theirs, Max(shared \cup {1}) + 1, Len(theirs)),
             MaxBlockHeadersPerMsg)

HeadersUnconnected(p, s, hs) ==
    /\ Block[Head(hs)].parent \notin headers
    /\ LET announcement == Len(hs) < MaxExpectedAnnouncements
           t == IF announcement THEN [s EXCEPT !.orphans[p] = @ + 1] ELSE s
           asked == IF t.headersSynced THEN PushGetHeaders(t, {p}, BestHeader)
                    ELSE [t EXCEPT !.last[p] = Max({@, Height(Last(hs))})]
       IN  IF IF announcement THEN t.orphans[p] >= MaxConsecutiveOrphanHeaders
              ELSE t.headersSynced
           THEN Disconnect(p, t)
           ELSE /\ sm' = IF ~ announcement THEN t
                         ELSE [MaybeResolveOrphanBlock(asked, {p}, headers) EXCEPT
                                  !.orphan[p] = Last(hs)]
                /\ UNCHANGED conn
    /\ UNCHANGED <<serverVars, hand>>

\* One of the headers is known to be invalid.
HeadersRejected(p, s, hs) ==
    LET bad   == {i \in DOMAIN hs : KnownInvalid(hs[i], failed)}
        taken == {hs[i] : i \in 1..(Min(bad) - 1)}
        known == headers \cup taken
        t     == [s EXCEPT !.known[p] = @ \cup taken]
    IN  /\ Block[Head(hs)].parent \in headers
        /\ bad # {}
        /\ LockFree
        /\ headers' = known
        /\ Disconnect(p, IF t.headersSynced \/ t.syncPeer # p THEN t
                         ELSE [t EXCEPT !.syncHeight = Height(BestHeaderOf(known, failed))])
        /\ UNCHANGED <<mp, chain, data, failed, target, latched, calls, confirmed, hand>>

\* Announced blocks are asked for at once when the chain is current.
FetchAnnounced(s, p, hs) ==
    RequestData(s, p, SelectSeq(hs, LAMBDA b : s.requested[b] = NoPeer /\ b \notin data))

\* Announced blocks are noted, and when headers were cut short, more are asked
\* for.
NoteHeaders(s, p, hs, known) ==
    [MaybeUpdateBestAnnouncedBlock(
        MaybeResolveOrphanBlock(
            [s EXCEPT !.known[p] = @ \cup ToSet(hs), !.orphans[p] = 0], {p}, known),
        [q \in {p} |-> Last(hs)])
     EXCEPT !.syncHeight = Max({@, Height(BestHeaderOf(known, failed))}),
            !.stallTimer = \/ @
                           \/ /\ ~ s.headersSynced /\ s.syncPeer = p
                              /\ Height(BestHeaderOf(known, failed)) > Height(BestHeader)]

\* Deliberate slip: the first of several messages counts as well.
LittleWorkSoFar(p, hs) ==
    ~ ChainIsCurrent(latched) /\ p \in Outbound /\ Height(Last(hs)) < MinKnownHeight

TooLittleWork(p, hs) ==
    /\ ~ ChainIsCurrent(latched) /\ p \in Outbound
    /\ Len(hs) # MaxBlockHeadersPerMsg /\ Height(Last(hs)) < MinKnownHeight

\* t has the headers noted; the blocks are fetched in a step of its own.
FollowHeaders(p, t, hs, known) ==
    LET best == BestHeaderOf(known, failed)
        done == /\ ~ t.headersSynced /\ t.syncPeer = p
                /\ Height(Last(hs)) + SyncHeightFetchOffset > t.syncHeight
        more == IF Len(hs) = MaxBlockHeadersPerMsg
                THEN PushGetHeaders(t, {p}, Last(hs)) ELSE t
    IN  /\ latched' = IF done THEN MaybeLatch(best) ELSE latched
        /\ \E u \in {IF done THEN OnInitialHeaderSyncDone(more, known, best) ELSE more} :
              /\ sm' = IF ChainIsCurrent(latched') THEN FetchAnnounced(u, p, hs) ELSE u
              /\ hand' = IF u.headersSynced /\ u.syncPeer # NoPeer
                         THEN [hand EXCEPT ![p] =
                                 [at |-> "fetch", block |-> NoBlock, from |-> u.syncPeer,
                                  inFlight |-> InFlight(sm', u.syncPeer)]]
                         ELSE hand

HeadersAccepted(p, s, hs) ==
    LET known == headers \cup ToSet(hs)
    IN  /\ Block[Head(hs)].parent \in headers
        /\ \A i \in DOMAIN hs : ~ KnownInvalid(hs[i], failed)
        /\ LockFree
        /\ headers' = known
        /\ \E t \in {NoteHeaders(s, p, hs, known)} :
              \/ TooLittleWork(p, hs) /\ Disconnect(p, t) /\ UNCHANGED <<latched, hand>>
              \/ ~ TooLittleWork(p, hs) /\ FollowHeaders(p, t, hs, known) /\ UNCHANGED conn
        /\ UNCHANGED <<mp, chain, data, failed, target, calls, confirmed>>

OnHeaders(p, s, hs) ==
    IF hs = <<>> THEN sm' = s /\ UNCHANGED <<serverVars, conn, hand>>
    ELSE \/ HeadersUnconnected(p, s, hs)
         \/ HeadersRejected(p, s, hs)
         \/ HeadersAccepted(p, s, hs)

-----------------------------------------------------------------------------
(***************************************************************************)
(* Blocks.                                                                 *)
(***************************************************************************)
Forget(s, i) == [s EXCEPT !.requested[i] = NoPeer]

\* The block is refused: when it was the best header, all peers are asked for
\* theirs.
BlockRejected(p, s, b) ==
    LET bad  == failed \cup {b}
        best == BestHeaderOf(headers, bad)
        t    == Forget(s, b)
    IN  /\ KnownInvalid(b, failed) \/ b \in Invalid
        /\ IF KnownInvalid(b, failed) THEN UNCHANGED serverVars ELSE RejectBlock(b)
        /\ sm' = IF BestHeader # b THEN t
                 ELSE FetchNextHeaders(
                        MaybeUpdateIsCurrent([t EXCEPT !.syncHeight = Height(best)], latched),
                        t.peers, best)
        /\ UNCHANGED <<conn, hand>>

Processing(g, b) ==
    /\ AcceptBlock(b)
    /\ hand' = [hand EXCEPT ![g].at = "processing", ![g].block = b]

OnBlock(p, s, b) ==
    IF s.requested[b] # p THEN Disconnect(p, s) /\ UNCHANGED <<serverVars, hand>>
    ELSE /\ LockFree
         /\ IF b \in data THEN sm' = Forget(s, b) /\ UNCHANGED <<serverVars, conn, hand>>
            ELSE \/ BlockRejected(p, s, b)
                 \/ /\ ~ KnownInvalid(b, failed) /\ b \notin Invalid
                    /\ Processing(p, b)
                    /\ sm' = s /\ UNCHANGED conn

\* More blocks from the sync peer, when few are on the way.
MoreBlocks(g, s) ==
    IF /\ g = s.syncPeer
       /\ Cardinality({b \in Blocks : s.requested[b] # NoPeer}) < MinInFlightBlocks
    THEN [at |-> "fetch", block |-> NoBlock, from |-> g, inFlight |-> InFlight(s, g)]
    ELSE Idle

\* The chain is done with the block.
BlockProcessed(g) ==
    /\ hand[g].at = "processing" /\ ~ Busy
    /\ LET b     == hand[g].block
           main  == b \in ToSet(chain)
           latch == IF main THEN MaybeLatch(BestHeader) ELSE latched
           s     == IF main THEN [sm EXCEPT !.syncHeight = Max({@, Height(b)})] ELSE sm
           t     == MaybeUpdateIsCurrent(s, latch)
       IN  /\ latched' = latch
           /\ sm' = IF g = Rpc THEN t ELSE Forget(t, b)
           /\ hand' = [hand EXCEPT ![g] = IF main THEN [Idle EXCEPT !.at = "prune"]
                                          ELSE MoreBlocks(g, sm')]
    /\ UNCHANGED <<mp, chain, headers, data, failed, target, calls, confirmed, conn, remote, env>>

Prune(g) ==
    /\ hand[g].at = "prune"
    /\ mp' = PruneStakeTx(mp, Tip)
    /\ hand' = [hand EXCEPT ![g].at = "expire", ![g].block = Tip]
    /\ UNCHANGED <<chainVars, calls, confirmed, sm, conn, remote, env>>

Expire(g) ==
    /\ hand[g].at = "expire"
    /\ mp' = PruneExpiredTx(mp, hand[g].block)
    /\ sm' = IF g = Rpc THEN sm ELSE [sm EXCEPT !.rejectedTxns = {}]
    /\ hand' = [hand EXCEPT ![g] = MoreBlocks(g, sm')]
    /\ UNCHANGED <<chainVars, calls, confirmed, conn, remote, env>>

Fetch(g) ==
    /\ hand[g].at = "fetch"
    /\ sm' = FetchNextBlocks(sm, hand[g].from, hand[g].inFlight, BestHeader)
    /\ hand' = [hand EXCEPT ![g] = Idle]
    /\ UNCHANGED <<serverVars, conn, remote, env>>

-----------------------------------------------------------------------------
(***************************************************************************)
(* Transactions.                                                           *)
(***************************************************************************)
NeedTx(t) ==
    t \notin sm.rejectedTxns \cup mp.pool \cup mp.staged \cup mp.orphans \cup confirmed

\* A peer announces a transaction or, out of use, a block.
OnInv(p, i) ==
    /\ conn[p] = "on" /\ hand[p] = Idle
    /\ LET s == [MaybeUpdateIsCurrent(sm, latched) EXCEPT !.known[p] = @ \cup {i}]
           resolved == MaybeResolveOrphanBlock(s, {p}, headers)
       IN  sm' = CASE i \in Txs ->
                        IF s.current /\ NeedTx(i) /\ s.requested[i] = NoPeer
                        THEN RequestData(s, p, <<i>>) ELSE s
                   [] i \in headers ->
                        MaybeUpdateBestAnnouncedBlock(resolved, [q \in {p} |-> i])
                   [] OTHER -> [resolved EXCEPT !.orphan[p] = i]
    /\ UNCHANGED <<serverVars, conn, hand, remote, env>>

\* Nobody checks that it was asked for.
OnTx(p, s, t) ==
    LET outcome == Outcome(mp, t, TRUE, {})
        refused == outcome \in {"known", "error"} \/ (outcome = "missing" /\ MaxOrphanTxs <= 0)
    IN  /\ IF t \in s.rejectedTxns THEN sm' = s /\ UNCHANGED mp
           ELSE /\ mp' \in ProcessTransaction(mp, t, MaxOrphanTxs > 0, p)
                /\ sm' = [Forget([s EXCEPT !.known[p] = @ \cup {t}], t) EXCEPT
                             !.rejectedTxns = IF refused THEN @ \cup {t} ELSE @]
        /\ UNCHANGED <<chainVars, calls, confirmed, conn, hand>>

\* Deliberate slip: the request stays.
NotFoundIgnored(p, s, i) == sm' = s /\ UNCHANGED <<serverVars, conn, hand>>

OnNotFound(p, s, i) ==
    /\ sm' = IF s.requested[i] = p THEN Forget(s, i) ELSE s
    /\ UNCHANGED <<serverVars, conn, hand>>

\* A peer sends a transaction, a block or a header on its own.
Unsolicited(p, kind, i) ==
    /\ conn[p] = "on" /\ hand[p] = Idle
    /\ CASE kind = "tx"    -> OnTx(p, sm, i)
         [] kind = "block" -> OnBlock(p, sm, i)
         [] OTHER          -> OnHeaders(p, sm, <<i>>)
    /\ UNCHANGED <<remote, env>>

-----------------------------------------------------------------------------
(***************************************************************************)
(* The peers and the RPC server.                                           *)
(***************************************************************************)
\* The answer to the oldest request of p arrives and is handled.
Receive(p) ==
    /\ conn[p] = "on" /\ hand[p] = Idle
    /\ sm.queue[p] # <<>> /\ <<p, Head(sm.queue[p]).kind>> \notin env.mute
    /\ LET msg == Head(sm.queue[p])
           s   == [sm EXCEPT !.queue[p] = Tail(@)]
       IN  CASE msg.kind # "getdata" ->
                  OnHeaders(p, s, IF msg.kind = "announce" THEN <<msg.arg>>
                                  ELSE LocateHeaders(p, msg.arg))
             [] msg.arg \in ToSet(Branch[remote[p]]) -> OnBlock(p, s, msg.arg)
             [] msg.arg \in Txs -> OnTx(p, s, msg.arg) \/ OnNotFound(p, s, msg.arg)
             [] OTHER -> OnNotFound(p, s, msg.arg)
    /\ UNCHANGED <<remote, env>>

\* The chain of p grows, and p announces the new block.
Announce(p, b) ==
    /\ Block[b].parent = remote[p]
    /\ remote' = [remote EXCEPT ![p] = b]
    /\ sm' = QueueMessages(sm, {p}, "announce", <<b>>)
    /\ UNCHANGED <<serverVars, conn, hand, env>>

\* ProcessBlock, for a block that is submitted.
ProcessBlock(b) ==
    /\ hand[Rpc] = Idle /\ LockFree
    /\ b \notin data /\ Block[b].parent \in headers
    /\ ~ KnownInvalid(b, failed)
    /\ \/ b \in Invalid /\ RejectBlock(b) /\ UNCHANGED hand
       \/ b \notin Invalid /\ Processing(Rpc, b)
    /\ UNCHANGED <<sm, conn, remote, env>>

\* A transaction that is submitted may not be an orphan.
SendRawTransaction(t) ==
    /\ mp' \in ProcessTransaction(mp, t, FALSE, NoTx)
    /\ UNCHANGED <<chainVars, calls, confirmed, syncVars>>

\* What goes on by itself once the messages and the connections are there.
Progress ==
    \/ ChainStep /\ UNCHANGED syncVars
    \/ \E g \in DOMAIN hand : BlockProcessed(g) \/ Prune(g) \/ Expire(g) \/ Fetch(g)
    \/ \E p \in Peers :
          \/ Dial(p) \/ OnPeerConnected(p) \/ Receive(p)
          \/ DataStall(p) \/ OnPeerDisconnected(p) \/ ReplaceSyncPeer(p)
    \/ StallTimerFires \/ HeaderStall

\* ENABLED Progress, without the computations: whoever waits for LockFree waits
\* for a goroutine that can go on.
Ready ==
    \/ Busy
    \/ \E g \in DOMAIN hand : hand[g] # Idle
    \/ \E p \in Peers :
          \/ conn[p] \in {"away", "closing"}
          \/ conn[p] = "on" /\ p \notin sm.peers
          \/ /\ conn[p] = "on" /\ sm.queue[p] # <<>>
             /\ <<p, Head(sm.queue[p]).kind>> \notin env.mute
          \/ /\ conn[p] = "on" /\ <<p, "getdata">> \in env.mute
             /\ \E i \in DOMAIN sm.queue[p] : sm.queue[p][i].kind = "getdata"
    \/ StallTimerDue \/ sm.stalled

\* While goroutines can run, messages can arrive, timers can fire or
\* connections can be made, something goes on.  What the peers and the RPC
\* server do on their own comes to an end, so it is Progress that goes on.
Fairness == []<>(~Ready) \/ []<><<TRUE>>_vars
=============================================================================

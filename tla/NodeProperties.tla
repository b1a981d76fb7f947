--------------------------- MODULE NodeProperties ---------------------------
(***************************************************************************)
(* What must hold of the pool and of the sync manager.                     *)
(***************************************************************************)
EXTENDS SyncManager

Spending(ts, o) == {t \in ts : o \in Tx[t].in}

\* mp.outpoints and mp.stagedOutpoints are what tells checkPoolDoubleSpend
\* about conflicts: they agree with the pool and the stage, in which no two
\* transactions spend the same output, except for votes, of which checkVote
\* lets a limited number spend one ticket.
NoDoubleSpends ==
    \A o \in Outpoints :
        LET pool == Spending(mp.pool, o)
            all  == pool \cup Spending(mp.staged, o)
        IN  IF \E t \in all : Tx[t].type = "vote"
            THEN Cardinality(all) <= MaxVoteDoubleSpends
            ELSE /\ Cardinality(all) <= 1
                 /\ {mp.outpoints[o]} \ {NoTx} = pool
                 /\ {mp.stagedOutpoints[o]} \ {NoTx} = all \ pool

\* The outputs of transactions that the next block disapproved and that the
\* chain can no longer have, because it spends one of their inputs: what
\* depends on them is left in the pool when the disapproving block is
\* connected.
Disapproved ==
    UNION {ToSet(Block[chain[i]].regular) : i \in
             {j \in 1..(Len(chain) - 1) : ~ Block[chain[j + 1]].approves}}
Stranded ==
    Outs({t \in Disapproved : Tx[t].in \cap Ins(Effective(chain)) # {}})

\* Between the handling of two blocks, all that the pool and the stage spend is
\* there to be spent: unspent in the chain, also without the tip's regular
\* transactions when the votes are against them, or created in the pool.  Votes
\* are left out: another vote may have spent the ticket by now.  This is what
\* handleBlockchainNotification is for, across blocks connected, disconnected
\* and disapproved and transactions that arrive in between.
PoolSpendable ==
    calls = <<>> =>
        Ins({t \in mp.pool \cup mp.staged : Tx[t].type # "vote"})
            \subseteq UNION {FetchUtxoView(TRUE), Outs(mp.pool), Stranded,
                             IF IsRegTxTreeKnownDisapproved(mp, Tip)
                             THEN FetchUtxoView(FALSE) ELSE {}}

\* Between the handling of two blocks, a ticket is held back on the stage only
\* as long as it spends a transaction of the pool: maybeUnstageTransaction
\* does not miss one.
StageWaits == calls = <<>> => \A t \in mp.staged : HasMempoolInput(mp, t)

\* The mining view's NumAncestors of every transaction of the pool, from which
\* the order of a block template follows, is the number it has there while its
\* relatives are accepted, confirmed one by one, pruned, replaced and, in
\* reverse, put back from blocks that are disconnected or disapproved.  The view
\* adjusts a relative by the one transaction that comes or goes, so this takes
\* that none of them has relatives on both sides then.
AncestorsCounted ==
    \A t \in mp.pool : mp.ancestors[t] = Cardinality(AncestorsOf(mp, t))

\* While a peer is connected, a block is noted in requestedBlocks as requested
\* from it exactly as long as the peer owes it or its arrival is handled: no
\* request is lost and none is left over when peers answer, do not find a block
\* or leave, so that no answer is taken for an unrequested block in OnBlock.
RequestsMatch ==
    \A p \in {q \in Peers : conn[q] = "on"} :
        {b \in Blocks : sm.requested[b] = p} =
            {m.arg : m \in {n \in ToSet(sm.queue[p]) : n.kind = "getdata" /\ n.arg \in Blocks}}
            \cup (IF hand[p].at = "processing" THEN {hand[p].block} ELSE {})

\* A peer that answers, has enough work, follows a valid chain and does not hang
\* up.
Honest(p) ==
    /\ {k \in {"getheaders", "getdata"} : <<p, k>> \in env.mute} = {}
    /\ p \notin env.drops
    /\ Height(remote[p]) >= MinKnownHeight
    /\ ToSet(Branch[remote[p]]) \cap Invalid = {}

\* There are two ways to lose a peer that is honest.  It has announced as many
\* blocks in a row as OnHeaders allows while their parents were not known, or
\* stallHandler acts on a stall of the sync peer before it.  OnBlock never takes
\* an answer of it for an unrequested block, and OnHeaders never holds against it
\* what others have sent or that its chain comes in parts, however messages,
\* blocks and departures of peers interleave.
HonestLostOnlyLate ==
    [][\A p \in Peers :
          Honest(p) /\ conn[p] = "on" /\ conn'[p] # "on" =>
              \/ sm'.orphans[p] = MaxConsecutiveOrphanHeaders
              \/ sm.stalled /\ ~ sm'.stalled /\ sm.syncPeer = p]_vars

\* The chain is as high as that of every honest peer that has not been lost.
Synced ==
    \A p \in Peers :
        Honest(p) /\ conn[p] \in {"away", "on"} => BestHeight >= Height(remote[p])
=============================================================================

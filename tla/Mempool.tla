------------------------------ MODULE Mempool -------------------------------
(***************************************************************************)
(* The transaction pool: internal/mempool/mempool.go.                      *)
(*                                                                         *)
(* The pool is the record mp.  Every exported method holds mp.mtx from     *)
(* beginning to end, so each is an operator from one pool to the pools it  *)
(* may leave; what is atomic in the code is one application here.  The     *)
(* order of a Go map is not defined: where it shows, the operator yields a *)
(* set.                                                                    *)
(*                                                                         *)
(* Transactions are regular ones, ticket purchases and votes.  They are    *)
(* well formed and correctly signed; the checks kept are the ones whose    *)
(* outcome depends on the pool, on the chain or on its height.             *)
(***************************************************************************)
EXTENDS Integers, FiniteSets, Sequences, SequencesExt

CONSTANTS
    Tx,               \* transaction -> in, out, type, expiry, standard, ...
    Block,            \* block -> parent, height, approves, regular, stake, ...
    Genesis,
    Funds,            \* the outputs that are there from the first block on
    NoTx,
    MaxOrphanTxs,
    TicketsPerBlock,
    MaxVoteAge,
    MaxFutureVoteAge,
    MaxVoteDoubleSpends,
    HeightDiffToPruneTicket,
    HeightDiffToPruneVotes

VARIABLES
    mp,               \* the pool
    chain,            \* the best chain, from genesis to its tip
    headers           \* the blocks whose header the chain knows

Txs       == DOMAIN Tx
Blocks    == DOMAIN Block
Ins(ts)   == UNION {Tx[t].in : t \in ts}
Outs(ts)  == UNION {Tx[t].out : t \in ts}
Outpoints == Funds \cup Outs(Txs)
Creator(o) == IF o \in Funds THEN NoTx ELSE CHOOSE t \in Txs : o \in Tx[t].out

Tip        == Last(chain)
BestHeight == Block[Tip].height

\* The height says nothing of a transaction that was never accepted.
EmptyPool ==
    [pool |-> {}, height |-> [t \in Txs |-> 1],
     outpoints |-> [o \in Outpoints |-> NoTx],
     staged |-> {}, stagedOutpoints |-> [o \in Outpoints |-> NoTx],
     orphans |-> {}, tag |-> [t \in Txs |-> NoTx],
     votes |-> {},
     ancestors |-> [t \in Txs |-> 0], descendants |-> [t \in Txs |-> 0]]

-----------------------------------------------------------------------------
(***************************************************************************)
(* What the chain offers: the regular transactions of a block count until  *)
(* the next block disapproves them, the stake transactions always.         *)
(***************************************************************************)
Effective(c) ==
    UNION {ToSet(Block[c[i]].stake) : i \in DOMAIN c} \cup
    UNION {ToSet(Block[c[i]].regular) :
             i \in {j \in DOMAIN c : j = Len(c) \/ Block[c[j + 1]].approves}}

Utxos(ts) == (Funds \cup Outs(ts)) \ Ins(ts)

\* FetchUtxoView, with or without the regular transactions of the tip.
FetchUtxoView(includeRegularTxns) ==
    IF BestHeight = 0 THEN {}
    ELSE Utxos(IF includeRegularTxns THEN Effective(chain)
               ELSE Effective(chain) \ ToSet(Block[Tip].regular))

\* More than half of the votes a block can have are known, and as many are
\* against it as are for it.
IsRegTxTreeKnownDisapproved(p, b) ==
    LET votes == {v \in p.votes : Tx[v].votedOn = b}
        yes   == {v \in votes : Tx[v].approves}
    IN  /\ Cardinality(votes) > TicketsPerBlock \div 2
        /\ Cardinality(yes) <= Cardinality(votes \ yes)

FetchInputUtxos(p, transient) ==
    FetchUtxoView(~IsRegTxTreeKnownDisapproved(p, Tip))
        \cup Outs(p.pool \cup p.staged \cup transient)

HasMempoolInput(p, t) == \E o \in Tx[t].in : Creator(o) \in p.pool

IsExpired(t, height) == Tx[t].expiry # 0 /\ height >= Tx[t].expiry

-----------------------------------------------------------------------------
(***************************************************************************)
(* The maps.                                                               *)
(***************************************************************************)
Cleared(outpoints, ts) ==
    [o \in Outpoints |-> IF o \in Ins(ts) THEN NoTx ELSE outpoints[o]]

SpentBy(outpoints, ts) ==
    [o \in Outpoints |-> IF o \in Ins(ts) THEN CHOOSE t \in ts : o \in Tx[t].in
                         ELSE outpoints[o]]

StageTransactions(p, ts) ==
    [p EXCEPT !.staged = @ \cup ts, !.stagedOutpoints = SpentBy(@, ts)]

\* Deliberate slip: the outputs that staged transactions spend are not freed.
StagedOutpointsKept(p, ts) == [p EXCEPT !.staged = @ \ ts]

RemoveStagedTransaction(p, ts) ==
    [p EXCEPT !.staged = @ \ ts, !.stagedOutpoints = Cleared(@, ts)]

\* The transactions found by following the map of spent outputs from ts.
RECURSIVE Redeemers(_, _)
Redeemers(outpoints, ts) ==
    LET more == ts \cup ({outpoints[o] : o \in Outs(ts)} \ {NoTx})
    IN  IF more = ts THEN ts ELSE Redeemers(outpoints, more)

\* The transactions of the pool that t builds on.
RECURSIVE Ancestors(_, _)
Ancestors(pool, ts) ==
    LET more == ts \cup (pool \cap {Creator(o) : o \in Ins(ts)})
    IN  IF more = ts THEN ts ELSE Ancestors(pool, more)

AncestorsOf(p, t)   == Ancestors(p.pool, {t}) \ {t}
DescendantsOf(p, t) == {d \in p.pool : t \in AncestorsOf(p, d)}

Adjusted(counts, ts, n) ==
    [t \in Txs |-> IF t \in ts THEN counts[t] + n ELSE counts[t]]

\* The mining view counts a transaction with its relatives in the pool; p
\* holds t already.
MiningViewAdd(p, t) ==
    LET above == AncestorsOf(p, t)
        below == DescendantsOf(p, t)
    IN  [p EXCEPT
            !.ancestors   = Adjusted([@ EXCEPT ![t] = Cardinality(above)], below, 1),
            !.descendants = Adjusted([@ EXCEPT ![t] = Cardinality(below)], above, 1)]

\* Its relatives are told when it is removed alone; p still holds t.
MiningViewRemove(p, t) ==
    [p EXCEPT
        !.ancestors   = [Adjusted(@, DescendantsOf(p, t), -1) EXCEPT ![t] = 0],
        !.descendants = [Adjusted(@, AncestorsOf(p, t), -1) EXCEPT ![t] = 0]]

\* The transactions of ts are removed and nobody is told.
MiningViewForget(p, ts) ==
    [p EXCEPT !.ancestors   = [t \in Txs |-> IF t \in ts THEN 0 ELSE @[t]],
              !.descendants = [t \in Txs |-> IF t \in ts THEN 0 ELSE @[t]]]

AddTransaction(p, t) ==
    MiningViewAdd([p EXCEPT !.pool = @ \cup {t}, !.outpoints = SpentBy(@, {t})], t)

\* removeTransaction: t alone, or all that is found from the transactions ts
\* in the pool and on the stage.
RemoveAlone(p, t) ==
    IF t \in p.pool
    THEN [MiningViewRemove(p, t) EXCEPT
             !.pool = @ \ {t}, !.outpoints = Cleared(@, {t})]
    ELSE p

\* Deliberate slip: redeemers are only looked for in the pool.
StagedRedeemersKept(p, ts) ==
    LET gone == Redeemers(p.outpoints, ts) \cap p.pool
    IN  [MiningViewForget(p, gone) EXCEPT
            !.pool = @ \ gone, !.outpoints = Cleared(@, gone)]

RemoveWithRedeemers(p, ts) ==
    LET found == Redeemers(p.outpoints, ts)
        gone  == found \cap p.pool
    IN  RemoveStagedTransaction(
            [MiningViewForget(p, gone) EXCEPT
                !.pool = @ \ gone, !.outpoints = Cleared(@, gone)],
            {p.stagedOutpoints[o] : o \in Outs(found)} \ {NoTx})

RemoveTransaction(p, t, removeRedeemers) ==
    IF removeRedeemers THEN RemoveWithRedeemers(p, {t}) ELSE RemoveAlone(p, t)

\* Whatever spends an output that t spends, in the pool or on the stage.  The
\* comparison with tx.Hash() is one of pointers: it never spares t.
RemoveDoubleSpends(p, t) ==
    RemoveStagedTransaction(
        RemoveWithRedeemers(p, {p.outpoints[o] : o \in Tx[t].in} \ {NoTx}),
        {p.stagedOutpoints[o] : o \in Tx[t].in} \ {NoTx})

-----------------------------------------------------------------------------
(***************************************************************************)
(* Orphans.  The index orphansByPrev holds every orphan under each of its  *)
(* inputs, so it is not kept apart.                                        *)
(***************************************************************************)
OrphansByPrev(p, outs) == {t \in p.orphans : Tx[t].in \cap outs # {}}

RECURSIVE OrphanRedeemers(_, _)
OrphanRedeemers(p, ts) ==
    LET more == ts \cup OrphansByPrev(p, Outs(ts))
    IN  IF more = ts THEN ts ELSE OrphanRedeemers(p, more)

RemoveOrphans(p, ts, removeRedeemers) ==
    [p EXCEPT !.orphans =
        @ \ (IF removeRedeemers THEN OrphanRedeemers(p, ts \cap @) ELSE ts)]

RemoveOrphansByTag(p, tag) ==
    RemoveOrphans(p, {t \in p.orphans : p.tag[t] = tag}, TRUE)

RemoveOrphanDoubleSpends(p, ts) ==
    RemoveOrphans(p, OrphansByPrev(p, Ins(ts)), TRUE)

\* A scan removes the orphans whose time is up, if there is one due; then any
\* one orphan makes room.
LimitNumOrphans(p) ==
    LET scanned == {RemoveOrphans(p, late, TRUE) : late \in SUBSET p.orphans}
    IN  UNION {IF Cardinality(q.orphans) + 1 <= MaxOrphanTxs THEN {q}
               ELSE {RemoveOrphans(q, {t}, FALSE) : t \in q.orphans} :
               q \in scanned}

AddOrphan(p, t, tag) ==
    IF MaxOrphanTxs <= 0 THEN {p}
    ELSE {[q EXCEPT !.orphans = @ \cup {t}, !.tag[t] = tag] :
            q \in LimitNumOrphans(p)}

-----------------------------------------------------------------------------
(***************************************************************************)
(* Acceptance.  The result is "accepted", "missing" (an orphan), "known"   *)
(* (a duplicate, or an unspent output of it is in the chain) or "error".   *)
(***************************************************************************)
CheckVote(p, t) ==
    LET b     == Tx[t].votedOn
        rival == {v \in p.pool : Tx[v].type = "vote" /\ Tx[v].in = Tx[t].in}
    IN  /\ b \in headers
        /\ Block[b].height >= BestHeight + 1 - MaxVoteAge
        /\ Block[b].height <= BestHeight + MaxFutureVoteAge
        /\ ~ \E v \in p.votes \cap rival : Tx[v].votedOn = b
        /\ Cardinality(rival) < MaxVoteDoubleSpends

CheckPoolDoubleSpend(p, t) ==
    \A o \in Tx[t].in : p.outpoints[o] = NoTx /\ p.stagedOutpoints[o] = NoTx

\* Votes are tracked; nothing if one of the ticket on the block is already.
AddVote(p, t) ==
    IF \/ Tx[t].type # "vote"
       \/ \E v \in p.votes : Tx[v].votedOn = Tx[t].votedOn /\ Tx[v].in = Tx[t].in
    THEN p ELSE [p EXCEPT !.votes = @ \cup {t}]

\* Tickets of the pool that spend a regular transaction move to the stage.
StageRedeemers(p, t) ==
    LET tickets == {r \in {p.outpoints[o] : o \in Tx[t].out} \ {NoTx} :
                      Tx[t].type = "regular" /\ Tx[r].type = "ticket"}
    IN  StageTransactions(RemoveWithRedeemers(p, tickets), tickets)

\* What maybeAcceptTransaction makes of t, and what it does when it accepts.
Outcome(p, t, rejectDupOrphans, transient) ==
    CASE \/ t \in p.pool \cup p.staged
         \/ rejectDupOrphans /\ t \in p.orphans -> "known"
      [] IsExpired(t, BestHeight + 1) -> "error"
      [] ~ Tx[t].standard -> "error"
      [] Tx[t].type = "ticket" /\ Tx[t].price < Block[Tip].stakeDiff -> "error"
      [] Tx[t].type = "vote" /\ ~ CheckVote(p, t) -> "error"
      [] Tx[t].type # "vote" /\ ~ CheckPoolDoubleSpend(p, t) -> "error"
      [] Tx[t].out \cap FetchUtxoView(~IsRegTxTreeKnownDisapproved(p, Tip)) # {} ->
           "known"
      [] ~ Tx[t].in \subseteq FetchInputUtxos(p, transient) -> "missing"
      [] OTHER -> "accepted"

Accepted(p, t, isNew) ==
    LET q == [p EXCEPT !.height[t] = BestHeight]
    IN  IF Tx[t].type = "ticket" /\ HasMempoolInput(p, t)
        THEN StageTransactions(q, {t})
        ELSE AddVote(IF isNew THEN AddTransaction(q, t)
                     ELSE StageRedeemers(AddTransaction(q, t), t), t)

\* A block's transactions in reverse, each with the ones before it as a
\* source of inputs; the dependents of one that is refused go with it.
Readded(p, t, transient) ==
    LET outcome == Outcome(p, t, TRUE, transient)
    IN  CASE outcome = "accepted" -> Accepted(p, t, FALSE)
          [] outcome = "error"    -> RemoveTransaction(p, t, TRUE)
          [] OTHER -> p

\* Deliberate slip: in the order of the block.
RECURSIVE ReaddedInOrder(_, _)
ReaddedInOrder(p, txns) ==
    IF txns = <<>> THEN p
    ELSE ReaddedInOrder(Readded(p, Head(txns), {}), Tail(txns))

RECURSIVE MaybeAcceptTransactions(_, _)
MaybeAcceptTransactions(p, txns) ==
    IF txns = <<>> THEN p
    ELSE MaybeAcceptTransactions(Readded(p, Last(txns), ToSet(Front(txns))),
                                 Front(txns))

\* Staged tickets that spend t and no transaction of the pool.
RECURSIVE Unstaged(_, _)
Unstaged(p, ts) ==
    IF ts = {} THEN p
    ELSE LET t == CHOOSE t \in ts : TRUE
         IN  Unstaged(AddTransaction(RemoveStagedTransaction(p, {t}), t), ts \ {t})

\* Deliberate slip: the tickets are looked up in the pool.
DependentsOfPool(p, t) ==
    LET tickets == {p.outpoints[o] : o \in Tx[t].out} \ {NoTx}
    IN  Unstaged(p, {r \in tickets : r \in p.staged})

MaybeAcceptDependents(p, t) ==
    LET tickets == IF Tx[t].type = "regular"
                   THEN {p.stagedOutpoints[o] : o \in Tx[t].out} \ {NoTx}
                   ELSE {}
    IN  Unstaged(p, {r \in tickets : ~ HasMempoolInput(p, r)})

-----------------------------------------------------------------------------
(***************************************************************************)
(* Orphans that may have found their parents.  The outputs outs are        *)
(* visited in order; of the orphans that spend one of them, any may be     *)
(* tried first, and the first that is accepted or refused ends the visit.  *)
(***************************************************************************)
RECURSIVE VisitOutputs(_, _, _)
VisitOutputs(p, outs, accepted) ==
    IF outs = <<>> THEN {RemoveOrphanDoubleSpends(p, accepted)}
    ELSE LET tried == {t \in OrphansByPrev(p, {Head(outs)}) :
                         Outcome(p, t, FALSE, {}) # "missing"}
         IN  IF tried = {} THEN VisitOutputs(p, Tail(outs), accepted)
             ELSE UNION {
                 IF Outcome(p, t, FALSE, {}) = "accepted"
                 THEN VisitOutputs(RemoveOrphans(Accepted(p, t, TRUE), {t}, FALSE),
                                   Tail(outs) \o SetToSeq(Tx[t].out),
                                   accepted \cup {t})
                 ELSE VisitOutputs(RemoveOrphans(p, {t}, TRUE), Tail(outs), accepted)
                 : t \in tried}

ProcessOrphans(p, t) == VisitOutputs(p, SetToSeq(Tx[t].out), {t})

ProcessTransaction(p, t, allowOrphan, tag) ==
    LET outcome == Outcome(p, t, TRUE, {})
    IN  CASE outcome = "accepted" -> ProcessOrphans(Accepted(p, t, TRUE), t)
          [] outcome = "missing" /\ allowOrphan -> AddOrphan(p, t, tag)
          [] OTHER -> {p}

-----------------------------------------------------------------------------
(***************************************************************************)
(* Pruning for the best block b.                                           *)
(***************************************************************************)
PruneStakeTx(p, b) ==
    LET height == Block[b].height
        Old(t, diff) == p.height[t] + diff < height
        Outbid(t)    == Tx[t].price < Block[b].stakeDiff
        stale == {t \in p.pool :
                    \/ Tx[t].type = "ticket"
                       /\ (Old(t, HeightDiffToPruneTicket) \/ Outbid(t))
                    \/ Tx[t].type = "vote" /\ Old(t, HeightDiffToPruneVotes)}
        unstaged == {t \in p.staged : Outbid(t) \/ Old(t, HeightDiffToPruneTicket)}
        q == RemoveStagedTransaction(RemoveWithRedeemers(p, stale), unstaged)
    IN  [q EXCEPT !.votes =
            {v \in @ : Block[Tx[v].votedOn].height + HeightDiffToPruneVotes >= height}]

PruneExpiredTx(p, b) ==
    LET Late(ts) == {t \in ts : IsExpired(t, Block[b].height + 1)}
        q == RemoveWithRedeemers(p, Late(p.pool))
    IN  RemoveStagedTransaction(q, Late(q.staged))
=============================================================================

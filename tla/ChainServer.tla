---------------------------- MODULE ChainServer -----------------------------
(***************************************************************************)
(* The moves of the best chain and what the server does to the pool for    *)
(* each of them: handleBlockchainNotification in server.go.                *)
(*                                                                         *)
(* The chain calls the handler for every block it connects or disconnects  *)
(* and waits for it, but without the chain lock, and the handler takes the *)
(* lock of the pool anew for every call.  Whoever brings transactions gets *)
(* in between any two calls.                                               *)
(***************************************************************************)
EXTENDS Mempool

CONSTANTS
    Invalid,          \* the blocks whose data breaks a rule
    Recent,           \* the blocks that are less than a day old
    MinKnownHeight    \* the height with minKnownWork

VARIABLES
    data,             \* the blocks whose data is stored
    failed,           \* the blocks that failed validation
    target,           \* where a reorganization is heading
    latched,          \* isCurrentLatch: the chain believes it is current
    calls,            \* what the handler has yet to do
    confirmed         \* recentlyConfirmedTxns

chainVars  == <<chain, headers, data, failed, target, latched>>
serverVars == <<mp, chainVars, calls, confirmed>>

Busy == target # Tip \/ calls # <<>>

Branch ==
    LET To[b \in Blocks] == IF b = Genesis THEN <<b>> ELSE Append(To[Block[b].parent], b)
    IN  [b \in Blocks |-> To[b]]

-----------------------------------------------------------------------------
(***************************************************************************)
(* The calls for a block.                                                  *)
(***************************************************************************)
Confirmed(t) ==
    <<[op |-> "remove", arg |-> t], [op |-> "dependents", arg |-> t],
      [op |-> "doubleSpends", arg |-> t], [op |-> "removeOrphan", arg |-> t],
      [op |-> "processOrphans", arg |-> t]>>

ConfirmedAll(txns) == FlattenSeq([i \in DOMAIN txns |-> Confirmed(txns[i])])

\* The transactions of a new block are also remembered as confirmed.
ConnectedAll(txns) ==
    FlattenSeq([i \in DOMAIN txns |->
        Append(Confirmed(txns[i]), [op |-> "transactionConfirmed", arg |-> txns[i]])])

Readd(txns) == <<[op |-> "readd", arg |-> txns]>>

BlockConnected(b) ==
    ConnectedAll(Block[b].regular) \o ConnectedAll(Block[b].stake) \o
    (IF Block[b].approves THEN <<>> ELSE Readd(Block[Block[b].parent].regular))

BlockDisconnected(b) ==
    (IF Block[b].approves THEN <<>> ELSE ConfirmedAll(Block[Block[b].parent].regular))
    \o Readd(Block[b].regular) \o Readd(Block[b].stake)

\* One call of the handler.
HandleCall ==
    /\ calls # <<>>
    /\ calls' = Tail(calls)
    /\ LET c == Head(calls)
       IN  /\ mp' \in CASE c.op = "remove" -> {RemoveTransaction(mp, c.arg, FALSE)}
                        [] c.op = "dependents" -> {MaybeAcceptDependents(mp, c.arg)}
                        [] c.op = "doubleSpends" -> {RemoveDoubleSpends(mp, c.arg)}
                        [] c.op = "removeOrphan" -> {RemoveOrphans(mp, {c.arg}, FALSE)}
                        [] c.op = "processOrphans" -> ProcessOrphans(mp, c.arg)
                        [] c.op = "readd" -> {MaybeAcceptTransactions(mp, c.arg)}
                        [] OTHER -> {mp}
           /\ confirmed' = IF c.op = "transactionConfirmed"
                           THEN confirmed \cup {c.arg} ELSE confirmed
    /\ UNCHANGED chainVars

-----------------------------------------------------------------------------
(***************************************************************************)
(* The chain, as its users see it.  Work is height; of two headers with    *)
(* the same work, the one with the lower hash is better.                   *)
(***************************************************************************)
Height(b)      == Block[b].height
KnownInvalid(b, bad) == ToSet(Branch[b]) \cap bad # {}

BestHeaderOf(known, bad) ==
    LET good == {b \in known : ~ KnownInvalid(b, bad)}
    IN  CHOOSE b \in good : \A c \in good : Height(c) <= Height(b)

BestHeader == BestHeaderOf(headers, failed)

\* maybeUpdateIsCurrent with the header best, and IsCurrent: the blocks in
\* Recent are less than a day old.
MaybeLatch(best) ==
    IF ~latched /\ (BestHeight < MinKnownHeight \/ BestHeight # Height(best))
    THEN FALSE ELSE Tip \in Recent

ChainIsCurrent(latch) == latch /\ Tip \in Recent

\* A block's data arrives: the chain heads for the longest branch it has all
\* the data of, unless the best one is as long.
Linked(blocks) == {b \in blocks : ToSet(Branch[b]) \subseteq blocks}

AcceptBlock(b) ==
    LET longer == {c \in Linked(data \cup {b}) : Height(c) > BestHeight}
        best   == {c \in longer : \A d \in longer : Height(d) <= Height(c)}
    IN  /\ headers' = headers \cup {b}
        /\ data' = data \cup {b}
        /\ target' \in IF best = {} THEN {target} ELSE best
        /\ UNCHANGED <<chain, failed, latched, mp, calls, confirmed>>

\* The data of a block in Invalid breaks a rule.
RejectBlock(b) ==
    /\ headers' = headers \cup {b}
    /\ failed' = failed \cup {b}
    /\ UNCHANGED <<chain, data, target, latched, mp, calls, confirmed>>

ConnectBlock ==
    /\ target # Tip /\ calls = <<>>
    /\ IsPrefix(chain, Branch[target])
    /\ LET b == Branch[target][Len(chain) + 1]
       IN  /\ chain' = Append(chain, b)
           /\ calls' = BlockConnected(b)
    /\ UNCHANGED <<mp, headers, data, failed, target, latched, confirmed>>

DisconnectBlock ==
    /\ target # Tip /\ calls = <<>>
    /\ ~ IsPrefix(chain, Branch[target])
    /\ chain' = Front(chain)
    /\ calls' = BlockDisconnected(Tip)
    /\ UNCHANGED <<mp, headers, data, failed, target, latched, confirmed>>

ChainStep == ConnectBlock \/ DisconnectBlock \/ HandleCall
=============================================================================

------------------------------ MODULE UtxoView ------------------------------
(***************************************************************************)
(* What connecting and disconnecting a block does to a view of the unspent *)
(* transaction outputs (internal/blockchain/utxoviewpoint.go), as pure     *)
(* operators.                                                              *)
(*                                                                         *)
(* A block has a stake tree and a regular tree of transactions.  The       *)
(* header of a block may disapprove the regular tree of its parent, which  *)
(* undoes it.  An output is reduced to its identity: amounts, scripts and  *)
(* block heights are fixed by the transaction that creates it.             *)
(***************************************************************************)
EXTENDS BlockTree, Sequences, Functions

CONSTANTS
    Outputs,    \* the spendable transaction outputs
    Txns,       \* the transactions
    Ins,        \* Ins[t]: the outputs a transaction spends
    Outs,       \* Outs[t]: the outputs it creates
    Regular,    \* Regular[b]: the regular tree of a block, in order
    Stake,      \* Stake[b]: its stake tree, in order
    Approves    \* the blocks that approve the regular tree of their parent

ASSUME TxnAssumption ==
    /\ Ins \in [Txns -> SUBSET Outputs]
    /\ Outs \in [Txns -> SUBSET Outputs]
    /\ \A t, u \in Txns : t # u => Outs[t] \cap Outs[u] = {}
    /\ Regular \in [Blocks -> Seq(Txns)]
    /\ Stake \in [Blocks -> Seq(Txns)]
    /\ Regular[Genesis] = << >> /\ Stake[Genesis] = << >>
    /\ Approves \subseteq Blocks

TxnsOf(b) == Range(Stake[b]) \cup Range(Regular[b])

\* What transactions spend, what they create, and what is left of that.
InsOf(T)   == UNION {Ins[t] : t \in T}
OutsOf(T)  == UNION {Outs[t] : t \in T}
Unspent(T) == OutsOf(T) \ InsOf(T)

\* The transactions of the chain below b which no block up to b disapproves.
Disapproved(a, b) ==
    \E c \in Ancestors[b] \ Approves : Parent[c] = a

Below(b) ==
    UNION {Range(Stake[a]) \cup
               (IF Disapproved(a, b) THEN {} ELSE Range(Regular[a])) :
           a \in Ancestors[b] \ {b}}

ConnectedTxns(b) == Below(b) \cup TxnsOf(b)

\* The reference: what is created and not spent in that chain.
UtxoSet(b) == Unspent(ConnectedTxns(b))

\* The unspent outputs that a block which disapproves its parent takes away
\* with the regular tree of the parent and creates again.
Revived(b) ==
    IF b \in Approves THEN {}
    ELSE UtxoSet(b) \cap UtxoSet(Parent[b]) \cap OutsOf(Range(Regular[Parent[b]]))

\* The transactions of a tree differ, spend different outputs, and spend nothing
\* that is created at the same or a later place.
InOrder(txns) ==
    \A i, j \in DOMAIN txns :
        /\ i # j => /\ txns[i] # txns[j]
                    /\ Ins[txns[i]] \cap Ins[txns[j]] = {}
        /\ i <= j => Ins[txns[i]] \cap Outs[txns[j]] = {}

\* The blocks are valid.  A stake transaction spends what is unspent below the
\* block, and a regular one also what its own tree creates; an output of the
\* stake tree has to mature first.  A transaction is not repeated unless it was
\* disapproved: what it spends is spent, and a coinbase has its height.
ASSUME ValidAssumption ==
    \A b \in Blocks :
        LET stake   == Range(Stake[b])
            regular == Range(Regular[b])
        IN  /\ InOrder(Stake[b])
            /\ InOrder(Regular[b])
            /\ stake \cap regular = {}
            /\ TxnsOf(b) \cap Below(b) = {}
            /\ InsOf(stake) \subseteq Unspent(Below(b))
            /\ InsOf(regular) \subseteq
                   (Unspent(Below(b)) \ InsOf(stake)) \cup OutsOf(regular)

-----------------------------------------------------------------------------
\* The state of an output in a view:
\*   "none"      the view has nothing about it
\*   "nil"       it was looked up and does not exist
\*   "loaded"    it was looked up and is unspent
\*   "gone"      it was looked up and is spent, but not yet in the backend
\*   "unspent"   the view created or restored it          (modified)
\*   "spent"     the view spent it                        (modified)
\*   "zeroconf"  it only ever existed in the view         (modified)
\*   "panic"     it was spent although it was not there
ViewStates == {"none", "nil", "loaded", "gone", "unspent", "spent", "zeroconf",
               "panic"}

EmptyView == [o \in Outputs |-> "none"]

\* addTxOuts on the outputs S.
AddTxOuts(view, S) == [o \in Outputs |-> IF o \in S THEN "unspent" ELSE view[o]]

\* connectRegularTransaction and connectStakeTransaction.
ConnectTransaction(view, t, zeroConfOuts) ==
    LET spent(o) == IF view[o] \notin {"loaded", "unspent"} THEN "panic"
                    ELSE IF o \in zeroConfOuts THEN "zeroconf" ELSE "spent"
    IN  AddTxOuts([o \in Outputs |-> IF o \in Ins[t] THEN spent(o) ELSE view[o]],
                  Outs[t])

ConnectTransactions(view, txns, zeroConfOuts) ==
    LET after[i \in 0..Len(txns)] ==
            IF i = 0 THEN view
            ELSE ConnectTransaction(after[i - 1], txns[i], zeroConfOuts)
    IN  after[Len(txns)]

\* One iteration of disconnectTransactions: the outputs are spent and the
\* inputs restored.
DisconnectTransaction(view, t, zeroConfOuts) ==
    LET spent(o) == IF o \in zeroConfOuts THEN "zeroconf"
                    ELSE IF view[o] \in {"gone", "spent", "zeroconf"} THEN view[o]
                    ELSE "spent"
    IN  [o \in Outputs |->
            IF o \in Ins[t] THEN "unspent"
            ELSE IF o \in Outs[t] THEN spent(o) ELSE view[o]]

\* The loop runs from the last transaction to the first.
DisconnectTransactions(view, txns, zeroConfOuts) ==
    LET after[i \in 0..Len(txns)] ==
            IF i = 0 THEN view
            ELSE DisconnectTransaction(after[i - 1], txns[Len(txns) + 1 - i],
                                       zeroConfOuts)
    IN  after[Len(txns)]

-----------------------------------------------------------------------------
\* The outputs of a regular tree that are spent later in the same tree.
InFlight(txns) ==
    {o \in Outputs : \E i, j \in DOMAIN txns :
        i < j /\ o \in Outs[txns[i]] /\ o \in Ins[txns[j]]}

\* A deliberate slip: every output in flight skips the cache.
AllInFlight(view, txns) == InFlight(txns)

\* addRegularInputUtxos: those of them that bypass the cache, because the view
\* knows no output of the transaction that creates them.
ZeroConfOuts(view, txns) ==
    {o \in InFlight(txns) :
        \A t \in Range(txns) : o \in Outs[t] =>
            \A p \in Outs[t] : view[p] \in {"none", "nil"}}

\* The other inputs of the trees, as far as the view has nothing about them.
Needed(view, regular, stake) ==
    {o \in (InsOf(Range(regular)) \ InFlight(regular)) \cup InsOf(Range(stake)) :
        view[o] = "none"}

\* fetchInputUtxos and fetchRegularInputUtxos; found[o] is what the cache
\* answers.
FetchInputs(view, regular, stake, found) ==
    [o \in Outputs |->
        IF o \in Needed(view, regular, stake) THEN found[o]
        ELSE IF o \in InFlight(regular) THEN "unspent" ELSE view[o]]

-----------------------------------------------------------------------------
\* disconnectDisapprovedBlock, when the block disapproves its parent.
UndoParent(view, b, found) ==
    IF b \in Approves THEN view
    ELSE LET txns == Regular[Parent[b]]
         IN  DisconnectTransactions(FetchInputs(view, txns, << >>, found), txns,
                                    ZeroConfOuts(view, txns))

\* UtxoViewpoint.connectBlock: the stake tree comes first.
ViewConnectBlock(view, b, found) ==
    LET undone  == UndoParent(view, b, found)
        zero    == ZeroConfOuts(undone, Regular[b])
        fetched == FetchInputs(undone, Regular[b], Stake[b], found)
    IN  ConnectTransactions(ConnectTransactions(fetched, Stake[b], {}),
                            Regular[b], zero)

\* assertBlockUtxoView: what a connected block spends is spent, and what it
\* creates is there, spent exactly when its own regular tree spends it.
AssertBlockUtxoView(view, b) ==
    \A t \in TxnsOf(b) :
        /\ \A o \in Ins[t] : view[o] \in {"spent", "gone", "zeroconf"}
        /\ \A o \in Outs[t] :
              view[o] \in IF o \in InFlight(Regular[b]) THEN {"spent", "zeroconf"}
                         ELSE {"unspent"}

\* The reconnection of a parent the disconnected block had disapproved.
RedoParent(view, b, found) ==
    IF b \in Approves THEN view
    ELSE LET txns == Regular[Parent[b]]
         IN  ConnectTransactions(FetchInputs(view, txns, << >>, found), txns,
                                 ZeroConfOuts(view, txns))

\* The disconnection of the block itself: the regular tree comes first.
UndoBlock(view, b, found) ==
    LET zero    == ZeroConfOuts(view, Regular[b])
        fetched == FetchInputs(view, Regular[b], Stake[b], found)
        regular == DisconnectTransactions(fetched, Regular[b], zero)
    IN  DisconnectTransactions(regular, Stake[b], {})

\* UtxoViewpoint.disconnectBlock
ViewDisconnectBlock(view, b, found) == RedoParent(UndoBlock(view, b, found), b, found)

\* The outputs that the two look up in the cache.
ConnectLookups(view, b, found) ==
    Needed(UndoParent(view, b, found), Regular[b], Stake[b])
        \cup (IF b \in Approves THEN {} ELSE Needed(view, Regular[Parent[b]], << >>))

DisconnectLookups(view, b, found) ==
    Needed(view, Regular[b], Stake[b])
        \cup (IF b \in Approves THEN {}
              ELSE Needed(UndoBlock(view, b, found), Regular[Parent[b]], << >>))
=============================================================================

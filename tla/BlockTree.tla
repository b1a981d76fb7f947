----------------------------- MODULE BlockTree -----------------------------
(***************************************************************************)
(* The tree of block headers the chain code works on                       *)
(* (internal/blockchain/blockindex.go and chainview.go).                   *)
(*                                                                         *)
(* A header names its parent by hash, so the tree is fixed before a node   *)
(* hears about any of it: the tree is a constant, and what the other       *)
(* modules track is which part of it a node knows.  Everything else of a   *)
(* header is reduced to the height, the cumulative proof of work and the   *)
(* rank of its hash, which are all that chain selection compares.          *)
(***************************************************************************)
EXTENDS Integers, FiniteSets

CONSTANTS
    Blocks,     \* the block headers that exist, genesis included
    Genesis,    \* the genesis block
    NoBlock,    \* a nil *blockNode
    Parent,     \* Parent[b]: the previous block; NoBlock for genesis
    Ancestors,  \* Ancestors[b]: b and everything below it down to genesis
    Height,     \* Height[b]: blockNode.height
    WorkSum,    \* WorkSum[b]: blockNode.workSum
    HashRank    \* HashRank[b]: the hash, as compared by compareHashesAsUint256LE

ASSUME GenesisAssumption ==
    /\ Genesis \in Blocks
    /\ NoBlock \notin Blocks
    /\ Parent[Genesis] = NoBlock
    /\ Height[Genesis] = 0

ASSUME FiniteAssumption == IsFiniteSet(Blocks)

ASSUME TreeAssumption ==
    /\ Height \in [Blocks -> Nat]
    /\ WorkSum \in [Blocks -> Nat]
    /\ HashRank \in [Blocks -> Nat]
    /\ Ancestors \in [Blocks -> SUBSET Blocks]
    /\ \A b \in Blocks \ {Genesis} :
          /\ Parent[b] \in Blocks
          /\ Height[b] = Height[Parent[b]] + 1
          /\ WorkSum[b] > WorkSum[Parent[b]]

ASSUME AncestorAssumption ==
    /\ Ancestors[Genesis] = {Genesis}
    /\ \A b \in Blocks \ {Genesis} :
          Ancestors[b] = Ancestors[Parent[b]] \cup {b}

\* What AncestorAssumption implies by induction on the height.
ASSUME PathAssumption ==
    \A b \in Blocks :
        /\ Genesis \in Ancestors[b]
        /\ \A a \in Ancestors[b] :
              /\ Ancestors[a] \subseteq Ancestors[b]
              /\ Height[a] <= Height[b]
              /\ a # b => \E n \in Ancestors[b] : Parent[n] = a

ASSUME HashAssumption ==
    \A a, b \in Blocks : HashRank[a] = HashRank[b] => a = b

\* blockNode.IsAncestorOf: a node is an ancestor of itself.
IsAncestorOf(a, b) == a \in Ancestors[b]

Children(n) == {c \in Blocks : Parent[c] = n}

\* The members of S with the greatest height; one when S is part of a branch.
Highest(S) == {h \in S : \A o \in S : Height[o] <= Height[h]}

\* The block to connect next on the way up from tip to its descendant target.
NextOnPath(tip, target) ==
    CHOOSE n \in Ancestors[target] : Parent[n] = tip
=============================================================================

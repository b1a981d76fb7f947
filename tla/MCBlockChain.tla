---------------------------- MODULE MCBlockChain ----------------------------
(***************************************************************************)
(* Small header trees with one unit of work per block.  Their functions    *)
(* are written out, because TLC evaluates them at each use; the            *)
(* assumptions of BlockTree check them against each other.                 *)
(***************************************************************************)
EXTENDS BlockChainProperties

\* Two branches of two blocks.
\*
\*    g - a1 - a2
\*     \- b1 - b2
ForkParent    == [g |-> "none", a1 |-> "g", a2 |-> "a1", b1 |-> "g", b2 |-> "b1"]
ForkBlocks    == {"g", "a1", "a2", "b1", "b2"}
ForkAncestors == [g |-> {"g"}, a1 |-> {"g", "a1"}, a2 |-> {"g", "a1", "a2"},
                  b1 |-> {"g", "b1"}, b2 |-> {"g", "b1", "b2"}]
ForkHeight    == [g |-> 0, a1 |-> 1, a2 |-> 2, b1 |-> 1, b2 |-> 2]
ForkHash      == [g |-> 1, a1 |-> 2, a2 |-> 3, b1 |-> 4, b2 |-> 5]

\* The same with a third branch.
\*
\*    g - a1 - a2
\*     \- b1 - b2
\*          \- c2
TreeParent    == [g |-> "none", a1 |-> "g", a2 |-> "a1", b1 |-> "g", b2 |-> "b1",
                  c2 |-> "b1"]
TreeBlocks    == {"g", "a1", "a2", "b1", "b2", "c2"}
TreeAncestors == [g |-> {"g"}, a1 |-> {"g", "a1"}, a2 |-> {"g", "a1", "a2"},
                  b1 |-> {"g", "b1"}, b2 |-> {"g", "b1", "b2"},
                  c2 |-> {"g", "b1", "c2"}]
TreeHeight    == [g |-> 0, a1 |-> 1, a2 |-> 2, b1 |-> 1, b2 |-> 2, c2 |-> 2]
TreeHash      == [g |-> 1, a1 |-> 2, a2 |-> 3, b1 |-> 4, b2 |-> 5, c2 |-> 6]

AtMost(n, blocks, bad) ==
    {v \in [blocks -> bad \cup {"ok"}] :
        /\ v["g"] = "ok"
        /\ Cardinality({b \in blocks : v[b] # "ok"}) <= n}

\* At most one block has something wrong with it.
ForkGood     == AtMost(0, ForkBlocks, {})
ForkConnect  == AtMost(1, ForkBlocks, {"connect"})

\* The new rules start between the two blocks of a branch.
ForkNewRules == {"a2"}
=============================================================================

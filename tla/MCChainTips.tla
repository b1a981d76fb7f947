---------------------------- MODULE MCChainTips ----------------------------
(***************************************************************************)
(* A tree with a main branch of height five, a branch that leaves it at    *)
(* height one, and a short branch at the bottom.  With a prune depth of    *)
(* one every branch is at some time inside and outside the cache.          *)
(*                                                                         *)
(*    g - a1 - a2 - a3 - a4 - a5                                           *)
(*     \    \- b2 - b3 - b4                                                *)
(*      \- c1 - c2                                                         *)
(***************************************************************************)
EXTENDS ChainTips, MCTree

TreeParent ==
    ParentsOf([a1 |-> "g",  a2 |-> "a1", a3 |-> "a2", a4 |-> "a3", a5 |-> "a4",
               b2 |-> "a1", b3 |-> "b2", b4 |-> "b3",
               c1 |-> "g",  c2 |-> "c1"], "g", "none")

TreeBlocks    == DOMAIN TreeParent
TreeAncestors == AncestorsOf(TreeParent, "g")
TreeHeight    == HeightsOf(TreeParent, "g")
TreeHash      == RanksOf(<<"g", "a1", "a2", "a3", "a4", "a5",
                           "b2", "b3", "b4", "c1", "c2">>)
=============================================================================

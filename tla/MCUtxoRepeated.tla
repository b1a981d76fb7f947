--------------------------- MODULE MCUtxoRepeated ---------------------------
(***************************************************************************)
(* An instance of the cache of unspent outputs with a block that           *)
(* disapproves its parent and repeats a transaction of it.                 *)
(***************************************************************************)
EXTENDS UtxoCacheProperties, MCTree

\* a2 disapproves the regular tree of a1.
\*
\*    g - r - a1 - a2| - a3
MCParent    == ParentsOf([r |-> "g", a1 |-> "r", a2 |-> "a1", a3 |-> "a2"], "g", "none")
MCBlocks    == DOMAIN MCParent
MCAncestors == AncestorsOf(MCParent, "g")
MCHeight    == HeightsOf(MCParent, "g")
MCHash      == RanksOf(<<"g", "r", "a1", "a2", "a3">>)
MCApproves  == MCBlocks \ {"a2"}

\* t1 is in a1 and again in a2; its output stays unspent until t2 in a3.
MCTxns    == {"c0", "t1", "t2"}
MCOutputs == {"o1", "o2", "o3"}
MCIns     == [c0 |-> {}, t1 |-> {"o1"}, t2 |-> {"o2"}]
MCOuts    == [c0 |-> {"o1"}, t1 |-> {"o2"}, t2 |-> {"o3"}]
MCRegular == [g |-> << >>, r |-> <<"c0">>, a1 |-> <<"t1">>, a2 |-> <<"t1">>,
              a3 |-> <<"t2">>]
MCStake   == [b \in MCBlocks |-> << >>]
=============================================================================

---------------------------- MODULE MCUtxoCache ----------------------------
(***************************************************************************)
(* A small instance of the cache of unspent outputs for TLC.  A behaviour  *)
(* has either flushes for the statistics or stops of the process besides   *)
(* reorganizations and lookups: with both the code is wrong, which is a    *)
(* run of its own.                                                         *)
(***************************************************************************)
EXTENDS UtxoCacheProperties, MCTree

\* Two branches above a block r that creates two outputs.  A block with a
\* bar disapproves the regular tree of its parent.
\*
\*    g - r - a1 - a2| 
\*         \- b1 - b2|
MCParent    == ParentsOf([r |-> "g", a1 |-> "r", a2 |-> "a1", b1 |-> "r",
                          b2 |-> "b1"], "g", "none")
MCBlocks    == DOMAIN MCParent
MCAncestors == AncestorsOf(MCParent, "g")
MCHeight    == HeightsOf(MCParent, "g")
MCHash      == RanksOf(<<"g", "r", "a1", "a2", "b1", "b2">>)
MCApproves  == MCBlocks \ {"a2", "b2"}

\* t1 spends an output of the coinbase c0, t2 spends the output of t1, and s1
\* is a stake transaction.
MCTxns    == {"c0", "t1", "t2", "s1"}
MCOutputs == {"o1", "o2", "o3", "o4", "o5"}
MCIns     == [c0 |-> {}, t1 |-> {"o1"}, t2 |-> {"o3"}, s1 |-> {"o2"}]
MCOuts    == [c0 |-> {"o1", "o2"}, t1 |-> {"o3"}, t2 |-> {"o4"}, s1 |-> {"o5"}]

\* t1 is in a1 and, with t2, again in the block that disapproves it; the other
\* branch has both first and repeats only t1.
MCRegular == [g |-> << >>, r |-> <<"c0">>, a1 |-> <<"t1">>, a2 |-> <<"t1", "t2">>,
              b1 |-> <<"t1", "t2">>, b2 |-> <<"t1">>]
MCStake   == [g |-> << >>, r |-> << >>, a1 |-> <<"s1">>, a2 |-> << >>,
              b1 |-> << >>, b2 |-> <<"s1">>]
=============================================================================

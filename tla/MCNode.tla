------------------------------- MODULE MCNode -------------------------------
(***************************************************************************)
(* A node for TLC: a pool, a chain and a sync manager with two peers.  A   *)
(* behaviour follows one scenario.                                         *)
(*                                                                         *)
(*   reorganize  the a-branch gives way to a longer one that spends what   *)
(*               A spends, or grows                                        *)
(*   disapprove  n2 and m2 disapprove a1; n3 has its transactions again,   *)
(*               m2 has one that conflicts with them                       *)
(*   vote        one ticket votes against a1 and for d1                    *)
(*   generations blocks confirm, disapprove and give back A and R, while L  *)
(*               stays in the pool                                         *)
(*   orphan      the peer that sent the orphans may hang up                *)
(*   stray       a peer sends a block and headers that nobody asked for    *)
(*   live, mute  the node syncs from scratch, from peers of which p is     *)
(*               silent in the second                                      *)
(*   late        so too, and p may hang up when it has been silent         *)
(*   stingy      so too, and p sends headers but no data                   *)
(*   poor        so too, and p is on a chain with too little work          *)
(*   grow        so too, and a block is found when it has caught up        *)
(*   early       two blocks are found before that                          *)
(*   fork        p finds an invalid block and builds on it, q a valid one  *)
(*   gossip      transactions are announced, and q may hang up             *)
(*   drop        both peers may hang up                                    *)
(*                                                                         *)
(* The transaction A keeps one output unspent, so that the chain can tell  *)
(* that it has A.                                                          *)
(***************************************************************************)
EXTENDS NodeProperties

VARIABLE scenario

MCTx ==
    [A |-> [type |-> "regular", in |-> {"o1"}, out |-> {"a", "b", "u"}, votedOn |-> "g",
           approves |-> TRUE, expiry |-> 0, standard |-> TRUE, price |-> 1],
     D |-> [type |-> "regular", in |-> {"o1", "o2"}, out |-> {"d"}, votedOn |-> "g",
           approves |-> TRUE, expiry |-> 0, standard |-> TRUE, price |-> 1],
     C |-> [type |-> "regular", in |-> {"a"}, out |-> {"c"}, votedOn |-> "g",
           approves |-> TRUE, expiry |-> 4, standard |-> TRUE, price |-> 1],
     R |-> [type |-> "regular", in |-> {"a"}, out |-> {"r"}, votedOn |-> "g",
           approves |-> TRUE, expiry |-> 0, standard |-> TRUE, price |-> 1],
     L |-> [type |-> "regular", in |-> {"r"}, out |-> {"l"}, votedOn |-> "g",
           approves |-> TRUE, expiry |-> 0, standard |-> TRUE, price |-> 1],
     K |-> [type |-> "ticket", in |-> {"b"}, out |-> {"k"}, votedOn |-> "g",
           approves |-> TRUE, expiry |-> 0, standard |-> TRUE, price |-> 1],
     V |-> [type |-> "vote", in |-> {"t"}, out |-> {"v"}, votedOn |-> "a1",
           approves |-> FALSE, expiry |-> 0, standard |-> TRUE, price |-> 1],
     W |-> [type |-> "vote", in |-> {"t"}, out |-> {"w"}, votedOn |-> "d1",
           approves |-> TRUE, expiry |-> 0, standard |-> TRUE, price |-> 1]]

MCBlock ==
    [g  |-> [parent |-> "none", height |-> 0, approves |-> TRUE,
            regular |-> <<>>, stake |-> <<>>, stakeDiff |-> 1],
     f  |-> [parent |-> "g", height |-> 1, approves |-> TRUE,
            regular |-> <<>>, stake |-> <<>>, stakeDiff |-> 1],
     a1 |-> [parent |-> "f", height |-> 2, approves |-> TRUE,
            regular |-> <<"A">>, stake |-> <<>>, stakeDiff |-> 1],
     a2 |-> [parent |-> "a1", height |-> 3, approves |-> TRUE,
            regular |-> <<"C">>, stake |-> <<"K">>, stakeDiff |-> 1],
     n2 |-> [parent |-> "a1", height |-> 3, approves |-> FALSE,
            regular |-> <<>>, stake |-> <<"V">>, stakeDiff |-> 1],
     m2 |-> [parent |-> "a1", height |-> 3, approves |-> FALSE,
            regular |-> <<"D">>, stake |-> <<>>, stakeDiff |-> 1],
     n3 |-> [parent |-> "n2", height |-> 4, approves |-> TRUE,
            regular |-> <<"A", "C">>, stake |-> <<>>, stakeDiff |-> 1],
     d1 |-> [parent |-> "f", height |-> 2, approves |-> TRUE,
            regular |-> <<"D">>, stake |-> <<>>, stakeDiff |-> 1],
     d2 |-> [parent |-> "d1", height |-> 3, approves |-> TRUE,
            regular |-> <<>>, stake |-> <<>>, stakeDiff |-> 1],
     d3 |-> [parent |-> "d2", height |-> 4, approves |-> TRUE,
            regular |-> <<>>, stake |-> <<>>, stakeDiff |-> 1],
     e1 |-> [parent |-> "f", height |-> 2, approves |-> TRUE,
            regular |-> <<"A", "R">>, stake |-> <<>>, stakeDiff |-> 1],
     w2 |-> [parent |-> "e1", height |-> 3, approves |-> FALSE,
            regular |-> <<>>, stake |-> <<>>, stakeDiff |-> 1],
     w3 |-> [parent |-> "w2", height |-> 4, approves |-> TRUE,
            regular |-> <<"A">>, stake |-> <<>>, stakeDiff |-> 1],
     x1 |-> [parent |-> "f", height |-> 2, approves |-> TRUE,
            regular |-> <<>>, stake |-> <<>>, stakeDiff |-> 1],
     s1 |-> [parent |-> "g", height |-> 1, approves |-> TRUE,
            regular |-> <<>>, stake |-> <<>>, stakeDiff |-> 1],
     s2 |-> [parent |-> "s1", height |-> 2, approves |-> TRUE,
            regular |-> <<>>, stake |-> <<>>, stakeDiff |-> 1],
     s3 |-> [parent |-> "s2", height |-> 3, approves |-> TRUE,
            regular |-> <<>>, stake |-> <<>>, stakeDiff |-> 1],
     s4 |-> [parent |-> "s3", height |-> 4, approves |-> TRUE,
            regular |-> <<>>, stake |-> <<>>, stakeDiff |-> 1],
     s5 |-> [parent |-> "s4", height |-> 5, approves |-> TRUE,
            regular |-> <<>>, stake |-> <<>>, stakeDiff |-> 1],
     s6 |-> [parent |-> "s5", height |-> 6, approves |-> TRUE,
            regular |-> <<>>, stake |-> <<>>, stakeDiff |-> 1],
     x5 |-> [parent |-> "s4", height |-> 5, approves |-> TRUE,
            regular |-> <<>>, stake |-> <<>>, stakeDiff |-> 1],
     x6 |-> [parent |-> "x5", height |-> 6, approves |-> TRUE,
            regular |-> <<>>, stake |-> <<>>, stakeDiff |-> 1]]

MCFunds == {"o1", "o2", "t"}

-----------------------------------------------------------------------------
\* In the first six, the node has the block f and p has nothing to offer but
\* transactions; the others begin with genesis and no connections.
FromRpc(drops) == [tips |-> [p |-> "f", q |-> "f"], mute |-> {}, drops |-> drops]
Tips(p, q)     == [tips |-> [p |-> p, q |-> q], mute |-> {}, drops |-> {}]

Scenarios ==
    [reorganize |-> FromRpc({"q"}), disapprove |-> FromRpc({"q"}),
     vote   |-> FromRpc({"q"}), generations |-> FromRpc({"q"}),
     orphan |-> FromRpc({"p", "q"}),
     stray  |-> FromRpc({"q"}),
     live   |-> Tips("s5", "s5"),
     mute   |-> [Tips("s5", "s5") EXCEPT
                    !.mute = {<<"p", "getheaders">>, <<"p", "getdata">>}],
     late   |-> [Tips("s5", "s5") EXCEPT
                    !.mute = {<<"p", "getheaders">>}, !.drops = {"p"}],
     stingy |-> [Tips("s5", "s5") EXCEPT !.mute = {<<"p", "getdata">>}],
     poor   |-> Tips("s1", "s5"),
     grow   |-> Tips("s4", "s4"), early |-> Tips("s4", "s4"),
     fork   |-> Tips("s4", "s4"),
     gossip |-> [Tips("s4", "s4") EXCEPT !.drops = {"q"}],
     drop   |-> [Tips("s5", "s5") EXCEPT !.drops = {"p", "q"}]]

Submitted ==
    [reorganize |-> {"a1", "a2", "d1", "d2", "d3"},
     disapprove |-> {"a1", "n2", "m2", "n3"},
     vote |-> {"a1", "n2", "d1", "d2"}, orphan |-> {},
     generations |-> {"e1", "w2", "w3", "d1", "d2", "d3"},
     stray |-> {"a1", "x1"}]

Found ==
    [grow   |-> [p |-> {"s5"}, q |-> {"s5"}],
     early  |-> [p |-> {"s5", "s6"}, q |-> {}],
     fork   |-> [p |-> {"x5", "x6"}, q |-> {"s5"}]]

Init ==
    /\ scenario \in DOMAIN Scenarios
    /\ mp = EmptyPool /\ calls = <<>> /\ confirmed = {}
    /\ failed = {} /\ latched = FALSE
    /\ hand = [g \in Peers \cup {Rpc} |-> Idle]
    /\ remote = Scenarios[scenario].tips
    /\ env = [mute |-> Scenarios[scenario].mute, drops |-> Scenarios[scenario].drops]
    /\ IF scenario \in DOMAIN Submitted
       THEN /\ chain = <<Genesis, "f">> /\ target = "f"
            /\ conn = [p \in Peers |-> IF p = "p" THEN "on" ELSE "gone"]
            /\ sm = [NewManager EXCEPT
                       !.peers = {"p"}, !.syncPeer = "p", !.last["p"] = 1,
                       !.syncHeight = 1, !.stallTimer = TRUE, !.begin["p"] = {Genesis}]
       ELSE /\ chain = <<Genesis>> /\ target = Genesis
            /\ conn = [p \in Peers |-> "away"]
            /\ sm = NewManager
    /\ headers = ToSet(chain) /\ data = ToSet(chain)

Sent ==
    CASE scenario = "vote"   -> {"A", "V", "W"}
      [] scenario \in {"generations", "orphan"} -> {"A"}
      [] scenario = "stray"  -> {}
      [] OTHER               -> {"A", "D"}

Stray ==
    CASE scenario = "vote"   -> {<<"tx", "C">>}
      [] scenario = "generations" -> {<<"tx", "R">>, <<"tx", "L">>}
      [] scenario = "orphan" -> {<<"tx", "R">>, <<"tx", "K">>, <<"tx", "L">>}
      [] scenario = "stray"  -> {<<"block", "a1">>, <<"header", "x1">>, <<"header", "s5">>}
      [] OTHER               -> {<<"tx", "C">>, <<"tx", "K">>}

\* In generations, nobody sends again what a block has confirmed.
Fresh(t) == scenario = "generations" => t \notin confirmed

Offer ==
    /\ scenario \in DOMAIN Submitted
    /\ \/ \E b \in Submitted[scenario] : ProcessBlock(b)
       \/ \E t \in Sent : Fresh(t) /\ SendRawTransaction(t)
       \/ \E m \in Stray : Fresh(m[2]) /\ Unsolicited("p", m[1], m[2])

Mine ==
    /\ scenario \in DOMAIN Found
    /\ scenario \in {"grow", "fork"} => latched
    /\ \/ \E p \in Peers : \E b \in Found[scenario][p] : Announce(p, b)
       \/ scenario = "grow" /\ ProcessBlock("s5")

Next ==
    /\ \/ Progress \/ Offer \/ Mine
       \/ \E p \in Peers : Drop(p)
       \/ scenario = "gossip" /\ latched /\ \E p \in Peers, t \in {"A", "C"} : OnInv(p, t)
       \/ scenario = "stray" /\ \E b \in {"a1", "s5"} : OnInv("p", b)
    /\ UNCHANGED scenario

NodeSpec == Init /\ [][Next]_<<vars, scenario>> /\ Fairness

\* startChainSync, fetchNextBlocks and the stall handlers bring the chain to the
\* tip of the honest peers that have not been lost: also when the other peer
\* never answers, hangs up before it was asked for blocks, is far behind or on an
\* invalid chain, and again when blocks are found later.
SyncCompletes == scenario \in {"live", "mute", "late", "poor", "grow", "fork"} => []<>Synced
=============================================================================

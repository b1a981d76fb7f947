------------------------ MODULE ChainSelectionProofs ------------------------
(***************************************************************************)
(* The selection of the best chain while headers and blocks arrive in any  *)
(* order: when ProcessBlock returns, the tip is the best of all blocks     *)
(* that can be used, and no data that has arrived is forgotten.            *)
(*                                                                         *)
(* SelectInv is the invariant.  Its heart is Anchored: at any time there   *)
(* is a candidate that has been validated and that no usable block with as *)
(* much work is missing beside.  It is what a reorganization falls back to *)
(* when the blocks it tries turn out to be invalid.                        *)
(***************************************************************************)
EXTENDS ChainHeaderProofs

\* A validated candidate such that every usable block with at least its work is a
\* candidate: no search can miss one that matters.
Anchored(c) ==
    /\ c \in candidates
    /\ Ancestors[c] \subseteq validated
    /\ \A b \in Usable : WorkSum[b] >= WorkSum[c] => b \in candidates

\* A candidate that is better than all others.
Best(c) ==
    /\ c \in candidates
    /\ \A b \in candidates \ {c} : BetterCandidate(c, b, data, order)

\* Nothing but the processing of blocks is under way.
Arrivals ==
    /\ op \in {"none", "block"} /\ pc # "scour"
    /\ verdict \in VerdictChoices
    /\ pc \in {"idle", "data"} => pos = 1
    /\ pc = "data" => node \notin KnownInvalid

\* A block is linked once and after its ancestors; what is a candidate is usable,
\* and what is known to be invalid neither waits to be linked nor is in the best
\* chain.
LinkInv ==
    /\ linked \subseteq data
    /\ \A b \in linked : Ancestors[b] \subseteq linked
    /\ candidates \subseteq Usable
    /\ unlinked \cap (KnownInvalid \cup linked) = {}
    /\ tip \in linked
    /\ Ancestors[tip] \subseteq validated
    /\ InvalidityInherited

\* The blocks being linked are not in the best chain, not known to be invalid and
\* do not wait any more.
ListInv ==
    pc \in {"link", "accept"} =>
        \A i \in 1..Len(linkedNodes) :
            /\ linkedNodes[i] \notin Ancestors[tip]
            /\ IF pc = "link" /\ i >= pos
               THEN /\ linkedNodes[i] \notin KnownInvalid \cup unlinked
                    /\ Parent[linkedNodes[i]] \in linked
               ELSE linkedNodes[i] \in linked

\* Outside of reorganizeChain the tip is such a validated candidate.  Within it
\* there is one to fall back to, and the target is the best of the candidates
\* until it fails.
SelectionInv ==
    /\ \E c \in known : Anchored(c) /\ (pc \notin {"reorg", "failed"} => c = tip)
    /\ pc = "reorg" => Best(target)
    /\ pc = "failed" => target \notin candidates
    /\ pc \in {"return", "announce", "idle", "data"} => Best(tip)

SelectInv == Arrivals /\ LinkInv /\ ListInv /\ SelectionInv

\* A step that changes no link, no candidate and no failure flag.
LEMMA SelectionKept ==
    ASSUME LinkInv, UNCHANGED <<data, failed, invalidAnc, linked, candidates, unlinked,
                                order>>,
           validated \subseteq validated'
    PROVE  /\ Usable' = Usable /\ KnownInvalid' = KnownInvalid
           /\ \A c \in candidates : (Anchored(c) => Anchored(c)') /\ (Best(c) => Best(c)')
<1>1. Usable' = Usable /\ KnownInvalid' = KnownInvalid
    BY Zenon DEF Usable, CanValidate, KnownInvalid
<1>2. ASSUME NEW c \in candidates, Anchored(c)
      PROVE  Anchored(c)'
    BY Zenon, <1>1, <1>2 DEF Anchored
<1>3. ASSUME NEW c \in candidates, Best(c)
      PROVE  Best(c)'
    BY Zenon, <1>3 DEF Best, BetterCandidate
<1> QED
    BY Zenon, <1>1, <1>2, <1>3

\* The steps that only decide what comes next.
LEMMA SelectControl ==
    ASSUME ChainInv, HeadInv, SelectInv,
           \/ RejectBlockData \/ AcceptDone \/ SelectTarget \/ ReorgDone
           \/ Retarget \/ ReturnToProcessBlock \/ Announce
    PROVE  SelectInv'
<1>1. UNCHANGED <<known, data, validated, failed, invalidAnc, linked, candidates,
                  unlinked, order, tip, verdict>>
    BY Zenon DEF RejectBlockData, AcceptDone, SelectTarget, ReorgDone, Retarget,
       ReturnToProcessBlock, Announce, indexVars, statusVars, linkVars
<1>2. /\ Usable' = Usable /\ KnownInvalid' = KnownInvalid
      /\ \A c \in candidates : (Anchored(c) => Anchored(c)') /\ (Best(c) => Best(c)')
    BY Zenon, <1>1, SelectionKept DEF SelectInv
<1>3. LinkInv'
    BY Zenon, <1>1, <1>2 DEF SelectInv, LinkInv, InvalidityInherited
<1>4. PICK c \in known : Anchored(c) /\ (pc \notin {"reorg", "failed"} => c = tip)
    BY Zenon DEF SelectInv, SelectionInv
<1>5. c \in candidates
    BY Zenon, <1>4 DEF Anchored
<1>6. candidates \in SUBSET Blocks /\ order \in [Blocks -> Nat] /\ NoBlock \notin Blocks
      /\ \A b \in Blocks : WorkSum[b] \in Nat
    BY Zenon, TreeAssumption, GenesisAssumption
    DEF ChainInv, IndexInv, Complete, HeadInv, Operated
<1>7. Best(FindBestChainCandidate)
    BY Zenon, <1>5, <1>6, BestOfIsBest DEF Best, FindBestChainCandidate
<1>8. CASE RejectBlockData \/ Announce
    <2>1. /\ pc' = "idle" /\ op' = "none" /\ pos' = 1
          /\ pc \in {"data", "announce"}
        BY Zenon, <1>8 DEF RejectBlockData, Announce, Idle
    <2>2. Best(tip) /\ c = tip
        BY Zenon, <1>4, <2>1 DEF SelectInv, SelectionInv
    <2>3. Arrivals' /\ ListInv'
        BY Zenon, <1>1, <2>1 DEF SelectInv, Arrivals, ListInv
    <2>4. SelectionInv'
        BY Zenon, <1>1, <1>2, <1>4, <1>5, <2>1, <2>2 DEF SelectionInv
    <2> QED
        BY Zenon, <1>3, <2>3, <2>4 DEF SelectInv
<1>9. CASE ReturnToProcessBlock
    <2>1. pc = "return" /\ pc' = "announce" /\ op' = op
        BY Zenon, <1>9 DEF ReturnToProcessBlock, Goto, opVars
    <2>2. Best(tip) /\ c = tip
        BY Zenon, <1>4, <2>1 DEF SelectInv, SelectionInv
    <2>3. Arrivals' /\ ListInv'
        BY Zenon, <1>1, <2>1 DEF SelectInv, Arrivals, ListInv
    <2>4. SelectionInv'
        BY Zenon, <1>1, <1>2, <1>4, <1>5, <2>1, <2>2 DEF SelectionInv
    <2> QED
        BY Zenon, <1>3, <2>3, <2>4 DEF SelectInv
<1>10. CASE AcceptDone
    <2>1. pc = "accept" /\ pc' = "select" /\ op' = op
        BY Zenon, <1>10 DEF AcceptDone, Goto, opVars
    <2>2. Arrivals' /\ ListInv'
        BY Zenon, <1>1, <2>1 DEF SelectInv, Arrivals, ListInv
    <2>3. c = tip
        BY Zenon, <1>4, <2>1
    <2>4. SelectionInv'
        BY Zenon, <1>1, <1>2, <1>4, <1>5, <2>1, <2>3 DEF SelectionInv
    <2> QED
        BY Zenon, <1>3, <2>2, <2>4 DEF SelectInv
<1>11. CASE SelectTarget \/ Retarget
    <2>1. pc = "failed" => target # FindBestChainCandidate
        BY Zenon, <1>7 DEF SelectInv, SelectionInv, Best
    <2>2. /\ pc' = "reorg" /\ op' = op /\ target' = FindBestChainCandidate
        BY Zenon, <1>11, <2>1 DEF SelectTarget, Retarget
    <2>3. Arrivals' /\ ListInv'
        BY Zenon, <1>1, <2>2 DEF SelectInv, Arrivals, ListInv
    <2>4. FindBestChainCandidate \in candidates
        BY Zenon, <1>7 DEF Best
    <2>5. Best(target)'
        BY Zenon, <1>1, <1>7, <2>2 DEF Best, BetterCandidate
    <2>6. SelectionInv'
        BY Zenon, <1>1, <1>2, <1>4, <1>5, <2>2, <2>5 DEF SelectionInv
    <2> QED
        BY Zenon, <1>3, <2>3, <2>6 DEF SelectInv
<1>12. CASE ReorgDone
    <2>1. pc = "reorg" /\ pc' = "return" /\ op' = op /\ (target = NoBlock \/ tip = target)
        BY Zenon, <1>12 DEF ReorgDone, Goto, opVars
    <2>2. Best(target)
        BY Zenon, <2>1 DEF SelectInv, SelectionInv
    <2>3. tip = target
        BY Zenon, <1>6, <2>1, <2>2 DEF Best
    <2>4. Best(tip)
        BY Zenon, <2>2, <2>3
    <2>5. tip \in candidates /\ tip \in Blocks /\ c \in Blocks
        BY Zenon, <1>5, <1>6, <2>4 DEF Best
    <2>6. WorkSum[c] <= WorkSum[tip]
        <3>1. CASE c = tip
            BY <1>6, <2>5, <3>1
        <3>2. CASE c # tip
            <4>1. BetterCandidate(tip, c, data, order)
                BY Zenon, <1>5, <2>4, <3>2 DEF Best
            <4>2. WorkSum[tip] \in Nat /\ WorkSum[c] \in Nat
                BY Zenon, <1>6, <2>5
            <4> QED
                BY <4>1, <4>2 DEF BetterCandidate
        <3> QED
            BY Zenon, <3>1, <3>2
    <2>7. Anchored(tip)
        <3>1. ASSUME NEW b \in Usable, WorkSum[b] >= WorkSum[tip]
              PROVE  b \in candidates
            <4>1. b \in Blocks
                BY Zenon DEF Usable, CanValidate, ChainInv, IndexInv
            <4>2. WorkSum[b] \in Nat /\ WorkSum[tip] \in Nat /\ WorkSum[c] \in Nat
                BY Zenon, <1>6, <2>5, <4>1
            <4>3. WorkSum[b] >= WorkSum[c]
                BY <2>6, <3>1, <4>2
            <4> QED
                BY Zenon, <1>4, <4>3 DEF Anchored
        <3> QED
            BY Zenon, <2>5, <3>1 DEF Anchored, SelectInv, LinkInv
    <2>8. Arrivals' /\ ListInv'
        BY Zenon, <1>1, <2>1 DEF SelectInv, Arrivals, ListInv
    <2>9. Anchored(tip)' /\ Best(tip)' /\ tip' = tip /\ tip \in known'
        <3>1. tip \in known
            BY Zenon, <2>5 DEF SelectInv, LinkInv, ChainInv, IndexInv
        <3>2. Anchored(tip)'
            BY Zenon, <1>1, <1>2, <2>7 DEF Anchored
        <3>3. Best(tip)'
            BY Zenon, <1>1, <2>4 DEF Best, BetterCandidate
        <3> QED
            BY Zenon, <1>1, <3>1, <3>2, <3>3
    <2>10. SelectionInv'
        BY Zenon, <2>1, <2>9 DEF SelectionInv
    <2> QED
        BY Zenon, <1>3, <2>8, <2>10 DEF SelectInv
<1> QED
    BY Zenon, <1>8, <1>9, <1>10, <1>11, <1>12

\* MarkBlockFailedValidation on a block outside of the best chain that does not
\* wait to be linked: what is above it leaves the candidates, and every anchor
\* that is not above it remains one.
LEMMA MarkSelect ==
    ASSUME ChainInv, HeadInv, LinkInv, tip' = tip,
           NEW n \in known \ {Genesis}, n \notin unlinked, n \notin Ancestors[tip],
           MarkBlockFailedValidation(n)
    PROVE  /\ LinkInv'
           /\ \A c \in known : Anchored(c) /\ n \notin Ancestors[c] => Anchored(c)'
           /\ \A c \in candidates : n \notin Ancestors[c] /\ Best(c) => Best(c)'
           /\ \A c \in candidates : n \in Ancestors[c] => c \notin candidates'
           /\ UNCHANGED <<known, linked>>
<1> DEFINE B == Between(n, DescendantTips(n))
<1>1. /\ IndexInv /\ TipsCached /\ KnownInvalid \subseteq known \ {Genesis}
      /\ known \subseteq Blocks
    BY Zenon DEF ChainInv, HeadInv, FlagsPlaced, IndexInv
<1>2. /\ KnownInvalid' = KnownInvalid \cup {n} \cup B
      /\ UNCHANGED <<known, data, order>>
    BY Zenon, <1>1, MarkFlags
<1>3. /\ linked' = linked
      /\ Disqualified(n) = {n} \cup (B \ invalidAnc)
      /\ validated' = validated \ Disqualified(n)
      /\ candidates' = candidates \ Disqualified(n)
      /\ unlinked' = {u \in unlinked : Parent[u] \notin Disqualified(n)}
    BY Zenon DEF MarkBlockFailedValidation, Disqualified, NewlyInvalid
<1>4. \A x \in B : n \in Ancestors[x] /\ x \in known \ {n}
    BY Zenon, <1>1, MarkedAbove
<1>5. \A x \in known \ {n} : n \in Ancestors[x] => x \in B
    BY Zenon, <1>1, DescendantsMarked
<1> HIDE DEF B
<1>6. \A x \in Disqualified(n) : n \in Ancestors[x]
    BY Zenon, <1>1, <1>3, <1>4, TreeFacts
<1>7. ASSUME NEW c \in known, n \notin Ancestors[c], NEW x \in Ancestors[c]
      PROVE  x \notin Disqualified(n)
    <2>1. Ancestors[x] \subseteq Ancestors[c]
        BY Zenon, <1>1, PathAssumption
    <2> QED
        BY Zenon, <1>6, <1>7, <2>1
<1>8. Usable' = Usable \ ({n} \cup B)
    BY Zenon, <1>2, <1>3 DEF Usable, CanValidate
<1>9. InvalidityInherited'
    BY Zenon, <1>1, MarkInherits DEF LinkInv
<1>10. candidates' \subseteq Usable'
    BY Zenon, <1>3, <1>8 DEF LinkInv, Usable, KnownInvalid
<1>11. ASSUME NEW u \in unlinked'
       PROVE  u \notin KnownInvalid' \cup linked'
    <2>1. u \in unlinked /\ Parent[u] \notin Disqualified(n) /\ u # n
          /\ u \notin KnownInvalid /\ u \notin linked
        BY Zenon, <1>3 DEF LinkInv
    <2>2. ASSUME u \in B
          PROVE  FALSE
        <3>1. n \in Ancestors[u] /\ u \in Blocks /\ u \in known /\ u # Genesis
            BY Zenon, <1>1, <1>4, <2>2, AncestorAssumption
        <3>2. Ancestors[u] = Ancestors[Parent[u]] \cup {u} /\ Parent[u] \in Ancestors[u]
            BY Zenon, <3>1, TreeFacts
        <3>3. n \in Ancestors[Parent[u]]
            BY Zenon, <2>1, <3>1, <3>2
        <3>4. Parent[u] \in known
            BY Zenon, <1>1, <3>1, <3>2 DEF IndexInv
        <3>5. Parent[u] \in {n} \cup B
            BY Zenon, <1>5, <3>3, <3>4
        <3>6. Parent[u] \in invalidAnc
            BY Zenon, <1>3, <2>1, <3>5
        <3>7. u \in KnownInvalid
            BY Zenon, <3>1, <3>6 DEF LinkInv, InvalidityInherited, KnownInvalid
        <3> QED
            BY Zenon, <2>1, <3>7
    <2> QED
        BY Zenon, <1>2, <1>3, <2>1, <2>2
<1>12. LinkInv'
    <2>1. Ancestors[tip'] \subseteq validated'
        <3>1. tip \in known
            BY Zenon, <1>1 DEF LinkInv, IndexInv
        <3> QED
            BY Zenon, <1>3, <1>7, <3>1 DEF LinkInv
    <2>2. unlinked' \cap (KnownInvalid' \cup linked') = {}
        BY Zenon, <1>11
    <2> QED
        BY Zenon, <1>2, <1>3, <1>9, <1>10, <2>1, <2>2 DEF LinkInv
<1>13. ASSUME NEW c \in known, Anchored(c), n \notin Ancestors[c]
       PROVE  Anchored(c)'
    <2>1. c \in candidates /\ Ancestors[c] \subseteq validated /\ c \in Ancestors[c]
        BY Zenon, <1>1, <1>13, TreeFacts DEF Anchored
    <2>2. c \in candidates' /\ Ancestors[c] \subseteq validated'
        BY Zenon, <1>3, <1>7, <1>13, <2>1
    <2>3. ASSUME NEW b \in Usable', WorkSum[b] >= WorkSum[c]
          PROVE  b \in candidates'
        BY Zenon, <1>3, <1>8, <1>13, <2>3 DEF Anchored
    <2> QED
        BY Zenon, <2>2, <2>3 DEF Anchored
<1>14. ASSUME NEW c \in candidates, n \notin Ancestors[c], Best(c)
       PROVE  Best(c)'
    <2>1. c \in known
        BY Zenon, <1>1 DEF LinkInv, Usable, CanValidate, IndexInv
    <2>2. c \in candidates' /\ candidates' \subseteq candidates
        BY Zenon, <1>1, <1>3, <1>7, <1>14, <2>1, TreeFacts
    <2> QED
        BY Zenon, <1>2, <1>14, <2>2 DEF Best, BetterCandidate
<1>15. ASSUME NEW c \in candidates, n \in Ancestors[c]
       PROVE  c \notin candidates'
    <2>1. c \in known /\ c \notin invalidAnc
        BY Zenon, <1>1 DEF LinkInv, Usable, CanValidate, KnownInvalid, IndexInv
    <2> QED
        BY Zenon, <1>3, <1>5, <1>15, <2>1
<1> QED
    BY Zenon, <1>2, <1>3, <1>12, <1>13, <1>14, <1>15

\* The data of a block violates a rule.
LEMMA SelectFailData ==
    ASSUME ChainInv, HeadInv, SelectInv, FailBlockData
    PROVE  SelectInv'
<1>1. /\ pc = "data" /\ MarkBlockFailedValidation(node) /\ Idle
      /\ UNCHANGED <<verdict, tip>>
    BY Zenon DEF FailBlockData
<1>2. node \in known /\ node \notin data
    BY Zenon, <1>1 DEF ChainInv, OperationInv, HeadInv, Operated
<1>3. /\ node \notin Ancestors[tip] /\ node # Genesis /\ node \notin unlinked
      /\ tip \in Blocks
    <2>1. Ancestors[tip] \subseteq data /\ unlinked \subseteq data /\ tip \in Blocks
        BY Zenon DEF ChainInv, OperationInv, Complete, IndexInv
    <2>2. Genesis \in Ancestors[tip]
        BY Zenon, <2>1, PathAssumption
    <2> QED
        BY Zenon, <1>2, <2>1, <2>2
<1>4. /\ LinkInv'
      /\ \A c \in known : Anchored(c) /\ node \notin Ancestors[c] => Anchored(c)'
      /\ \A c \in candidates : node \notin Ancestors[c] /\ Best(c) => Best(c)'
      /\ known' = known
    <2> DEFINE n == node
    <2>1. n \in known \ {Genesis} /\ n \notin unlinked /\ n \notin Ancestors[tip]
          /\ MarkBlockFailedValidation(n) /\ tip' = tip
        BY Zenon, <1>1, <1>2, <1>3
    <2> HIDE DEF n
    <2>2. /\ LinkInv'
          /\ \A c \in known : Anchored(c) /\ n \notin Ancestors[c] => Anchored(c)'
          /\ \A c \in candidates : n \notin Ancestors[c] /\ Best(c) => Best(c)'
          /\ known' = known
        BY Zenon, <2>1, MarkSelect DEF SelectInv
    <2> QED
        BY Zenon, <2>2 DEF n
<1>5. Anchored(tip) /\ Best(tip) /\ tip \in known /\ tip \in candidates
    BY Zenon, <1>1 DEF SelectInv, SelectionInv, Best
<1>6. Anchored(tip)' /\ Best(tip)'
    <2> DEFINE t == tip
    <2>1. Anchored(t)' /\ Best(t)' /\ tip' = t
        BY Zenon, <1>1, <1>3, <1>4, <1>5
    <2> QED
        BY Zenon, <2>1 DEF Anchored, Best
<1>7. pc' = "idle" /\ op' = "none" /\ pos' = 1
    BY Zenon, <1>1 DEF Idle
<1>8. Arrivals' /\ ListInv'
    BY Zenon, <1>1, <1>7 DEF SelectInv, Arrivals, ListInv
<1>9. SelectionInv'
    BY Zenon, <1>1, <1>4, <1>5, <1>6, <1>7 DEF SelectionInv
<1> QED
    BY Zenon, <1>4, <1>8, <1>9 DEF SelectInv

\* The data of a block arrives; it is the first of the list, or waits.
LEMMA SelectAcceptData ==
    ASSUME ChainInv, HeadInv, SelectInv, AcceptBlockData
    PROVE  SelectInv'
<1>1. /\ pc = "data" /\ data' = data \cup {node} /\ validated \subseteq validated'
      /\ UNCHANGED <<known, failed, invalidAnc, linked, order, candidates, verdict, tip,
                     op, node, pos>>
    BY Zenon DEF AcceptBlockData, FlushBlockIndex, FlushAndPutBestState
<1>2. /\ node \in known /\ node \notin data /\ node \notin KnownInvalid /\ pos = 1
      /\ Ancestors[tip] \subseteq data /\ unlinked \subseteq data /\ linked \subseteq data
    BY Zenon, <1>1
    DEF ChainInv, OperationInv, Complete, IndexInv, HeadInv, Operated, SelectInv,
        Arrivals, LinkInv
<1>3. KnownInvalid' = KnownInvalid /\ Usable' = Usable
    BY Zenon, <1>1, <1>2 DEF KnownInvalid, Usable, CanValidate
<1>4. Anchored(tip) /\ tip \in known
    BY Zenon, <1>1 DEF SelectInv, SelectionInv
<1>5. Anchored(tip)'
    BY Zenon, <1>1, <1>3, <1>4 DEF Anchored
<1>6. ASSUME unlinked' \subseteq unlinked \cup {node}
      PROVE  LinkInv'
    <2>1. unlinked' \cap (KnownInvalid' \cup linked') = {}
        BY Zenon, <1>1, <1>2, <1>3, <1>6 DEF SelectInv, LinkInv
    <2>2. linked' \subseteq data' /\ candidates' \subseteq Usable'
        BY Zenon, <1>1, <1>3 DEF SelectInv, LinkInv
    <2>3. Ancestors[tip'] \subseteq validated'
        BY Zenon, <1>1 DEF SelectInv, LinkInv
    <2> QED
        BY Zenon, <1>1, <1>3, <2>1, <2>2, <2>3 DEF SelectInv, LinkInv, InvalidityInherited
<1>7. CASE /\ Parent[node] \in CanValidate /\ linkedNodes' = <<node>> /\ pc' = "link"
           /\ unlinked' = unlinked
    <2>1. LinkInv'
        BY Zenon, <1>6, <1>7
    <2>2. Len(linkedNodes') = 1 /\ linkedNodes'[1] = node
        BY Zenon, <1>7
    <2>3. \A i \in 1..Len(linkedNodes') : i = 1
        BY <2>2
    <2>4. /\ node \notin Ancestors[tip'] /\ node \notin KnownInvalid' \cup unlinked'
          /\ Parent[node] \in linked' /\ 1 >= pos'
        <3>1. 1 >= pos'
            BY <1>1, <1>2
        <3> QED
            BY Zenon, <1>1, <1>2, <1>3, <1>7, <3>1 DEF CanValidate
    <2>5. ListInv'
        BY Zenon, <1>7, <2>2, <2>3, <2>4 DEF ListInv
    <2>6. Arrivals' /\ SelectionInv'
        BY Zenon, <1>1, <1>4, <1>5, <1>7 DEF SelectInv, Arrivals, SelectionInv
    <2> QED
        BY Zenon, <2>1, <2>5, <2>6 DEF SelectInv
<1>8. CASE pc' = "select" /\ unlinked' \subseteq unlinked \cup {node}
    <2>1. LinkInv'
        BY Zenon, <1>6, <1>8
    <2>2. Arrivals' /\ SelectionInv' /\ ListInv'
        BY Zenon, <1>1, <1>4, <1>5, <1>8
        DEF SelectInv, Arrivals, SelectionInv, ListInv
    <2> QED
        BY Zenon, <2>1, <2>2 DEF SelectInv
<1> QED
    BY Zenon, <1>7, <1>8 DEF AcceptBlockData

\* One more block is linked, and becomes a candidate if it has the work of the
\* tip; the children that waited for it come next.
LEMMA SelectLink ==
    ASSUME ChainInv, HeadInv, SelectInv, LinkBlockData
    PROVE  SelectInv'
<1> DEFINE n == linkedNodes[pos]
           W == WaitingChildren(n)
<1>1. /\ pc = "link" /\ pos <= Len(linkedNodes) /\ pos \in Nat \ {0}
      /\ linkedNodes \in Seq(Blocks \ {Genesis}) /\ linkedNodes \in Seq(Complete)
    BY Zenon DEF LinkBlockData, ChainInv, OperationInv, HeadInv, Operated
<1>2. n \in Blocks \ {Genesis} /\ n \in Complete
    BY Zenon, <1>1, SeqElement
<1>3. n \in data /\ n \in known
    BY Zenon, <1>2, TreeFacts DEF Complete, ChainInv, IndexInv
<1>4. /\ n \notin Ancestors[tip] /\ n \notin KnownInvalid \cup unlinked
      /\ Parent[n] \in linked
    <2>1. pos \in 1..Len(linkedNodes) /\ pos >= pos
        BY <1>1
    <2> QED
        BY Zenon, <1>1, <2>1 DEF SelectInv, ListInv
<1>5. /\ linked' = linked \cup {n}
      /\ candidates' = IF WorkSum[n] >= WorkSum[tip] THEN candidates \cup {n}
                       ELSE candidates
      /\ unlinked' = unlinked \ Children(n)
      /\ UNCHANGED <<known, data, validated, failed, invalidAnc, verdict, tip, pc, op,
                     node>>
      /\ pos' = pos + 1
    BY Zenon DEF LinkBlockData, LinkNode, statusVars
<1>6. PICK s \in Orderings(W) : linkedNodes' = linkedNodes \o s
    BY Zenon DEF LinkBlockData
<1>7. s \in Seq(W)
    <2>1. IsFiniteSet(W)
        <3>1. W \subseteq Blocks
            BY Zenon DEF WaitingChildren, Children
        <3> QED
            BY Zenon, <3>1, FiniteAssumption, FS_Subset
    <2>2. Cardinality(W) \in Nat
        BY Zenon, <2>1, FS_CardinalityType
    <2>3. s \in [1..Cardinality(W) -> W]
        BY Zenon, <1>6 DEF Orderings
    <2> QED
        BY <2>2, <2>3
<1>8. ASSUME NEW w \in W
      PROVE  /\ w \notin Ancestors[tip] /\ w \notin KnownInvalid \cup unlinked'
             /\ Parent[w] = n
    BY Zenon, <1>5 DEF WaitingChildren, Children, SelectInv, LinkInv
<1> HIDE DEF n, W
<1>9. KnownInvalid' = KnownInvalid /\ Usable' = Usable \cup {n}
    BY Zenon, <1>3, <1>4, <1>5 DEF KnownInvalid, Usable, CanValidate
<1>10. LinkInv'
    <2>1. Ancestors[n] = Ancestors[Parent[n]] \cup {n}
        BY Zenon, <1>2, TreeFacts
    <2>2. \A b \in linked' : Ancestors[b] \subseteq linked'
        BY Zenon, <1>4, <1>5, <2>1 DEF SelectInv, LinkInv
    <2>3. candidates' \subseteq Usable'
        BY Zenon, <1>5, <1>9 DEF SelectInv, LinkInv
    <2>4. unlinked' \cap (KnownInvalid' \cup linked') = {}
        BY Zenon, <1>4, <1>5, <1>9 DEF SelectInv, LinkInv
    <2> QED
        BY Zenon, <1>3, <1>5, <1>9, <2>2, <2>3, <2>4
        DEF SelectInv, LinkInv, InvalidityInherited
<1>11. ListInv'
    <2>1. ASSUME NEW i \in 1..Len(linkedNodes')
          PROVE  /\ linkedNodes'[i] \notin Ancestors[tip]
                 /\ IF i >= pos'
                    THEN /\ linkedNodes'[i] \notin KnownInvalid \cup unlinked'
                         /\ Parent[linkedNodes'[i]] \in linked'
                    ELSE linkedNodes'[i] \in linked'
        <3>1. CASE i \in 1..Len(linkedNodes)
            <4>1. linkedNodes'[i] = linkedNodes[i]
                BY <1>1, <1>6, <1>7, <3>1
            <4>2. /\ i >= pos' => i >= pos
                  /\ ~(i >= pos') => ~(i >= pos) \/ i = pos
                BY <1>1, <1>5
            <4>3. i = pos => linkedNodes[i] = n
                BY Zenon DEF n
            <4> QED
                BY Zenon, <1>1, <1>5, <3>1, <4>1, <4>2, <4>3 DEF SelectInv, ListInv
        <3>2. CASE i \notin 1..Len(linkedNodes)
            <4>1. /\ i - Len(linkedNodes) \in 1..Len(s)
                  /\ linkedNodes'[i] = s[i - Len(linkedNodes)]
                  /\ i >= pos'
                BY <1>1, <1>5, <1>6, <1>7, <3>2
            <4>2. linkedNodes'[i] \in W
                <5>1. s[i - Len(linkedNodes)] \in W
                    BY <1>7, <4>1
                <5> QED
                    BY Zenon, <4>1, <5>1
            <4> QED
                BY Zenon, <1>5, <1>8, <4>1, <4>2
        <3> QED
            BY Zenon, <3>1, <3>2
    <2> QED
        BY Zenon, <1>1, <1>5, <1>9, <2>1 DEF ListInv
<1>12. SelectionInv'
    <2>1. Anchored(tip) /\ tip \in known
        BY Zenon, <1>1 DEF SelectInv, SelectionInv
    <2>2. Anchored(tip)'
        BY Zenon, <1>5, <1>9, <2>1 DEF Anchored
    <2> QED
        BY Zenon, <1>1, <1>5, <2>1, <2>2 DEF SelectionInv
<1>13. Arrivals'
    BY Zenon, <1>1, <1>5 DEF SelectInv, Arrivals
<1> QED
    BY Zenon, <1>10, <1>11, <1>12, <1>13 DEF SelectInv

\* Everything is linked, and the checks of the linked blocks begin.
LEMMA SelectFlush ==
    ASSUME ChainInv, HeadInv, SelectInv, FlushLinked
    PROVE  SelectInv'
<1>1. /\ UNCHANGED <<known, data, validated, failed, invalidAnc, linked, candidates,
                     unlinked, order, tip, verdict, op, node, linkedNodes>>
      /\ pc = "link" /\ pc' = "accept" /\ pos > Len(linkedNodes)
    BY Zenon DEF FlushLinked, statusVars, linkVars
<1>2. /\ Usable' = Usable /\ KnownInvalid' = KnownInvalid
      /\ \A c \in candidates : (Anchored(c) => Anchored(c)') /\ (Best(c) => Best(c)')
    BY Zenon, <1>1, SelectionKept DEF SelectInv
<1>3. LinkInv'
    BY Zenon, <1>1, <1>2 DEF SelectInv, LinkInv, InvalidityInherited
<1>4. \A i \in 1..Len(linkedNodes) : ~(i >= pos)
    <2>1. pos \in Nat /\ linkedNodes \in Seq(Complete)
        BY Zenon DEF ChainInv, OperationInv
    <2> QED
        BY <1>1, <2>1
<1>5. ListInv'
    BY Zenon, <1>1, <1>4 DEF SelectInv, ListInv
<1>6. Anchored(tip) /\ tip \in known
    BY Zenon, <1>1 DEF SelectInv, SelectionInv
<1>7. Anchored(tip)'
    BY Zenon, <1>1, <1>2, <1>6 DEF Anchored
<1>8. Arrivals' /\ SelectionInv'
    BY Zenon, <1>1, <1>6, <1>7 DEF SelectInv, Arrivals, SelectionInv
<1> QED
    BY Zenon, <1>3, <1>5, <1>8 DEF SelectInv

\* A linked block is checked in its context; one that fails is marked.
LEMMA SelectAccept ==
    ASSUME ChainInv, HeadInv, SelectInv, AcceptBlock
    PROVE  SelectInv'
<1> DEFINE n == linkedNodes[pos]
<1>1. /\ pc = "accept" /\ pos <= Len(linkedNodes)
      /\ UNCHANGED <<verdict, tip, op, node, linkedNodes>>
      /\ \/ pc' = pc /\ UNCHANGED indexVars
         \/ pc' = "select" /\ (UNCHANGED indexVars \/ MarkBlockFailedValidation(n))
    BY Zenon DEF AcceptBlock
<1>2. Anchored(tip) /\ tip \in known
    BY Zenon, <1>1 DEF SelectInv, SelectionInv
<1>3. CASE (pc' = pc \/ pc' = "select") /\ UNCHANGED indexVars
    <2>1. UNCHANGED <<known, data, validated, failed, invalidAnc, linked, candidates,
                      unlinked, order>>
        BY Zenon, <1>3 DEF indexVars, statusVars, linkVars
    <2>2. /\ Usable' = Usable /\ KnownInvalid' = KnownInvalid
        BY Zenon, <2>1 DEF Usable, CanValidate, KnownInvalid
    <2>3. LinkInv'
        BY Zenon, <1>1, <2>1, <2>2 DEF SelectInv, LinkInv, InvalidityInherited
    <2>4. ListInv'
        BY Zenon, <1>1, <1>3, <2>1, <2>2 DEF SelectInv, ListInv
    <2>5. Anchored(tip)'
        BY Zenon, <1>1, <1>2, <2>1, <2>2 DEF Anchored
    <2>6. Arrivals' /\ SelectionInv'
        BY Zenon, <1>1, <1>2, <1>3, <2>1, <2>5 DEF SelectInv, Arrivals, SelectionInv
    <2> QED
        BY Zenon, <2>3, <2>4, <2>6 DEF SelectInv
<1>4. CASE pc' = "select" /\ MarkBlockFailedValidation(n)
    <2>1. /\ pos \in 1..Len(linkedNodes) /\ linkedNodes \in Seq(Blocks \ {Genesis})
          /\ pos \in Nat \ {0}
        <3>1. /\ pos \in Nat \ {0} /\ linkedNodes \in Seq(Blocks \ {Genesis})
              /\ linkedNodes \in Seq(Complete)
            BY Zenon DEF ChainInv, OperationInv, HeadInv, Operated
        <3>2. Len(linkedNodes) \in Nat
            BY <3>1
        <3>3. pos \in 1..Len(linkedNodes)
            BY <1>1, <3>1, <3>2
        <3> QED
            BY Zenon, <3>1, <3>3
    <2>2. n # Genesis /\ n \notin Ancestors[tip] /\ n \in linked
        <3>1. n \in Blocks \ {Genesis}
            BY Zenon, <1>1, <2>1, SeqElement
        <3> QED
            BY Zenon, <1>1, <2>1, <3>1 DEF SelectInv, ListInv
    <2>3. n \in known \ {Genesis} /\ n \notin unlinked /\ n \notin Ancestors[tip]
        BY Zenon, <2>2 DEF SelectInv, LinkInv, ChainInv, IndexInv
    <2> HIDE DEF n
    <2>4. /\ LinkInv'
          /\ \A c \in known : Anchored(c) /\ n \notin Ancestors[c] => Anchored(c)'
          /\ known' = known
        BY Zenon, <1>1, <1>4, <2>3, MarkSelect DEF SelectInv
    <2>5. Anchored(tip)'
        <3> DEFINE t == tip
        <3>1. Anchored(t)' /\ tip' = t
            BY Zenon, <1>1, <1>2, <2>3, <2>4
        <3> QED
            BY Zenon, <3>1 DEF Anchored
    <2>6. Arrivals' /\ ListInv' /\ SelectionInv'
        BY Zenon, <1>1, <1>2, <1>4, <2>4, <2>5
        DEF SelectInv, Arrivals, ListInv, SelectionInv
    <2> QED
        BY Zenon, <2>4, <2>6 DEF SelectInv
<1> QED
    BY Zenon, <1>1, <1>3, <1>4

\* A header or a block arrives.  A new header has no data and no flag.
LEMMA SelectHeader ==
    ASSUME ChainInv, HeadInv, SelectInv, NEW b \in Blocks,
           ProcessBlockHeader(b) \/ ProcessBlock(b)
    PROVE  SelectInv'
<1>1. /\ pc = "idle" /\ UNCHANGED <<verdict, tip, pos>>
      /\ \/ pc' = "idle" /\ op' = op
         \/ pc' = "data" /\ op' = "block" /\ node' = b
    BY Zenon DEF ProcessBlockHeader, ProcessBlock, Start, opVars
<1>2. UNCHANGED <<data, validated, failed, invalidAnc, linked, candidates, unlinked,
                  order>>
    BY Zenon DEF ProcessBlockHeader, ProcessBlock, AddNode, indexVars, statusVars,
       linkVars
<1>3. /\ \/ /\ known' = known \cup {b} /\ b \notin known
            /\ Parent[b] \notin KnownInvalid
         \/ known' = known
      /\ b \in known \ KnownInvalid \/ b \notin known
    BY Zenon DEF ProcessBlockHeader, ProcessBlock, HeaderAcceptable, AddNode, indexVars
<1>4. b \notin KnownInvalid
    BY Zenon, <1>3 DEF HeadInv, FlagsPlaced
<1>5. /\ Usable' = Usable /\ KnownInvalid' = KnownInvalid
      /\ \A c \in candidates : (Anchored(c) => Anchored(c)') /\ (Best(c) => Best(c)')
    BY Zenon, <1>2, SelectionKept DEF SelectInv
<1>6. InvalidityInherited'
    BY Zenon, <1>3, <1>5 DEF SelectInv, LinkInv, InvalidityInherited
<1>7. LinkInv'
    BY Zenon, <1>1, <1>2, <1>5, <1>6 DEF SelectInv, LinkInv
<1>8. Anchored(tip) /\ Best(tip) /\ tip \in known /\ tip \in candidates
    BY Zenon, <1>1 DEF SelectInv, SelectionInv, Best
<1>9. Anchored(tip)' /\ Best(tip)' /\ tip \in known'
    <2>1. Anchored(tip)'
        BY Zenon, <1>1, <1>2, <1>5, <1>8 DEF Anchored
    <2>2. Best(tip)'
        BY Zenon, <1>1, <1>2, <1>8 DEF Best, BetterCandidate
    <2> QED
        BY Zenon, <1>3, <1>8, <2>1, <2>2
<1>10. Arrivals' /\ ListInv'
    BY Zenon, <1>1, <1>4, <1>5 DEF SelectInv, Arrivals, ListInv
<1>11. SelectionInv'
    BY Zenon, <1>1, <1>9 DEF SelectionInv
<1> QED
    BY Zenon, <1>7, <1>10, <1>11 DEF SelectInv

\* The next block to attach is below the best candidate and can be used itself.
LEMMA NextUsable ==
    ASSUME ChainInv, HeadInv, SelectInv, Reorganizing, AtFork
    PROVE  /\ NextBlock \in Usable /\ NextBlock \in known \ {Genesis}
           /\ NextBlock \in Ancestors[target] /\ NextBlock \notin unlinked
           /\ Ancestors[NextBlock] = Ancestors[tip] \cup {NextBlock}
           /\ WorkSum[NextBlock] <= WorkSum[target]
           /\ Best(target) /\ target \in Blocks
<1>1. Best(target) /\ target \in Usable /\ target \in known /\ target \in Blocks
    BY Zenon
    DEF Reorganizing, SelectInv, SelectionInv, LinkInv, Best, Usable, CanValidate,
        ChainInv, IndexInv
<1>2. tip \in Ancestors[target] /\ tip # target /\ tip \in Blocks
    BY Zenon DEF Reorganizing, AtFork, IsAncestorOf, ChainInv, OperationInv, Complete
<1>3. \E n \in Ancestors[target] : Parent[n] = tip
    BY Zenon, <1>1, <1>2, PathAssumption
<1>4. NextBlock \in Ancestors[target] /\ Parent[NextBlock] = tip
    BY Zenon, <1>3 DEF NextBlock, NextOnPath
<1> DEFINE n == NextBlock
<1>5. n \in Ancestors[target] /\ Parent[n] = tip
    BY Zenon, <1>4
<1> HIDE DEF n
<1>6. n \in known /\ n \in Blocks /\ n \in linked /\ n \in data
    BY Zenon, <1>1, <1>5 DEF ChainInv, IndexInv, SelectInv, LinkInv, Usable, CanValidate
<1>7. n # Genesis
    BY Zenon, <1>2, <1>5, GenesisAssumption
<1>8. n \notin KnownInvalid
    <2>1. SUFFICES ASSUME n \in KnownInvalid
                   PROVE  target \in KnownInvalid
        BY Zenon, <1>1 DEF Usable
    <2>2. /\ known \in SUBSET Blocks
          /\ \A b \in known : Ancestors[b] \subseteq known
          /\ \A b \in known \ {Genesis} : Parent[b] \in KnownInvalid => b \in KnownInvalid
        BY Zenon DEF ChainInv, IndexInv, SelectInv, LinkInv, InvalidityInherited
    <2> QED
        BY Zenon, <1>1, <1>5, <2>1, <2>2, InheritedAbove
<1>9. n \in Usable /\ n \notin unlinked
    BY Zenon, <1>6, <1>8 DEF Usable, CanValidate, SelectInv, LinkInv
<1>10. Ancestors[n] = Ancestors[tip] \cup {n}
    BY Zenon, <1>5, <1>6, <1>7, TreeFacts
<1>11. WorkSum[n] <= WorkSum[target]
    BY Zenon, <1>1, <1>5, BranchFacts
<1> QED
    BY Zenon, <1>1, <1>5, <1>6, <1>7, <1>9, <1>10, <1>11 DEF n

\* A block is detached, or found to be valid.
LEMMA SelectMove ==
    ASSUME ChainInv, HeadInv, SelectInv, DisconnectBlock \/ ValidateBlock
    PROVE  SelectInv'
<1>1. /\ pc = "reorg" /\ pc' = pc
      /\ UNCHANGED <<known, data, failed, invalidAnc, linked, candidates, unlinked,
                     order, verdict, op, node, target>>
      /\ validated \subseteq validated'
    BY Zenon DEF DisconnectBlock, ValidateBlock, Reorganizing, opVars, statusVars,
       linkVars
<1>2. /\ Usable' = Usable /\ KnownInvalid' = KnownInvalid
      /\ \A c \in candidates : (Anchored(c) => Anchored(c)') /\ (Best(c) => Best(c)')
    BY Zenon, <1>1, SelectionKept DEF SelectInv
<1>3. tip' \in Ancestors[tip] /\ Ancestors[tip'] \subseteq Ancestors[tip]
    <2>1. tip \in Blocks
        BY Zenon DEF ChainInv, OperationInv, Complete
    <2>2. CASE tip' = tip
        BY Zenon, <2>1, <2>2, TreeFacts
    <2>3. CASE DisconnectBlock
        <3>1. tip' = Parent[tip] /\ pc = "reorg" /\ ~AtFork
            BY Zenon, <2>3 DEF DisconnectBlock, Reorganizing
        <3>2. Best(target)
            BY Zenon, <1>1 DEF SelectInv, SelectionInv
        <3>3. target \in Blocks
            BY Zenon, <3>2 DEF Best, SelectInv, LinkInv, Usable, CanValidate, ChainInv,
               IndexInv
        <3>4. tip # Genesis
            BY Zenon, <3>1, <3>3, PathAssumption DEF AtFork, IsAncestorOf
        <3>5. /\ Ancestors[tip] = Ancestors[Parent[tip]] \cup {tip}
              /\ Parent[tip] \in Ancestors[tip]
            BY Zenon, <2>1, <3>4, TreeFacts
        <3> QED
            BY Zenon, <3>1, <3>5
    <2> QED
        BY Zenon, <2>2, <2>3 DEF ValidateBlock
<1>4. LinkInv'
    <2>1. tip' \in linked' /\ Ancestors[tip'] \subseteq validated'
        BY Zenon, <1>1, <1>3 DEF SelectInv, LinkInv
    <2> QED
        BY Zenon, <1>1, <1>2, <2>1 DEF SelectInv, LinkInv, InvalidityInherited
<1>5. Arrivals' /\ ListInv'
    BY Zenon, <1>1 DEF SelectInv, Arrivals, ListInv
<1>6. PICK c \in known : Anchored(c)
    BY Zenon DEF SelectInv, SelectionInv
<1>7. Anchored(c)' /\ c \in known'
    BY Zenon, <1>1, <1>2, <1>6 DEF Anchored
<1>8. Best(target)'
    BY Zenon, <1>1 DEF SelectInv, SelectionInv, Best, BetterCandidate
<1>9. SelectionInv'
    BY Zenon, <1>1, <1>7, <1>8 DEF SelectionInv
<1> QED
    BY Zenon, <1>4, <1>5, <1>9 DEF SelectInv

\* A block is attached.  Either it has more work than the block to fall back to
\* and takes its place, or that one remains a candidate.
LEMMA SelectConnect ==
    ASSUME ChainInv, HeadInv, SelectInv, ConnectBlock
    PROVE  SelectInv'
<1> DEFINE n == NextBlock
<1>1. /\ pc = "reorg" /\ pc' = pc /\ n \in validated /\ tip' = n
      /\ candidates' = MoreWorkCandidates(n)
      /\ UNCHANGED <<known, data, validated, failed, invalidAnc, linked, unlinked,
                     order, verdict, op, node, target>>
    BY Zenon DEF ConnectBlock, Reorganizing, opVars, statusVars
<1>2. /\ n \in Usable /\ n \in known /\ n \in Ancestors[target]
      /\ Ancestors[n] = Ancestors[tip] \cup {n}
      /\ WorkSum[n] <= WorkSum[target] /\ Best(target) /\ target \in Blocks
    BY Zenon, NextUsable DEF ConnectBlock
<1> HIDE DEF n
<1>3. /\ known \subseteq Blocks /\ n \in Blocks /\ candidates \subseteq Blocks
      /\ \A b \in Blocks : WorkSum[b] \in Nat
    BY Zenon, <1>2, TreeAssumption DEF ChainInv, IndexInv, Complete
<1>4. candidates' = {c \in candidates : WorkSum[c] >= WorkSum[n]}
    BY Zenon, <1>1 DEF MoreWorkCandidates
<1>5. Usable' = Usable /\ KnownInvalid' = KnownInvalid
    BY Zenon, <1>1 DEF Usable, CanValidate, KnownInvalid
<1>6. LinkInv'
    <2>1. tip' \in linked' /\ Ancestors[tip'] \subseteq validated'
        BY Zenon, <1>1, <1>2 DEF SelectInv, LinkInv, Usable, CanValidate
    <2>2. candidates' \subseteq Usable'
        BY Zenon, <1>4, <1>5 DEF SelectInv, LinkInv
    <2> QED
        BY Zenon, <1>1, <1>5, <2>1, <2>2 DEF SelectInv, LinkInv, InvalidityInherited
<1>7. Best(target)'
    <2>1. target \in candidates'
        <3>1. WorkSum[target] >= WorkSum[n]
            BY Zenon, <1>2, <1>3
        <3> QED
            BY Zenon, <1>2, <1>4, <3>1 DEF Best
    <2> QED
        BY Zenon, <1>1, <1>2, <1>4, <2>1 DEF Best, BetterCandidate
<1>8. PICK c \in known : Anchored(c)
    BY Zenon DEF SelectInv, SelectionInv
<1>9. c \in candidates /\ c \in Blocks /\ Ancestors[c] \subseteq validated
    BY Zenon, <1>3, <1>8 DEF Anchored
<1>10. ASSUME NEW b \in Usable, WorkSum[b] >= WorkSum[c], WorkSum[b] >= WorkSum[n]
       PROVE  b \in candidates'
    BY Zenon, <1>4, <1>8, <1>10 DEF Anchored
<1>11. \E a \in known' : Anchored(a)'
    <2>1. CASE WorkSum[c] >= WorkSum[n]
        <3>1. \A b \in Usable : WorkSum[b] >= WorkSum[c] => WorkSum[b] >= WorkSum[n]
            <4>1. Usable \subseteq Blocks
                BY Zenon, <1>3 DEF Usable, CanValidate, ChainInv, IndexInv
            <4> QED
                BY <1>3, <1>9, <2>1, <4>1
        <3>2. Anchored(c)'
            BY Zenon, <1>1, <1>4, <1>5, <1>9, <1>10, <2>1, <3>1 DEF Anchored
        <3> QED
            BY Zenon, <1>1, <3>2
    <2>2. CASE ~(WorkSum[c] >= WorkSum[n])
        <3>1. \A b \in Usable : WorkSum[b] >= WorkSum[n] => WorkSum[b] >= WorkSum[c]
            <4>1. Usable \subseteq Blocks
                BY Zenon, <1>3 DEF Usable, CanValidate, ChainInv, IndexInv
            <4> QED
                BY <1>3, <1>9, <2>2, <4>1
        <3>2. WorkSum[n] >= WorkSum[n]
            BY <1>3
        <3>3. Ancestors[n] \subseteq validated'
            BY Zenon, <1>1, <1>2 DEF SelectInv, LinkInv
        <3>4. PICK m \in known : m = n
            BY Zenon, <1>2
        <3>5. Anchored(m)'
            BY Zenon, <1>2, <1>5, <1>10, <3>1, <3>2, <3>3, <3>4 DEF Anchored
        <3> QED
            BY Zenon, <1>1, <3>5
    <2> QED
        BY Zenon, <2>1, <2>2
<1>12. Arrivals' /\ ListInv' /\ SelectionInv'
    BY Zenon, <1>1, <1>7, <1>11 DEF SelectInv, Arrivals, ListInv, SelectionInv
<1> QED
    BY Zenon, <1>6, <1>12 DEF SelectInv

\* The next block turns out to be invalid.  It has not been validated, so neither
\* the best chain nor the block to fall back to is above it, but the target is.
LEMMA SelectFails ==
    ASSUME ChainInv, HeadInv, SelectInv, MerkleRootsMatch, ConnectFails
    PROVE  SelectInv'
<1> DEFINE n == NextBlock
<1>1. /\ n \in Usable /\ n \in known \ {Genesis} /\ n \in Ancestors[target]
      /\ n \notin unlinked /\ Best(target)
    BY Zenon, NextUsable DEF ConnectFails
<1>2. /\ pc = "reorg" /\ pc' = "failed" /\ n \notin validated
      /\ UNCHANGED <<verdict, tip, op, target>>
      /\ MarkBlockFailedValidation(n) \/ verdict[n] = "merkle"
    BY Zenon DEF ConnectFails, Reorganizing, Goto, opVars
<1>3. verdict[n] # "merkle"
    <2>1. verdict \in VerdictChoices /\ n \in Blocks
        BY Zenon, <1>1 DEF SelectInv, Arrivals, ChainInv, IndexInv
    <2> QED
        BY Zenon, <2>1 DEF MerkleRootsMatch
<1>4. MarkBlockFailedValidation(n)
    BY Zenon, <1>2, <1>3
<1>5. n \notin Ancestors[tip]
    BY Zenon, <1>2 DEF SelectInv, LinkInv
<1> HIDE DEF n
<1>6. /\ LinkInv'
      /\ \A c \in known : Anchored(c) /\ n \notin Ancestors[c] => Anchored(c)'
      /\ \A c \in candidates : n \in Ancestors[c] => c \notin candidates'
      /\ known' = known
    BY Zenon, <1>1, <1>2, <1>4, <1>5, MarkSelect DEF SelectInv
<1>7. target' \notin candidates'
    BY Zenon, <1>1, <1>2, <1>6 DEF Best
<1>8. PICK c \in known : Anchored(c)
    BY Zenon DEF SelectInv, SelectionInv
<1>9. n \notin Ancestors[c]
    BY Zenon, <1>2, <1>8 DEF Anchored
<1>10. Anchored(c)'
    BY Zenon, <1>6, <1>8, <1>9
<1>11. Arrivals' /\ ListInv' /\ SelectionInv'
    BY Zenon, <1>2, <1>6, <1>7, <1>10 DEF SelectInv, Arrivals, ListInv, SelectionInv
<1> QED
    BY Zenon, <1>6, <1>11 DEF SelectInv

-----------------------------------------------------------------------------
LEMMA SelectInit ==
    ASSUME Init
    PROVE  SelectInv
<1>1. /\ known = {Genesis} /\ data = {Genesis} /\ validated = {Genesis}
      /\ failed = {} /\ invalidAnc = {} /\ linked = {Genesis} /\ candidates = {Genesis}
      /\ unlinked = {} /\ tip = Genesis /\ pc = "idle" /\ op = "none" /\ pos = 1
      /\ verdict \in VerdictChoices
    BY Zenon DEF Init, IndexInit, NoOperation
<1>2. Ancestors[Genesis] = {Genesis}
    BY Zenon, AncestorAssumption
<1>3. Usable = {Genesis} /\ KnownInvalid = {}
    BY Zenon, <1>1 DEF Usable, CanValidate, KnownInvalid
<1>4. LinkInv
    BY Zenon, <1>1, <1>2, <1>3 DEF LinkInv, InvalidityInherited
<1>5. Anchored(Genesis) /\ Best(Genesis)
    BY Zenon, <1>1, <1>2, <1>3 DEF Anchored, Best
<1>6. Arrivals /\ ListInv
    BY Zenon, <1>1 DEF Arrivals, ListInv
<1>7. SelectionInv
    BY Zenon, <1>1, <1>5 DEF SelectionInv
<1> QED
    BY Zenon, <1>4, <1>6, <1>7 DEF SelectInv

LEMMA SelectStutter ==
    ASSUME SelectInv, UNCHANGED vars
    PROVE  SelectInv'
<1>1. UNCHANGED <<known, data, validated, failed, invalidAnc, linked, candidates,
                  unlinked, order, tip, verdict, pc, op, node, target, linkedNodes, pos>>
    BY Zenon DEF vars, indexVars, statusVars, linkVars, opVars
<1>2. Usable' = Usable /\ KnownInvalid' = KnownInvalid
    BY Zenon, <1>1 DEF Usable, CanValidate, KnownInvalid
<1>3. Arrivals' /\ ListInv'
    BY Zenon, <1>1, <1>2 DEF SelectInv, Arrivals, ListInv
<1>4. LinkInv'
    BY Zenon, <1>1, <1>2 DEF SelectInv, LinkInv, InvalidityInherited
<1>5. SelectionInv'
    BY Zenon, <1>1, <1>2
    DEF SelectInv, SelectionInv, Anchored, Best, BetterCandidate
<1> QED
    BY Zenon, <1>3, <1>4, <1>5 DEF SelectInv

LEMMA SelectNext ==
    ASSUME OnlyArrivals, MerkleRootsMatch, ChainInv, HeadInv, SelectInv, [Next]_vars
    PROVE  SelectInv'
<1>1. CASE Begin
    <2>1. \E b \in Blocks : ProcessBlockHeader(b) \/ ProcessBlock(b)
        BY Zenon, <1>1
        DEF Begin, OnlyArrivals, ForceHeadReorganization, InvalidateSideBlock,
            InvalidateMainBlock, ReconsiderBlock
    <2> QED
        BY Zenon, <2>1, SelectHeader
<1>2. CASE Step
    <2>1. ~(ReturnAndFlush \/ ReturnToReconsider \/ ReturnToInvalidate
            \/ RepopulateCandidates)
        BY Zenon
        DEF ReturnAndFlush, ReturnToReconsider, ReturnToInvalidate,
            RepopulateCandidates, SelectInv, Arrivals
    <2> QED
        BY Zenon, <1>2, <2>1, SelectControl, SelectFailData, SelectAcceptData,
           SelectLink, SelectFlush, SelectAccept, SelectMove, SelectConnect, SelectFails
        DEF Step
<1>3. CASE Restart
    BY Zenon, <1>3 DEF Restart, OnlyArrivals
<1>4. CASE UNCHANGED vars
    BY Zenon, <1>4, SelectStutter
<1> QED
    BY Zenon, <1>1, <1>2, <1>3, <1>4 DEF Next

-----------------------------------------------------------------------------
\* No data is forgotten.

\* A block that is to be linked yet.
Listed(b) ==
    pc = "link" /\ \E i \in 1..Len(linkedNodes) : i >= pos /\ linkedNodes[i] = b

RememberInv ==
    \A b \in data \ KnownInvalid :
        \/ b \in linked
        \/ b \in unlinked /\ Parent[b] \notin linked
        \/ Listed(b)

\* The children that wait are all put on the list.
LEMMA OrderingsCover ==
    ASSUME NEW S, IsFiniteSet(S), NEW s \in Orderings(S), NEW x \in S
    PROVE  \E i \in 1..Len(s) : s[i] = x
<1> DEFINE n == Cardinality(S)
<1>1. n \in Nat
    BY Zenon, FS_CardinalityType
<1>2. s \in [1..n -> S] /\ \A i, j \in 1..n : s[i] = s[j] => i = j
    BY Zenon DEF Orderings
<1>3. s \in Injection(1..n, S)
    BY Zenon, <1>2 DEF Injection, IsInjective
<1>4. Cardinality(1..n) = n
    BY <1>1, FS_Interval
<1>5. s \in Surjection(1..n, S)
    BY Zenon, <1>3, <1>4, FS_Injection
<1>6. \E i \in 1..n : s[i] = x
    BY Zenon, <1>5 DEF Surjection
<1>7. Len(s) = n
    BY <1>1, <1>2
<1> QED
    BY Zenon, <1>6, <1>7

\* What stops waiting because a block is marked is above it, hence marked itself.
LEMMA MarkRemembers ==
    ASSUME ChainInv, HeadInv, LinkInv, RememberInv,
           NEW n \in known \ {Genesis}, MarkBlockFailedValidation(n), pc # "link"
    PROVE  RememberInv'
<1> DEFINE B == Between(n, DescendantTips(n))
<1>1. /\ IndexInv /\ TipsCached /\ KnownInvalid \subseteq known \ {Genesis}
      /\ known \subseteq Blocks
    BY Zenon DEF ChainInv, HeadInv, FlagsPlaced, IndexInv
<1>2. /\ KnownInvalid' = KnownInvalid \cup {n} \cup B
      /\ UNCHANGED <<known, data, order>>
    BY Zenon, <1>1, MarkFlags
<1>3. /\ linked' = linked
      /\ Disqualified(n) = {n} \cup (B \ invalidAnc)
      /\ unlinked' = {u \in unlinked : Parent[u] \notin Disqualified(n)}
    BY Zenon DEF MarkBlockFailedValidation, Disqualified, NewlyInvalid
<1>4. \A x \in B : n \in Ancestors[x] /\ x \in known \ {n}
    BY Zenon, <1>1, MarkedAbove
<1>5. \A x \in known \ {n} : n \in Ancestors[x] => x \in B
    BY Zenon, <1>1, DescendantsMarked
<1> HIDE DEF B
<1>6. ASSUME NEW u \in unlinked, Parent[u] \in Disqualified(n)
      PROVE  u \in KnownInvalid'
    <2>1. u \in data /\ u \in known /\ u \in Blocks
        BY Zenon, <1>1 DEF IndexInv
    <2>2. u # Genesis
        BY Zenon, <1>1, <1>3, <1>4, <1>6, GenesisAssumption
    <2>3. Ancestors[u] = Ancestors[Parent[u]] \cup {u}
        BY Zenon, <2>1, <2>2, TreeFacts
    <2>4. n \in Ancestors[Parent[u]]
        BY Zenon, <1>1, <1>3, <1>4, <1>6, TreeFacts
    <2>5. u = n \/ u \in B
        BY Zenon, <1>5, <2>1, <2>3, <2>4
    <2> QED
        BY Zenon, <1>2, <2>5
<1>7. ASSUME NEW b \in data' \ KnownInvalid'
      PROVE  b \in linked' \/ (b \in unlinked' /\ Parent[b] \notin linked')
    <2>1. b \in data \ KnownInvalid
        BY Zenon, <1>2
    <2>2. b \in linked \/ (b \in unlinked /\ Parent[b] \notin linked)
        BY Zenon, <2>1 DEF RememberInv, Listed
    <2> QED
        BY Zenon, <1>3, <1>6, <2>2
<1> QED
    BY Zenon, <1>7 DEF RememberInv

LEMMA RememberLink ==
    ASSUME ChainInv, HeadInv, SelectInv, RememberInv, LinkBlockData
    PROVE  RememberInv'
<1> DEFINE n == linkedNodes[pos]
           W == WaitingChildren(n)
<1>1. /\ pc = "link" /\ pc' = pc /\ pos <= Len(linkedNodes) /\ pos \in Nat \ {0}
      /\ linkedNodes \in Seq(Complete) /\ pos' = pos + 1
      /\ linked' = linked \cup {n} /\ unlinked' = unlinked \ Children(n)
      /\ UNCHANGED <<data, failed, invalidAnc>>
    BY Zenon DEF LinkBlockData, ChainInv, OperationInv, LinkNode, statusVars
<1>2. PICK s \in Orderings(W) : linkedNodes' = linkedNodes \o s
    BY Zenon DEF LinkBlockData
<1>3. IsFiniteSet(W)
    <2>1. W \subseteq Blocks
        BY Zenon DEF WaitingChildren, Children
    <2> QED
        BY Zenon, <2>1, FiniteAssumption, FS_Subset
<1>4. s \in Seq(W)
    <2>1. Cardinality(W) \in Nat
        BY Zenon, <1>3, FS_CardinalityType
    <2>2. s \in [1..Cardinality(W) -> W]
        BY Zenon, <1>2 DEF Orderings
    <2> QED
        BY <2>1, <2>2
<1>5. \A x \in W : \E i \in 1..Len(s) : s[i] = x
    BY Zenon, <1>2, <1>3, OrderingsCover
<1>6. KnownInvalid' = KnownInvalid
    BY Zenon, <1>1 DEF KnownInvalid
<1>7. unlinked \subseteq Blocks
    BY Zenon DEF ChainInv, IndexInv
<1>8. \A u \in unlinked : u \in Children(n) => u \in W
    BY Zenon DEF WaitingChildren
<1>9. \A u \in Blocks : Parent[u] = n /\ u # Genesis => u \in Children(n)
    BY Zenon DEF Children
<1>10. n = linkedNodes[pos]
    OBVIOUS
<1> HIDE DEF n, W
<1>11. ASSUME NEW b \in data \ KnownInvalid
       PROVE  b \in linked' \/ (b \in unlinked' /\ Parent[b] \notin linked') \/ Listed(b)'
    <2>1. CASE b \in linked
        BY Zenon, <1>1, <2>1
    <2>2. CASE b \in W
        <3>1. PICK i \in 1..Len(s) : s[i] = b
            BY Zenon, <1>5, <2>2
        <3>2. /\ Len(linkedNodes) + i \in 1..Len(linkedNodes')
              /\ linkedNodes'[Len(linkedNodes) + i] = b
              /\ Len(linkedNodes) + i >= pos'
            BY <1>1, <1>2, <1>4, <3>1
        <3> QED
            BY Zenon, <1>1, <3>2 DEF Listed
    <2>3. CASE b \in unlinked /\ b \notin W /\ Parent[b] \notin linked
        <3>1. b \notin Children(n)
            BY Zenon, <1>8, <2>3
        <3>2. b # Genesis
            <4>1. tip \in Blocks /\ tip \in linked /\ unlinked \cap linked = {}
                BY Zenon DEF SelectInv, LinkInv, ChainInv, OperationInv, Complete
            <4>2. Genesis \in linked
                BY Zenon, <4>1, PathAssumption DEF SelectInv, LinkInv
            <4> QED
                BY Zenon, <2>3, <4>1, <4>2
        <3> QED
            BY Zenon, <1>1, <1>7, <1>9, <2>3, <3>1, <3>2
    <2>4. CASE Listed(b)
        <3>1. PICK i \in 1..Len(linkedNodes) : i >= pos /\ linkedNodes[i] = b
            BY Zenon, <2>4 DEF Listed
        <3>2. CASE i = pos
            BY Zenon, <1>1, <1>10, <3>1, <3>2
        <3>3. CASE i # pos
            <4>1. /\ i \in 1..Len(linkedNodes')
                  /\ linkedNodes'[i] = b
                  /\ i >= pos'
                BY <1>1, <1>2, <1>4, <3>1, <3>3
            <4> QED
                BY Zenon, <1>1, <4>1 DEF Listed
        <3> QED
            BY Zenon, <3>2, <3>3
    <2> QED
        BY Zenon, <2>1, <2>2, <2>3, <2>4 DEF RememberInv
<1> QED
    BY Zenon, <1>1, <1>6, <1>11 DEF RememberInv

LEMMA RememberAcceptData ==
    ASSUME ChainInv, HeadInv, SelectInv, RememberInv, AcceptBlockData
    PROVE  RememberInv'
<1>1. /\ pc = "data" /\ data' = data \cup {node}
      /\ UNCHANGED <<failed, invalidAnc, linked, pos>>
      /\ \/ /\ linkedNodes' = <<node>> /\ pc' = "link" /\ unlinked' = unlinked
         \/ /\ Parent[node] \notin CanValidate /\ pc' = "select"
            /\ unlinked' = IF Parent[node] \in KnownInvalid THEN unlinked
                           ELSE unlinked \cup {node}
    BY Zenon DEF AcceptBlockData, FlushBlockIndex, FlushAndPutBestState
<1>2. /\ pos = 1 /\ node \in known /\ node \notin data /\ node \notin KnownInvalid
      /\ linked \subseteq data
    BY Zenon, <1>1 DEF ChainInv, OperationInv, HeadInv, Operated, SelectInv, Arrivals,
       LinkInv
<1>3. Genesis \in data
    <2>1. tip \in Blocks /\ Ancestors[tip] \subseteq data
        BY Zenon DEF ChainInv, OperationInv, Complete
    <2> QED
        BY Zenon, <2>1, PathAssumption
<1>4. Parent[node] \notin KnownInvalid
    BY Zenon, <1>2, <1>3 DEF SelectInv, LinkInv, InvalidityInherited
<1>5. KnownInvalid' = KnownInvalid
    BY Zenon, <1>1 DEF KnownInvalid
<1>6. ASSUME NEW b \in data \ KnownInvalid
      PROVE  b \in linked' \/ (b \in unlinked' /\ Parent[b] \notin linked')
    BY Zenon, <1>1 DEF RememberInv, Listed
<1>7. \/ node \in unlinked' /\ Parent[node] \notin linked'
      \/ Listed(node)'
    <2>1. CASE linkedNodes' = <<node>> /\ pc' = "link"
        <3>1. /\ 1 \in 1..Len(linkedNodes') /\ 1 >= pos' /\ linkedNodes'[1] = node
            BY <1>1, <1>2, <2>1
        <3>2. node' = node
            BY Zenon DEF AcceptBlockData
        <3> QED
            BY Zenon, <2>1, <3>1, <3>2 DEF Listed
    <2>2. CASE /\ Parent[node] \notin CanValidate
               /\ unlinked' = IF Parent[node] \in KnownInvalid THEN unlinked
                              ELSE unlinked \cup {node}
        BY Zenon, <1>1, <1>2, <1>4, <2>2 DEF CanValidate
    <2> QED
        BY Zenon, <1>1, <2>1, <2>2
<1>8. node' = node
    BY Zenon DEF AcceptBlockData
<1> QED
    BY Zenon, <1>1, <1>5, <1>6, <1>7, <1>8 DEF RememberInv, Listed

LEMMA RememberNext ==
    ASSUME OnlyArrivals, MerkleRootsMatch, ChainInv, HeadInv, SelectInv, RememberInv,
           [Next]_vars
    PROVE  RememberInv'
<1>1. ASSUME pc # "link", UNCHANGED <<data, failed, invalidAnc, linked, unlinked>>
      PROVE  RememberInv'
    BY Zenon, <1>1 DEF RememberInv, Listed, KnownInvalid
<1>2. CASE Begin
    <2>1. \E b \in Blocks : ProcessBlockHeader(b) \/ ProcessBlock(b)
        BY Zenon, <1>2
        DEF Begin, OnlyArrivals, ForceHeadReorganization, InvalidateSideBlock,
            InvalidateMainBlock, ReconsiderBlock
    <2>2. pc # "link" /\ UNCHANGED <<data, failed, invalidAnc, linked, unlinked>>
        BY Zenon, <2>1
        DEF ProcessBlockHeader, ProcessBlock, AddNode, indexVars, statusVars, linkVars
    <2> QED
        BY Zenon, <1>1, <2>2
<1>3. CASE \/ RejectBlockData \/ AcceptDone \/ SelectTarget \/ ReorgDone
           \/ Retarget \/ ReturnToProcessBlock \/ Announce
           \/ DisconnectBlock \/ ValidateBlock \/ ConnectBlock
    <2>1. pc # "link" /\ UNCHANGED <<data, failed, invalidAnc, linked, unlinked>>
        BY Zenon, <1>3
        DEF RejectBlockData, AcceptDone, SelectTarget, ReorgDone, Retarget,
            ReturnToProcessBlock, Announce, DisconnectBlock, ValidateBlock, ConnectBlock,
            Reorganizing, indexVars, statusVars, linkVars
    <2> QED
        BY Zenon, <1>1, <2>1
<1>4. CASE AcceptBlockData
    BY Zenon, <1>4, RememberAcceptData
<1>5. CASE LinkBlockData
    BY Zenon, <1>5, RememberLink
<1>6. CASE FlushLinked
    <2>1. /\ pos > Len(linkedNodes) /\ pos \in Nat /\ linkedNodes \in Seq(Complete)
          /\ UNCHANGED <<data, failed, invalidAnc, linked, unlinked>>
        BY Zenon, <1>6 DEF FlushLinked, ChainInv, OperationInv, statusVars, linkVars
    <2>2. \A i \in 1..Len(linkedNodes) : ~(i >= pos)
        BY <2>1
    <2>3. \A b : ~Listed(b)
        BY Zenon, <2>2 DEF Listed
    <2> QED
        BY Zenon, <2>1, <2>3 DEF RememberInv, KnownInvalid
<1>7. ASSUME NEW n \in known \ {Genesis}, MarkBlockFailedValidation(n), pc # "link"
      PROVE  RememberInv'
    BY Zenon, <1>7, MarkRemembers DEF SelectInv
<1>8. CASE FailBlockData
    <2>1. pc = "data" /\ MarkBlockFailedValidation(node)
        BY Zenon, <1>8 DEF FailBlockData
    <2>2. node \in known \ {Genesis}
        <3>1. /\ node \in known /\ node \notin data /\ tip \in Blocks
              /\ Ancestors[tip] \subseteq data
            BY Zenon, <2>1 DEF ChainInv, OperationInv, Complete, HeadInv, Operated
        <3> QED
            BY Zenon, <3>1, PathAssumption
    <2> QED
        BY Zenon, <1>7, <2>1, <2>2
<1>9. CASE AcceptBlock
    <2>1. CASE UNCHANGED indexVars
        BY Zenon, <1>1, <1>9, <2>1 DEF AcceptBlock, indexVars, statusVars, linkVars
    <2>2. CASE MarkBlockFailedValidation(linkedNodes[pos])
        <3>1. /\ pc = "accept" /\ pos <= Len(linkedNodes) /\ pos \in Nat \ {0}
              /\ linkedNodes \in Seq(Blocks \ {Genesis})
              /\ linkedNodes \in Seq(Complete)
            BY Zenon, <1>9 DEF AcceptBlock, ChainInv, OperationInv, HeadInv, Operated
        <3>2. linkedNodes[pos] \in Blocks \ {Genesis} /\ linkedNodes[pos] \in Complete
            BY Zenon, <3>1, SeqElement
        <3>3. linkedNodes[pos] \in known \ {Genesis}
            BY Zenon, <3>2, TreeFacts DEF Complete, ChainInv, IndexInv
        <3> QED
            BY Zenon, <1>7, <2>2, <3>1, <3>3
    <2> QED
        BY Zenon, <1>9, <2>1, <2>2 DEF AcceptBlock
<1>10. CASE ConnectFails
    <2>1. CASE UNCHANGED indexVars
        BY Zenon, <1>1, <1>10, <2>1
        DEF ConnectFails, Reorganizing, indexVars, statusVars, linkVars
    <2>2. CASE MarkBlockFailedValidation(NextBlock)
        <3>1. pc # "link" /\ NextBlock \in known \ {Genesis}
            BY Zenon, <1>10, NextUsable DEF ConnectFails, Reorganizing
        <3> QED
            BY Zenon, <1>7, <2>2, <3>1
    <2> QED
        BY Zenon, <1>10, <2>1, <2>2 DEF ConnectFails
<1>11. CASE UNCHANGED vars
    <2>1. UNCHANGED <<data, failed, invalidAnc, linked, unlinked, pc, linkedNodes, pos>>
        BY Zenon, <1>11 DEF vars, indexVars, statusVars, linkVars, opVars
    <2> QED
        BY Zenon, <2>1 DEF RememberInv, Listed, KnownInvalid
<1>12. ~(\/ Restart \/ ReturnAndFlush \/ ReturnToReconsider \/ ReturnToInvalidate
         \/ RepopulateCandidates)
    BY Zenon
    DEF Restart, OnlyArrivals, ReturnAndFlush, ReturnToReconsider, ReturnToInvalidate,
        RepopulateCandidates, SelectInv, Arrivals
<1> QED
    BY Zenon, <1>2, <1>3, <1>4, <1>5, <1>6, <1>8, <1>9, <1>10, <1>11, <1>12
    DEF Next, Step

-----------------------------------------------------------------------------
\* The invariants hold while headers and blocks arrive.
LEMMA SelectInvAlways ==
    ASSUME OnlyArrivals, MerkleRootsMatch
    PROVE  Spec /\ RisingPrunes => [](ChainInv /\ SelectInv /\ RememberInv)
<1>1. Init => SelectInv /\ RememberInv
    <2>1. ASSUME Init
          PROVE  RememberInv
        BY Zenon, <2>1 DEF Init, IndexInit, RememberInv
    <2> QED
        BY Zenon, <2>1, SelectInit
<1>2. ChainInv /\ HeadInv /\ SelectInv /\ RememberInv /\ [Next]_vars
          => SelectInv' /\ RememberInv'
    BY Zenon, SelectNext, RememberNext
<1> QED
    BY <1>1, <1>2, ChainInvAlways, HeadInvAlways, PTL DEF Spec

\* Outside of reorganizeChain no usable block is better than the tip.
LEMMA TipBeatsUsable ==
    ASSUME ChainInv, SelectInv, pc \in {"announce", "idle"}
    PROVE  /\ tip \in candidates /\ tip \in Blocks /\ Usable \subseteq Blocks
           /\ \A b \in Usable \ {tip} : BetterCandidate(tip, b, data, order)
<1>1. Best(tip) /\ Anchored(tip) /\ tip \in candidates
    BY Zenon DEF SelectInv, SelectionInv, Best
<1>2. tip \in Blocks /\ Usable \subseteq Blocks
    BY Zenon DEF ChainInv, OperationInv, Complete, IndexInv, Usable, CanValidate
<1>3. ASSUME NEW b \in Usable \ {tip}
      PROVE  BetterCandidate(tip, b, data, order)
    <2>1. CASE WorkSum[b] >= WorkSum[tip]
        BY Zenon, <1>1, <2>1 DEF Best, Anchored
    <2>2. CASE ~(WorkSum[b] >= WorkSum[tip])
        <3>1. WorkSum[b] \in Nat /\ WorkSum[tip] \in Nat
            BY Zenon, <1>2, TreeAssumption
        <3>2. WorkSum[tip] > WorkSum[b]
            BY <2>2, <3>1
        <3> QED
            BY Zenon, <3>2 DEF BetterCandidate
    <2> QED
        BY Zenon, <2>1, <2>2
<1> QED
    BY Zenon, <1>1, <1>2, <1>3

\* ProcessBlock returns with the best chain: for every tree and every order in
\* which headers and blocks arrive, and whatever fails on the way, no block that
\* can be used is better than the tip, with the tie break of betterCandidate.
THEOREM BestTipSelectedAlways ==
    ASSUME OnlyArrivals, MerkleRootsMatch
    PROVE  Spec /\ RisingPrunes => []BestTipSelected
<1>1. ChainInv /\ SelectInv => BestTipSelected
    BY Zenon, TipBeatsUsable DEF BestTipSelected
<1> QED
    BY <1>1, SelectInvAlways, PTL

\* At the end of every operation no usable block has more work than the tip.
THEOREM MostWorkSelectedAlways ==
    ASSUME OnlyArrivals, MerkleRootsMatch
    PROVE  Spec /\ RisingPrunes => []MostWorkSelected
<1>1. ASSUME ChainInv, SelectInv, pc = "idle", NEW b \in Usable
      PROVE  WorkSum[b] <= WorkSum[tip]
    <2>1. /\ b \in Blocks /\ tip \in Blocks
          /\ b # tip => BetterCandidate(tip, b, data, order)
        BY Zenon, <1>1, TipBeatsUsable
    <2>2. WorkSum[b] \in Nat /\ WorkSum[tip] \in Nat
        BY Zenon, <2>1, TreeAssumption
    <2> QED
        BY <2>1, <2>2 DEF BetterCandidate
<1>2. ChainInv /\ SelectInv => MostWorkSelected
    BY Zenon, <1>1 DEF MostWorkSelected
<1> QED
    BY <1>2, SelectInvAlways, PTL

\* Candidates have all their data and no known invalid ancestor, and the tip is
\* one of them between operations: FindBestChainCandidate relies on both.
THEOREM CandidatesUsableAlways ==
    ASSUME OnlyArrivals, MerkleRootsMatch
    PROVE  Spec /\ RisingPrunes => [](CandidatesUsable /\ TipIsCandidate)
<1>1. ChainInv /\ SelectInv => CandidatesUsable /\ TipIsCandidate
    BY Zenon, TipBeatsUsable DEF CandidatesUsable, TipIsCandidate, SelectInv, LinkInv
<1> QED
    BY <1>1, SelectInvAlways, PTL

\* removeLessWorkCandidates never panics: when a block is connected, the target
\* above it is still a candidate and has at least its work.
THEOREM NoCandidatePanicAlways ==
    ASSUME OnlyArrivals, MerkleRootsMatch
    PROVE  Spec /\ RisingPrunes => []NoCandidatePanic
<1>1. ASSUME ChainInv, HeadInv, SelectInv, Reorganizing, AtFork
      PROVE  MoreWorkCandidates(NextBlock) # {}
    <2>1. /\ WorkSum[NextBlock] <= WorkSum[target] /\ target \in candidates
          /\ NextBlock \in Blocks /\ target \in Blocks
        BY Zenon, <1>1, NextUsable DEF Best, ChainInv, IndexInv
    <2>2. WorkSum[NextBlock] \in Nat /\ WorkSum[target] \in Nat
        BY Zenon, <2>1, TreeAssumption
    <2>3. WorkSum[target] >= WorkSum[NextBlock]
        BY Zenon, <2>1, <2>2
    <2>4. target \in MoreWorkCandidates(NextBlock)
        BY Zenon, <2>1, <2>3 DEF MoreWorkCandidates
    <2> QED
        BY Zenon, <2>4
<1>2. ChainInv /\ HeadInv /\ SelectInv => NoCandidatePanic
    BY Zenon, <1>1 DEF NoCandidatePanic
<1> QED
    BY <1>2, HeadInvAlways, SelectInvAlways, PTL

\* linkBlockData forgets no block: one whose data arrived before that of its
\* parent is linked or waits for the parent, in whatever order the data comes.
THEOREM DataRememberedAlways ==
    ASSUME OnlyArrivals, MerkleRootsMatch
    PROVE  Spec /\ RisingPrunes => []DataRemembered
<1>1. SelectInv /\ RememberInv => DataRemembered
    BY Zenon DEF DataRemembered, RememberInv, Listed, CanValidate
<1> QED
    BY <1>1, SelectInvAlways, PTL

\* Once ProcessBlock has returned no block of the best chain is known to be
\* invalid: all that failed was found out before it was connected.
THEOREM BestChainNotInvalidAlways ==
    ASSUME OnlyArrivals, MerkleRootsMatch
    PROVE  Spec /\ RisingPrunes => []BestChainNotInvalid
<1>1. ASSUME ChainInv, SelectInv, pc = "idle", NEW a \in Ancestors[tip]
      PROVE  a \notin KnownInvalid
    <2>1. tip \in known /\ tip \notin KnownInvalid
        BY Zenon, <1>1, TipBeatsUsable
        DEF SelectInv, LinkInv, Usable, CanValidate, ChainInv, IndexInv
    <2>2. /\ known \in SUBSET Blocks
          /\ \A b \in known : Ancestors[b] \subseteq known
          /\ \A b \in known \ {Genesis} : Parent[b] \in KnownInvalid => b \in KnownInvalid
        BY Zenon, <1>1 DEF ChainInv, IndexInv, SelectInv, LinkInv, InvalidityInherited
    <2> QED
        BY Zenon, <1>1, <2>1, <2>2, InheritedAbove
<1>2. ChainInv /\ SelectInv => BestChainNotInvalid
    BY Zenon, <1>1 DEF BestChainNotInvalid
<1> QED
    BY <1>2, SelectInvAlways, PTL
=============================================================================

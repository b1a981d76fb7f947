------------------------- MODULE ChainHeaderProofs --------------------------
(***************************************************************************)
(* What the block index says about headers: the best header, the best      *)
(* invalid block, and which blocks are known to be invalid.                *)
(*                                                                         *)
(* The best element of a finite set exists, and facts about branches hold  *)
(* all the way up, by arguments about the first or lowest exception.  From *)
(* there on the question is which blocks MarkBlockFailedValidation and     *)
(* ReconsiderBlock reach, and that depends on the cache of tips.           *)
(*                                                                         *)
(* HeadInv is the invariant for the best header.  InheritInv adds that a   *)
(* descendant of an invalid block is marked, in memory and on disk.        *)
(***************************************************************************)
EXTENDS BlockChainProofs, NaturalsInduction, WellFoundedInduction

\* A set of numbers that is not empty has a least element.
LEMMA LeastNumber ==
    ASSUME NEW T \in SUBSET Nat, T # {}
    PROVE  \E m \in T : \A k \in T : m <= k
<1>1. IsWellFoundedOn(OpToRel(<, Nat), Nat)
    BY Zenon, NatLessThanWellFounded
<1>2. PICK m \in T : \A k \in T : ~(<<k, m>> \in OpToRel(<, Nat))
    BY Zenon, <1>1, WFMin
<1>3. \A k \in T : ~(k < m)
    <2> TAKE k \in T
    <2>1. k \in Nat /\ m \in Nat
        OBVIOUS
    <2>2. <<k, m>> \in Nat \X Nat
        BY Zenon, <2>1
    <2>3. ~(<<k, m>> \in OpToRel(<, Nat))
        BY Zenon, <1>2
    <2> QED
        BY Zenon, <2>1, <2>2, <2>3 DEF OpToRel
<1> QED
    BY <1>3

\* A finite set has an element that none precedes; before[a] is what precedes a.
LEMMA FirstElement ==
    ASSUME NEW S, IsFiniteSet(S), S # {}, NEW before \in [S -> SUBSET S],
           \A a \in S : \A b \in before[a] :
               before[b] \subseteq before[a] /\ b \notin before[b]
    PROVE  \E a \in S : before[a] = {}
<1> DEFINE T == {Cardinality(before[a]) : a \in S}
<1>1. \A a \in S : IsFiniteSet(before[a]) /\ Cardinality(before[a]) \in Nat
    BY Zenon, FS_Subset, FS_CardinalityType
<1>2. T \in SUBSET Nat /\ T # {}
    BY <1>1
<1>3. PICK m \in T : \A k \in T : m <= k
    BY Zenon, <1>2, LeastNumber
<1>4. PICK a \in S : m = Cardinality(before[a])
    BY Zenon, <1>3
<1>5. ASSUME NEW b \in before[a]
      PROVE  FALSE
    <2>1. b \in S /\ before[b] \in SUBSET before[a] /\ before[b] # before[a]
        BY Zenon
    <2>2. /\ Cardinality(before[b]) <= Cardinality(before[a])
          /\ Cardinality(before[a]) # Cardinality(before[b])
        BY Zenon, <1>1, <2>1, FS_Subset
    <2>3. Cardinality(before[a]) <= Cardinality(before[b])
        <3>1. Cardinality(before[b]) \in T
            BY Zenon, <2>1
        <3> HIDE DEF T
        <3> QED
            BY Zenon, <1>3, <1>4, <3>1
    <2>4. Cardinality(before[a]) \in Nat /\ Cardinality(before[b]) \in Nat
        BY Zenon, <1>1, <2>1
    <2> HIDE DEF T
    <2> QED
        BY <2>2, <2>3, <2>4
<1>6. before[a] = {}
    BY Zenon, <1>5
<1> QED
    BY Zenon, <1>6

\* betterCandidate is a strict order of the blocks.
LEMMA BetterCandidateOrders ==
    ASSUME NEW dat, NEW ord \in [Blocks -> Nat]
    PROVE  /\ \A a \in Blocks : ~BetterCandidate(a, a, dat, ord)
           /\ \A a, b, c \in Blocks :
                  BetterCandidate(a, b, dat, ord) /\ BetterCandidate(b, c, dat, ord)
                      => BetterCandidate(a, c, dat, ord)
           /\ \A a, b \in Blocks :
                  a # b => BetterCandidate(a, b, dat, ord) \/ BetterCandidate(b, a, dat, ord)
<1>1. \A a \in Blocks : WorkSum[a] \in Nat /\ HashRank[a] \in Nat /\ ord[a] \in Nat
    BY Zenon, TreeAssumption
<1>2. \A a \in Blocks : ~BetterCandidate(a, a, dat, ord)
    BY <1>1 DEF BetterCandidate
<1>3. ASSUME NEW a \in Blocks, NEW b \in Blocks, NEW c \in Blocks,
             BetterCandidate(a, b, dat, ord), BetterCandidate(b, c, dat, ord)
      PROVE  BetterCandidate(a, c, dat, ord)
    BY <1>1, <1>3 DEF BetterCandidate
<1>4. ASSUME NEW a \in Blocks, NEW b \in Blocks, a # b
      PROVE  BetterCandidate(a, b, dat, ord) \/ BetterCandidate(b, a, dat, ord)
    <2>1. HashRank[a] # HashRank[b]
        BY Zenon, <1>4, HashAssumption
    <2> QED
        BY <1>1, <2>1 DEF BetterCandidate
<1> QED
    BY Zenon, <1>2, <1>3, <1>4

\* A search that comes by some block finds the best of those it comes by.
LEMMA BestOfIsBest ==
    ASSUME NEW S \in SUBSET Blocks, S # {}, NEW dat, NEW ord \in [Blocks -> Nat]
    PROVE  /\ BestOf(S, dat, ord) \in S
           /\ \A b \in S \ {BestOf(S, dat, ord)} :
                  BetterCandidate(BestOf(S, dat, ord), b, dat, ord)
           /\ \A b \in S : WorkSum[b] <= WorkSum[BestOf(S, dat, ord)]
<1> DEFINE before == [a \in S |-> {b \in S : BetterCandidate(b, a, dat, ord)}]
           best   == {a \in S : \A b \in S \ {a} : BetterCandidate(a, b, dat, ord)}
<1>1. IsFiniteSet(S)
    BY Zenon, FiniteAssumption, FS_Subset
<1>2. \A a \in S : \A b \in before[a] :
          before[b] \subseteq before[a] /\ b \notin before[b]
    BY Zenon, BetterCandidateOrders
<1>3. PICK a \in S : before[a] = {}
    <2>1. before \in [S -> SUBSET S]
        BY Zenon
    <2> HIDE DEF before
    <2> QED
        BY Zenon, <1>1, <1>2, <2>1, FirstElement
<1>4. a \in best
    BY Zenon, <1>3, BetterCandidateOrders
<1>5. BestOf(S, dat, ord) = CHOOSE c \in best : TRUE
    BY Zenon, <1>4 DEF BestOf
<1>6. BestOf(S, dat, ord) \in best
    BY Zenon, <1>4, <1>5
<1> DEFINE w == BestOf(S, dat, ord)
<1>7. w \in S /\ \A b \in S \ {w} : BetterCandidate(w, b, dat, ord)
    BY Zenon, <1>6
<1>8. ASSUME NEW b \in S
      PROVE  WorkSum[b] <= WorkSum[w]
    <2>1. WorkSum[b] \in Nat /\ WorkSum[w] \in Nat
        BY Zenon, <1>7, TreeAssumption
    <2>2. b = w \/ BetterCandidate(w, b, dat, ord)
        BY Zenon, <1>7
    <2> HIDE DEF w, before, best
    <2> QED
        BY <2>1, <2>2 DEF BetterCandidate
<1> QED
    BY Zenon, <1>7, <1>8

-----------------------------------------------------------------------------
\* The tree.

\* Induction along the branches of the tree.
LEMMA TreeInduction ==
    ASSUME NEW G \in SUBSET Blocks, Genesis \in G,
           \A b \in Blocks \ {Genesis} : Parent[b] \in G => b \in G
    PROVE  \A b \in Blocks : b \in G
<1> SUFFICES ASSUME NEW b \in Blocks, b \notin G
             PROVE  FALSE
    OBVIOUS
<1> DEFINE T == {Height[c] : c \in Blocks \ G}
<1>1. T \in SUBSET Nat /\ T # {}
    BY TreeAssumption
<1>2. PICK m \in T : \A k \in T : m <= k
    BY Zenon, <1>1, LeastNumber
<1>3. PICK c \in Blocks \ G : m = Height[c]
    BY Zenon, <1>2
<1>4. /\ c # Genesis /\ Parent[c] \in Blocks \ G
      /\ Height[c] = Height[Parent[c]] + 1
    BY Zenon, <1>3, TreeAssumption
<1>5. Height[Parent[c]] \in T /\ Height[Parent[c]] \in Nat
    BY <1>4, TreeAssumption
<1> HIDE DEF T
<1> QED
    BY <1>2, <1>3, <1>4, <1>5

\* PathAssumption is no assumption of its own.
LEMMA PathFollows ==
    \A b \in Blocks :
        /\ Genesis \in Ancestors[b]
        /\ \A a \in Ancestors[b] :
              /\ Ancestors[a] \subseteq Ancestors[b]
              /\ Height[a] <= Height[b]
              /\ a # b => \E n \in Ancestors[b] : Parent[n] = a
<1> DEFINE G == {b \in Blocks :
        /\ Genesis \in Ancestors[b]
        /\ \A a \in Ancestors[b] :
              /\ Ancestors[a] \subseteq Ancestors[b]
              /\ Height[a] <= Height[b]
              /\ a # b => \E n \in Ancestors[b] : Parent[n] = a}
<1>1. Genesis \in G
    BY AncestorAssumption, GenesisAssumption
<1>2. ASSUME NEW b \in Blocks \ {Genesis}, Parent[b] \in G
      PROVE  b \in G
    <2>1. /\ Ancestors[b] = Ancestors[Parent[b]] \cup {b}
          /\ Height[b] = Height[Parent[b]] + 1
          /\ Height[Parent[b]] \in Nat
          /\ \A a \in Ancestors[Parent[b]] : Height[a] \in Nat
        BY Zenon, <1>2, AncestorAssumption, TreeAssumption
    <2>2. \A a \in Ancestors[b] : Ancestors[a] \subseteq Ancestors[b]
        BY Zenon, <1>2, <2>1
    <2>3. \A a \in Ancestors[b] : Height[a] <= Height[b]
        BY <1>2, <2>1
    <2>4. \A a \in Ancestors[b] : a # b => \E n \in Ancestors[b] : Parent[n] = a
        BY Zenon, <1>2, <2>1
    <2> QED
        BY Zenon, <1>2, <2>1, <2>2, <2>3, <2>4
<1>3. \A b \in Blocks : b \in G
    <2>1. G \in SUBSET Blocks
        BY Zenon
    <2> HIDE DEF G
    <2> QED
        BY Zenon, <1>1, <1>2, <2>1, TreeInduction
<1> QED
    BY Zenon, <1>3

\* Below a block there are blocks of less work, and no two branches.
LEMMA BranchFacts ==
    ASSUME NEW t \in Blocks
    PROVE  /\ \A a \in Ancestors[t] : WorkSum[a] <= WorkSum[t]
           /\ \A a, b \in Ancestors[t] : a \in Ancestors[b] \/ b \in Ancestors[a]
           /\ \A a \in Ancestors[t] : t \in Ancestors[a] => a = t
<1> DEFINE G == {b \in Blocks :
        /\ \A a \in Ancestors[b] : WorkSum[a] <= WorkSum[b]
        /\ \A a, c \in Ancestors[b] : a \in Ancestors[c] \/ c \in Ancestors[a]}
<1>1. Genesis \in G
    BY AncestorAssumption, GenesisAssumption, TreeAssumption
<1>2. ASSUME NEW b \in Blocks \ {Genesis}, Parent[b] \in G
      PROVE  b \in G
    <2>1. /\ Ancestors[b] = Ancestors[Parent[b]] \cup {b}
          /\ WorkSum[b] > WorkSum[Parent[b]]
          /\ WorkSum[b] \in Nat /\ WorkSum[Parent[b]] \in Nat
          /\ \A a \in Ancestors[b] : WorkSum[a] \in Nat
        BY Zenon, <1>2, AncestorAssumption, TreeAssumption
    <2>2. \A a \in Ancestors[b] : WorkSum[a] <= WorkSum[b]
        BY <1>2, <2>1
    <2>3. \A a, c \in Ancestors[b] : a \in Ancestors[c] \/ c \in Ancestors[a]
        BY Zenon, <1>2, <2>1
    <2> QED
        BY Zenon, <1>2, <2>2, <2>3
<1>3. \A b \in Blocks : b \in G
    <2>1. G \in SUBSET Blocks
        BY Zenon
    <2> HIDE DEF G
    <2> QED
        BY Zenon, <1>1, <1>2, <2>1, TreeInduction
<1>4. ASSUME NEW a \in Ancestors[t], t \in Ancestors[a], a # t
      PROVE  FALSE
    <2>1. PICK n \in Ancestors[t] : Parent[n] = a
        BY Zenon, <1>4, PathAssumption
    <2>2. n \in Blocks /\ a \in Blocks /\ n # Genesis
        BY Zenon, <2>1, TreeAssumption, GenesisAssumption
    <2>3. /\ Height[n] <= Height[t] /\ Height[t] <= Height[a]
          /\ Height[n] = Height[a] + 1
          /\ Height[n] \in Nat /\ Height[a] \in Nat /\ Height[t] \in Nat
        BY Zenon, <1>4, <2>1, <2>2, PathAssumption, TreeAssumption
    <2> HIDE DEF G
    <2> QED
        BY <2>3
<1> QED
    BY Zenon, <1>3, <1>4

\* Every header of the index is below a leaf.
LEMMA LeafAbove ==
    ASSUME IndexInv, NEW h \in known
    PROVE  \E l \in Leaves : h \in Ancestors[l]
<1> DEFINE S == {d \in known : h \in Ancestors[d]}
           before == [d \in S |-> {c \in S \ {d} : d \in Ancestors[c]}]
<1>1. known \subseteq Blocks /\ S \in SUBSET Blocks /\ h \in S
    BY Zenon, TreeFacts DEF IndexInv
<1>2. IsFiniteSet(S)
    BY Zenon, <1>1, FiniteAssumption, FS_Subset
<1>3. ASSUME NEW d \in S, NEW c \in before[d]
      PROVE  before[c] \subseteq before[d] /\ c \notin before[c]
    <2>1. c \in S \ {d} /\ d \in Ancestors[c]
        BY Zenon
    <2>2. ASSUME NEW e \in before[c]
          PROVE  e \in before[d]
        <3>1. e \in S \ {c} /\ c \in Ancestors[e]
            BY Zenon, <2>1
        <3>2. d \in Ancestors[e]
            BY Zenon, <1>1, <2>1, <3>1, PathAssumption
        <3>3. e # d
            BY Zenon, <1>1, <2>1, <3>1, BranchFacts
        <3> QED
            BY Zenon, <3>1, <3>2, <3>3
    <2> QED
        BY Zenon, <2>1, <2>2
<1>4. PICK l \in S : before[l] = {}
    <2>1. before \in [S -> SUBSET S]
        BY Zenon
    <2> HIDE DEF before, S
    <2> QED
        BY Zenon, <1>1, <1>2, <1>3, <2>1, FirstElement
<1>5. ASSUME NEW c \in Children(l) \cap known
      PROVE  FALSE
    <2>1. c \in Blocks /\ Parent[c] = l /\ c # Genesis /\ l \in Blocks
        BY Zenon, <1>1, <1>5, GenesisAssumption DEF Children
    <2>2. Ancestors[c] = Ancestors[l] \cup {c} /\ l \in Ancestors[c]
        BY Zenon, <2>1, TreeFacts
    <2>3. c # l
        <3>1. Height[c] = Height[l] + 1 /\ Height[l] \in Nat
            BY Zenon, <2>1, TreeAssumption
        <3> QED
            BY <3>1
    <2>4. c \in before[l]
        BY Zenon, <1>4, <1>5, <2>2, <2>3
    <2> QED
        BY Zenon, <1>4, <2>4
<1> QED
    BY Zenon, <1>4, <1>5 DEF Leaves

\* A proper descendant is higher.
LEMMA DescendantHigher ==
    ASSUME NEW b \in Blocks, NEW a \in Ancestors[b], a # b
    PROVE  /\ Height[a] \in Nat /\ Height[b] \in Nat /\ Height[a] < Height[b]
           /\ a \in Blocks
<1>1. PICK n \in Ancestors[b] : Parent[n] = a
    BY Zenon, PathAssumption
<1>2. n \in Blocks /\ a \in Blocks /\ n # Genesis
    BY Zenon, <1>1, TreeAssumption, GenesisAssumption
<1>3. /\ Height[n] <= Height[b] /\ Height[n] = Height[a] + 1
      /\ Height[n] \in Nat /\ Height[a] \in Nat /\ Height[b] \in Nat
    BY Zenon, <1>1, <1>2, PathAssumption, TreeAssumption
<1> QED
    BY <1>2, <1>3

-----------------------------------------------------------------------------
\* The cache of tips.

\* The cache lists every tip from cachedTipsStart on.
TipsCached ==
    /\ cachedTipsStart \in Nat
    /\ \A t \in Leaves : Height[t] >= cachedTipsStart => t \in cachedTips

\* MarkBlockFailedValidation then comes by every tip above a block.
LEMMA TipsFound ==
    ASSUME IndexInv, TipsCached, NEW n \in known, NEW l \in Leaves,
           n \in Ancestors[l], l # n
    PROVE  l \in DescendantTips(n)
<1>1. l \in Blocks
    BY Zenon DEF Leaves, IndexInv
<1>2. Height[n] \in Nat /\ Height[l] \in Nat /\ Height[n] < Height[l]
    BY Zenon, <1>1, DescendantHigher
<1>3. Height[n] >= cachedTipsStart - 1 => Height[l] >= cachedTipsStart
    BY <1>2 DEF TipsCached
<1>4. Height[l] > Height[n]
    BY Zenon, <1>2
<1>5. l \in TipsAfterHeight(Leaves, cachedTips, cachedTipsStart, n)
    BY Zenon, <1>3, <1>4 DEF TipsAfterHeight, TipsCached
<1> QED
    BY Zenon, <1>5 DEF DescendantTips, IsAncestorOf

\* And by every block above it.
LEMMA DescendantsMarked ==
    ASSUME IndexInv, TipsCached, NEW n \in known, NEW b \in known,
           n \in Ancestors[b], b # n
    PROVE  b \in Between(n, DescendantTips(n))
<1>1. PICK l \in Leaves : b \in Ancestors[l]
    BY Zenon, LeafAbove
<1>2. l \in Blocks /\ n \in Blocks /\ b \in Blocks
    BY Zenon DEF Leaves, IndexInv
<1>3. n \in Ancestors[l]
    BY Zenon, <1>1, <1>2, PathAssumption
<1>4. l # n
    BY Zenon, <1>1, <1>2, BranchFacts
<1>5. l \in DescendantTips(n)
    BY Zenon, <1>3, <1>4, TipsFound
<1>6. b \in {c \in Ancestors[l] \ {n} : IsAncestorOf(n, c)}
    BY Zenon, <1>1 DEF IsAncestorOf
<1> QED
    BY Zenon, <1>5, <1>6 DEF Between

\* What it marks is above the block.
LEMMA MarkedAbove ==
    ASSUME IndexInv, NEW n \in known, NEW b \in Between(n, DescendantTips(n))
    PROVE  /\ b \in known \ {n} /\ n \in Ancestors[b]
           /\ b # Genesis
           /\ \E t \in DescendantTips(n) : b \in Ancestors[t]
<1>1. b \in known
    BY Zenon, BetweenKnown
<1>2. /\ b # n /\ n \in Ancestors[b]
      /\ \E t \in DescendantTips(n) : b \in Ancestors[t]
    BY Zenon DEF Between, IsAncestorOf
<1>3. b # Genesis
    BY Zenon, <1>2, AncestorAssumption
<1> QED
    BY Zenon, <1>1, <1>2, <1>3

\* A new header is a new tip in place of its parent.
LEMMA CachedAfterAdd ==
    ASSUME IndexInv, TipsCached, NEW b \in Blocks, HeaderAcceptable(b), AddNode(b)
    PROVE  TipsCached'
<1>1. /\ known' = known \cup {b} /\ b \notin known /\ Parent[b] \in known
      /\ cachedTips' = (cachedTips \cup {b}) \ {Parent[b]}
      /\ cachedTipsStart' = cachedTipsStart
    BY Zenon DEF AddNode, HeaderAcceptable
<1>2. b \in Children(Parent[b]) /\ b # Parent[b]
    BY Zenon, <1>1 DEF Children
<1>3. ASSUME NEW t \in Leaves'
      PROVE  t # Parent[b] /\ (t = b \/ t \in Leaves)
    <2>1. t \in known' /\ Children(t) \cap known' = {}
        BY Zenon DEF Leaves
    <2> QED
        BY Zenon, <1>1, <1>2, <2>1 DEF Leaves
<1> QED
    BY Zenon, <1>1, <1>3 DEF TipsCached

\* A prune that does not go down keeps every tip from its height on.
LEMMA CachedAfterPrune ==
    ASSUME IndexInv, TipsCached, NEW b \in Blocks, known' = known,
           cachedTips' = PrunedTips(cachedTips, b),
           cachedTipsStart' = PrunedStart(cachedTipsStart, b),
           cachedTipsStart' >= cachedTipsStart
    PROVE  TipsCached'
<1>1. Height[b] \in Nat /\ PruneHeight(b) \in Int
    BY PruneDepthAssumption, TreeAssumption DEF PruneHeight
<1>2. cachedTipsStart \in Nat /\ cachedTipsStart' \in Nat
    BY <1>1 DEF TipsCached, PrunedStart
<1>3. Leaves' = Leaves
    BY Zenon DEF Leaves
<1>4. ASSUME NEW t \in Leaves, Height[t] >= cachedTipsStart'
      PROVE  t \in cachedTips'
    <2>1. Height[t] \in Nat
        BY Zenon, TreeAssumption DEF Leaves, IndexInv
    <2>2. Height[t] >= cachedTipsStart
        BY <1>2, <1>4, <2>1
    <2>3. t \in cachedTips
        BY Zenon, <2>2 DEF TipsCached
    <2> QED
        BY Zenon, <1>4, <2>3 DEF PrunedTips, PrunedStart
<1> QED
    BY Zenon, <1>2, <1>3, <1>4 DEF TipsCached

\* A start finds the tips of the stored index.
LEMMA CachedAfterLoad ==
    ASSUME NEW d, NEW unmark, LoadChainState(d, unmark), d.tip \in Blocks
    PROVE  TipsCached'
<1> DEFINE tips == {b \in d.known : Children(b) \cap d.known = {}}
<1>1. /\ known' = d.known
      /\ cachedTips' = PrunedTips(tips, d.tip)
      /\ cachedTipsStart' = PrunedStart(0, d.tip)
    BY Zenon DEF LoadChainState
<1>2. Leaves' = tips
    BY Zenon, <1>1 DEF Leaves
<1>3. Height[d.tip] \in Nat /\ PruneHeight(d.tip) \in Int
    BY PruneDepthAssumption, TreeAssumption DEF PruneHeight
<1> HIDE DEF tips
<1>4. cachedTipsStart' \in Nat
    BY <1>1, <1>3 DEF PrunedStart
<1>5. \A t \in tips : Height[t] >= cachedTipsStart' => t \in cachedTips'
    BY Zenon, <1>1 DEF PrunedTips, PrunedStart
<1> QED
    BY Zenon, <1>2, <1>4, <1>5 DEF TipsCached

-----------------------------------------------------------------------------
\* The best header.

\* The running operation marks no block of the best chain, and the order in
\* which blocks are linked is kept in numbers.
Operated ==
    /\ pc = "data" => node \notin data
    /\ linkedNodes \in Seq(Blocks \ {Genesis})
    /\ op = "invalidate" => node # Genesis
    /\ order \in [Blocks -> Nat]
    /\ nextOrder \in Nat

\* Known headers other than the genesis block carry the failure flags, in memory
\* and on disk.
FlagsPlaced ==
    /\ KnownInvalid \subseteq known \ {Genesis}
    /\ disk.failed \cup disk.invalidAnc \subseteq disk.known \ {Genesis}

HeadInv == Operated /\ FlagsPlaced /\ TipsCached /\ BestHeaderHasMostWork

\* What a step does to headers, failure flags, best header and cache of tips.
LEMMA IndexChanges ==
    ASSUME ChainInv, Operated, Next
    PROVE  \/ UNCHANGED <<known, failed, invalidAnc, bestVars, tipVars>>
           \/ \E b \in Blocks : HeaderAcceptable(b) /\ AddNode(b)
           \/ \E n \in known \ {Genesis} : MarkBlockFailedValidation(n)
           \/ /\ UNCHANGED <<known, failed, invalidAnc, bestVars>>
              /\ \E b \in Blocks : /\ cachedTips' = PrunedTips(cachedTips, b)
                                   /\ cachedTipsStart' = PrunedStart(cachedTipsStart, b)
           \/ \E b \in known : ReconsiderStatuses(b, tip)
           \/ Restart
<1> USE DEF ChainInv
<1>0. Genesis \in data /\ tip \in Blocks /\ Genesis \in Ancestors[tip]
    BY Zenon, PathAssumption DEF OperationInv, Complete
<1>1. CASE Begin
    <2>1. ASSUME NEW b \in Blocks, ProcessBlockHeader(b)
          PROVE  \/ UNCHANGED <<known, failed, invalidAnc, bestVars, tipVars>>
                 \/ HeaderAcceptable(b) /\ AddNode(b)
        BY Zenon, <2>1 DEF ProcessBlockHeader, statusVars
    <2>2. ASSUME NEW b \in Blocks, ProcessBlock(b)
          PROVE  \/ UNCHANGED <<known, failed, invalidAnc, bestVars, tipVars>>
                 \/ HeaderAcceptable(b) /\ AddNode(b)
        BY Zenon, <2>2 DEF ProcessBlock, indexVars, statusVars
    <2>3. ASSUME NEW b \in Blocks, ForceHeadReorganization(b) \/ InvalidateMainBlock(b)
          PROVE  UNCHANGED <<known, failed, invalidAnc, bestVars, tipVars>>
        BY Zenon, <2>3 DEF ForceHeadReorganization, InvalidateMainBlock, indexVars,
                          statusVars
    <2>4. ASSUME NEW b \in Blocks, InvalidateSideBlock(b)
          PROVE  b \in known \ {Genesis} /\ MarkBlockFailedValidation(b)
        BY Zenon, <1>0, <2>4 DEF InvalidateSideBlock, IsAncestorOf
    <2>5. ASSUME NEW b \in Blocks, ReconsiderBlock(b)
          PROVE  b \in known /\ ReconsiderStatuses(b, tip)
        BY Zenon, <2>5 DEF ReconsiderBlock
    <2> QED
        BY Zenon, <1>1, <2>1, <2>2, <2>3, <2>4, <2>5 DEF Begin
<1>2. CASE Step
    <2>1. CASE \/ RejectBlockData \/ AcceptDone \/ SelectTarget \/ ReorgDone
               \/ Retarget \/ ReturnToProcessBlock \/ Announce
        BY Zenon, <2>1 DEF RejectBlockData, AcceptDone, SelectTarget, ReorgDone,
           Retarget, ReturnToProcessBlock, Announce, indexVars, statusVars
    <2>2. CASE \/ FlushLinked \/ DisconnectBlock \/ ValidateBlock
               \/ ReturnAndFlush \/ RepopulateCandidates
        BY Zenon, <2>2 DEF FlushLinked, DisconnectBlock, ValidateBlock, ReturnAndFlush,
           RepopulateCandidates, statusVars
    <2>3. CASE AcceptBlockData \/ LinkBlockData
        BY Zenon, <2>3 DEF AcceptBlockData, LinkBlockData, LinkNode, statusVars
    <2>4. CASE FailBlockData \/ ReturnToInvalidate
        BY Zenon, <1>0, <2>4 DEF FailBlockData, ReturnToInvalidate, OperationInv, Operated
    <2>5. CASE AcceptBlock
        <3>1. linkedNodes[pos] \in known \ {Genesis}
            <4>1. /\ pos <= Len(linkedNodes) /\ pos \in Nat \ {0}
                  /\ linkedNodes \in Seq(Complete)
                  /\ linkedNodes \in Seq(Blocks \ {Genesis})
                BY Zenon, <2>5 DEF AcceptBlock, OperationInv, Operated
            <4>2. linkedNodes[pos] \in Complete /\ linkedNodes[pos] \in Blocks \ {Genesis}
                BY Zenon, <4>1, SeqElement
            <4> QED
                BY Zenon, <4>2, TreeFacts DEF Complete, IndexInv
        <3> QED
            BY Zenon, <2>5, <3>1 DEF AcceptBlock, indexVars, statusVars
    <2>6. CASE ConnectFails
        <3>1. NextBlock \in known \ {Genesis}
            BY Zenon, <1>0, <2>6, NextBlockFacts, GenesisAssumption DEF ConnectFails
        <3> QED
            BY Zenon, <2>6, <3>1 DEF ConnectFails, indexVars, statusVars
    <2>7. CASE ConnectBlock
        <3>1. NextBlock \in Blocks
            BY Zenon, <2>7, NextBlockFacts DEF ConnectBlock, IndexInv
        <3> QED
            BY Zenon, <2>7, <3>1 DEF ConnectBlock, statusVars
    <2>8. CASE ReturnToReconsider
        BY Zenon, <1>0, <2>8 DEF ReturnToReconsider, statusVars
    <2> QED
        BY Zenon, <1>2, <2>1, <2>2, <2>3, <2>4, <2>5, <2>6, <2>7, <2>8 DEF Step
<1> QED
    BY Zenon, <1>1, <1>2 DEF Next

\* What a step does to the database.
LEMMA DiskChanges ==
    ASSUME Next
    PROVE  \/ disk' = disk
           \/ \E M, best : FlushAndPutBestState(M, best)
           \/ Restart
<1>1. CASE Begin
    BY Zenon, <1>1 DEF Begin, ProcessBlockHeader, ProcessBlock, ForceHeadReorganization,
       InvalidateMainBlock, InvalidateSideBlock, ReconsiderBlock, FlushBlockIndex
<1>2. CASE Step
    <2>1. CASE \/ RejectBlockData \/ FailBlockData \/ LinkBlockData \/ AcceptBlock
               \/ AcceptDone \/ SelectTarget \/ ReorgDone \/ ValidateBlock
               \/ ConnectFails \/ Retarget \/ ReturnToProcessBlock \/ Announce
               \/ ReturnToInvalidate \/ RepopulateCandidates
        BY Zenon, <2>1 DEF RejectBlockData, FailBlockData, LinkBlockData, AcceptBlock,
           AcceptDone, SelectTarget, ReorgDone, ValidateBlock, ConnectFails, Retarget,
           ReturnToProcessBlock, Announce, ReturnToInvalidate, RepopulateCandidates
    <2>2. CASE \/ AcceptBlockData \/ FlushLinked \/ DisconnectBlock \/ ConnectBlock
               \/ ReturnAndFlush \/ ReturnToReconsider
        BY Zenon, <2>2 DEF AcceptBlockData, FlushLinked, DisconnectBlock, ConnectBlock,
           ReturnAndFlush, ReturnToReconsider, FlushBlockIndex
    <2> QED
        BY Zenon, <1>2, <2>1, <2>2 DEF Step
<1> QED
    BY Zenon, <1>1, <1>2 DEF Next

\* A step that links nothing, and keeps the running operation or ends it.
LEMMA OperatedKept ==
    ASSUME Operated, UNCHANGED <<order, nextOrder>>,
           \/ Idle
           \/ /\ pc' # "data" \/ UNCHANGED <<pc, node, data>>
              /\ op' = "invalidate" => node' # Genesis
              /\ linkedNodes' = linkedNodes
    PROVE  Operated'
<1>1. CASE Idle
    <2>1. linkedNodes' \in Seq(Blocks \ {Genesis})
        BY Zenon, <1>1, EmptySeq DEF Idle
    <2>2. pc' # "data" /\ op' # "invalidate"
        BY Zenon, <1>1 DEF Idle
    <2> QED
        BY Zenon, <2>1, <2>2 DEF Operated
<1>2. CASE /\ pc' # "data" \/ UNCHANGED <<pc, node, data>>
           /\ op' = "invalidate" => node' # Genesis
           /\ linkedNodes' = linkedNodes
    BY Zenon, <1>2 DEF Operated
<1> QED
    BY Zenon, <1>1, <1>2

LEMMA OperatedNext ==
    ASSUME ChainInv, Operated, [Next]_vars
    PROVE  Operated'
<1> USE DEF ChainInv
<1>0. Genesis \in data /\ tip \in Blocks
    BY Zenon, PathAssumption DEF OperationInv, Complete
<1>1. CASE Begin
    <2>1. ASSUME NEW b \in Blocks, ProcessBlockHeader(b) \/ InvalidateSideBlock(b)
          PROVE  Operated'
        <3>1. UNCHANGED <<order, nextOrder, data, pc, opVars>>
            BY Zenon, <2>1 DEF ProcessBlockHeader, InvalidateSideBlock, AddNode,
               MarkBlockFailedValidation, statusVars, linkVars
        <3> QED
            BY Zenon, <3>1, OperatedKept DEF opVars, Operated
    <2>2. ASSUME NEW b \in Blocks, ProcessBlock(b)
          PROVE  Operated'
        <3>1. UNCHANGED <<order, nextOrder, data, linkedNodes>>
            BY Zenon, <2>2 DEF ProcessBlock, AddNode, Start, indexVars, statusVars,
               linkVars
        <3>2. node' = b /\ b \notin data /\ op' = "block"
            BY Zenon, <2>2 DEF ProcessBlock, Start
        <3> QED
            BY Zenon, <3>1, <3>2 DEF Operated
    <2>3. ASSUME NEW b \in Blocks,
                 \/ ForceHeadReorganization(b) \/ InvalidateMainBlock(b)
                 \/ ReconsiderBlock(b)
          PROVE  Operated'
        <3>1. UNCHANGED <<order, nextOrder, linkedNodes>>
            BY Zenon, <2>3 DEF ForceHeadReorganization, InvalidateMainBlock,
               ReconsiderBlock, ReconsiderStatuses, Start, indexVars, linkVars
        <3>2. pc' # "data" /\ (op' = "invalidate" => node' # Genesis)
            BY Zenon, <2>3 DEF ForceHeadReorganization, InvalidateMainBlock,
               ReconsiderBlock, Start
        <3> QED
            BY Zenon, <3>1, <3>2, OperatedKept
    <2> QED
        BY Zenon, <1>1, <2>1, <2>2, <2>3 DEF Begin
<1>2. CASE Step
    <2>1. CASE RejectBlockData \/ FailBlockData \/ Announce \/ ReturnAndFlush
                   \/ ReturnToReconsider
        <3>1. UNCHANGED <<order, nextOrder>> /\ Idle
            BY Zenon, <2>1 DEF RejectBlockData, FailBlockData, Announce, ReturnAndFlush,
               ReturnToReconsider, MarkBlockFailedValidation, indexVars, linkVars
        <3> QED
            BY Zenon, <3>1, OperatedKept
    <2>2. CASE FlushLinked \/ AcceptDone \/ SelectTarget \/ ReorgDone \/ Retarget
                   \/ ReturnToProcessBlock \/ RepopulateCandidates
        <3>1. UNCHANGED <<order, nextOrder, op, node, linkedNodes>> /\ pc' # "data"
            BY Zenon, <2>2 DEF FlushLinked, AcceptDone, SelectTarget, ReorgDone, Retarget,
               ReturnToProcessBlock, RepopulateCandidates, Goto, opVars, indexVars,
               linkVars
        <3> QED
            BY Zenon, <3>1, OperatedKept DEF Operated
    <2>3. CASE DisconnectBlock \/ ValidateBlock \/ ConnectBlock \/ ConnectFails
        <3>1. UNCHANGED <<order, nextOrder, op, node, linkedNodes>> /\ pc' # "data"
            BY Zenon, <2>3 DEF DisconnectBlock, ValidateBlock, ConnectBlock, ConnectFails,
               Reorganizing, MarkBlockFailedValidation, Goto, opVars, indexVars, linkVars
        <3> QED
            BY Zenon, <3>1, OperatedKept DEF Operated
    <2>4. CASE AcceptBlock \/ ReturnToInvalidate
        <3>1. /\ UNCHANGED <<order, nextOrder, node, linkedNodes>> /\ pc' # "data"
              /\ op' \in {op, "rollforward"}
            BY Zenon, <2>4 DEF AcceptBlock, ReturnToInvalidate,
               MarkBlockFailedValidation, indexVars, linkVars
        <3> QED
            BY Zenon, <3>1, OperatedKept DEF Operated
    <2>5. CASE AcceptBlockData
        <3>1. /\ UNCHANGED <<order, nextOrder, op, node>> /\ pc' # "data"
              /\ linkedNodes' = <<node>> \/ linkedNodes' = linkedNodes
              /\ pc = "data"
            BY Zenon, <2>5 DEF AcceptBlockData
        <3>2. node \in Blocks \ {Genesis}
            BY Zenon, <1>0, <3>1 DEF Operated, OperationInv, IndexInv
        <3>3. <<node>> \in Seq(Blocks \ {Genesis})
            BY <3>2
        <3> QED
            BY Zenon, <3>1, <3>3 DEF Operated
    <2>6. CASE LinkBlockData
        <3> DEFINE n == linkedNodes[pos]
                   W == WaitingChildren(n)
        <3>1. n \in Blocks
            <4>1. pos <= Len(linkedNodes) /\ pos \in Nat \ {0}
                  /\ linkedNodes \in Seq(Blocks \ {Genesis})
                BY Zenon, <2>6 DEF LinkBlockData, Operated, OperationInv
            <4> QED
                BY Zenon, <4>1, SeqElement
        <3>2. /\ order' = [order EXCEPT ![n] = nextOrder] /\ nextOrder' = nextOrder + 1
              /\ UNCHANGED <<pc, op, node, data>>
              /\ \E s \in Orderings(W) : linkedNodes' = linkedNodes \o s
            BY Zenon, <2>6 DEF LinkBlockData, LinkNode, statusVars
        <3>3. W \subseteq Blocks \ {Genesis}
            BY Zenon, <3>1, GenesisAssumption DEF WaitingChildren, Children
        <3>4. PICK s \in Orderings(W) : linkedNodes' = linkedNodes \o s
            BY Zenon, <3>2
        <3>5. s \in Seq(Blocks \ {Genesis})
            <4>1. IsFiniteSet(W)
                BY Zenon, <3>3, FiniteAssumption, FS_Subset
            <4>2. Cardinality(W) \in Nat
                BY Zenon, <4>1, FS_CardinalityType
            <4>3. s \in [1..Cardinality(W) -> W]
                BY Zenon, <3>4 DEF Orderings
            <4>4. s \in Seq(W)
                BY <4>2, <4>3
            <4> QED
                BY Zenon, <3>3, <4>4, SeqGrows
        <3> HIDE DEF n, W
        <3>6. linkedNodes' \in Seq(Blocks \ {Genesis})
            BY <3>4, <3>5 DEF Operated
        <3>7. order' \in [Blocks -> Nat] /\ nextOrder' \in Nat
            BY <3>1, <3>2 DEF Operated
        <3> QED
            BY Zenon, <3>2, <3>6, <3>7 DEF Operated
    <2> QED
        BY Zenon, <1>2, <2>1, <2>2, <2>3, <2>4, <2>5, <2>6 DEF Step
<1>3. CASE Restart
    <2>1. order' = [b \in Blocks |-> 0] /\ nextOrder' = 1
        BY Zenon, <1>3 DEF Restart, LoadChainState
    <2>2. linkedNodes' = << >> /\ pc' = "idle" /\ op' = "none"
        BY Zenon, <1>3 DEF Restart, Idle
    <2> QED
        BY <2>1, <2>2 DEF Operated
<1>4. CASE UNCHANGED vars
    <2>1. UNCHANGED <<order, nextOrder, pc, op, node, data, linkedNodes>>
        BY Zenon, <1>4 DEF vars, opVars, indexVars, statusVars, linkVars
    <2> QED
        BY Zenon, <2>1 DEF Operated
<1> QED
    BY Zenon, <1>1, <1>2, <1>3, <1>4 DEF Next

\* MarkBlockFailedValidation on a block: what becomes invalid is the block and
\* what it comes by above it.
LEMMA MarkFlags ==
    ASSUME IndexInv, NEW n \in known \ {Genesis}, MarkBlockFailedValidation(n),
           KnownInvalid \subseteq known \ {Genesis}
    PROVE  /\ KnownInvalid' = KnownInvalid \cup {n} \cup Between(n, DescendantTips(n))
           /\ KnownInvalid' \subseteq known \ {Genesis}
           /\ UNCHANGED <<known, data, order, tipVars>>
<1>1. /\ failed' = failed \cup {n} /\ invalidAnc' = invalidAnc \cup NewlyInvalid(n)
      /\ UNCHANGED <<known, data, order, tipVars>>
    BY Zenon DEF MarkBlockFailedValidation
<1>2. KnownInvalid' = KnownInvalid \cup {n} \cup Between(n, DescendantTips(n))
    BY Zenon, <1>1 DEF KnownInvalid, NewlyInvalid
<1>3. Between(n, DescendantTips(n)) \subseteq known \ {Genesis}
    BY Zenon, MarkedAbove
<1> QED
    BY Zenon, <1>1, <1>2, <1>3

\* ReconsiderBlock makes nothing invalid.
LEMMA ReconsiderFlags ==
    ASSUME NEW b, ReconsiderStatuses(b, tip)
    PROVE  /\ KnownInvalid' \subseteq KnownInvalid
           /\ UNCHANGED <<known, data, order, tipVars>>
<1>1. failed' \subseteq failed /\ invalidAnc' \subseteq invalidAnc
    BY Zenon DEF ReconsiderStatuses
<1> QED
    BY Zenon, <1>1 DEF ReconsiderStatuses, KnownInvalid

\* Whatever a crash leaves behind.
LEMMA StoredFlags ==
    ASSUME FlagsPlaced, NEW d \in Stored
    PROVE  d.failed \cup d.invalidAnc \subseteq d.known \ {Genesis}
<1>1. CASE d = disk
    BY Zenon, <1>1 DEF FlagsPlaced
<1>2. CASE d = Written(modified, disk.tip, data, validated, failed, invalidAnc)
    <2>1. /\ d.known = disk.known \cup modified
          /\ d.failed = (disk.failed \ modified) \cup (failed \cap modified)
          /\ d.invalidAnc = (disk.invalidAnc \ modified) \cup (invalidAnc \cap modified)
        BY Zenon, <1>2 DEF Written
    <2>2. Genesis \notin d.failed \cup d.invalidAnc
        BY Zenon, <2>1 DEF FlagsPlaced, KnownInvalid
    <2> QED
        BY Zenon, <2>1, <2>2 DEF FlagsPlaced
<1> QED
    BY Zenon, <1>1, <1>2 DEF Stored

LEMMA FlagsPlacedNext ==
    ASSUME ChainInv, Operated, FlagsPlaced, Next
    PROVE  FlagsPlaced'
<1>1. CASE Restart
    <2>1. PICK d \in Stored, u \in {{}, NewRulesBlocks} : LoadChainState(d, u)
        BY Zenon, <1>1 DEF Restart
    <2>2. /\ known' = d.known /\ disk' = d
          /\ failed' = d.failed \ u /\ invalidAnc' = d.invalidAnc \ u
        BY Zenon, <2>1 DEF LoadChainState
    <2>3. d.failed \cup d.invalidAnc \subseteq d.known \ {Genesis}
        BY Zenon, <2>1, StoredFlags
    <2> QED
        BY Zenon, <2>2, <2>3 DEF FlagsPlaced, KnownInvalid
<1>2. CASE ~Restart
    <2>1. KnownInvalid' \subseteq known' \ {Genesis}
        <3>1. CASE UNCHANGED <<known, failed, invalidAnc>>
            BY Zenon, <3>1 DEF FlagsPlaced, KnownInvalid
        <3>2. ASSUME NEW b \in Blocks, HeaderAcceptable(b), AddNode(b)
              PROVE  KnownInvalid' \subseteq known' \ {Genesis}
            <4>1. known' = known \cup {b} /\ UNCHANGED <<failed, invalidAnc>>
                BY Zenon, <3>2 DEF AddNode, statusVars
            <4> QED
                BY Zenon, <4>1 DEF FlagsPlaced, KnownInvalid
        <3>3. ASSUME NEW n \in known \ {Genesis}, MarkBlockFailedValidation(n)
              PROVE  KnownInvalid' \subseteq known' \ {Genesis}
            BY Zenon, <3>3, MarkFlags DEF ChainInv, FlagsPlaced
        <3>4. ASSUME NEW b \in known, ReconsiderStatuses(b, tip)
              PROVE  KnownInvalid' \subseteq known' \ {Genesis}
            BY Zenon, <3>4, ReconsiderFlags DEF FlagsPlaced
        <3> QED
            BY Zenon, <1>2, <3>1, <3>2, <3>3, <3>4, IndexChanges
    <2>2. CASE disk' = disk
        BY Zenon, <2>1, <2>2 DEF FlagsPlaced
    <2>3. ASSUME NEW M, NEW best, FlushAndPutBestState(M, best)
          PROVE  FlagsPlaced'
        <3>1. /\ disk'.known = disk.known \cup M
              /\ disk'.failed = (disk.failed \ M) \cup (failed' \cap M)
              /\ disk'.invalidAnc = (disk.invalidAnc \ M) \cup (invalidAnc' \cap M)
            BY Zenon, <2>3 DEF FlushAndPutBestState, Written
        <3>2. Genesis \notin disk'.failed \cup disk'.invalidAnc
            BY Zenon, <2>1, <3>1 DEF FlagsPlaced, KnownInvalid
        <3>3. disk'.failed \cup disk'.invalidAnc \subseteq disk'.known
            BY Zenon, <3>1 DEF FlagsPlaced
        <3> QED
            BY Zenon, <2>1, <3>2, <3>3 DEF FlagsPlaced
    <2> QED
        BY Zenon, <1>2, <2>2, <2>3, DiskChanges
<1> QED
    BY Zenon, <1>1, <1>2

LEMMA TipsCachedNext ==
    ASSUME ChainInv, Operated, TipsCached, Next,
           Restart \/ cachedTipsStart' >= cachedTipsStart
    PROVE  TipsCached'
<1>1. CASE Restart
    <2>1. PICK d \in Stored, u \in {{}, NewRulesBlocks} : LoadChainState(d, u)
        BY Zenon, <1>1 DEF Restart
    <2>2. d.tip \in Blocks
        BY Zenon, <2>1, StoredFacts
    <2> QED
        BY Zenon, <2>1, <2>2, CachedAfterLoad
<1>2. CASE ~Restart
    <2>1. ASSUME UNCHANGED <<known, tipVars>>
          PROVE  TipsCached'
        BY Zenon, <2>1 DEF TipsCached, Leaves, tipVars
    <2>2. ASSUME NEW n \in known \ {Genesis}, MarkBlockFailedValidation(n)
          PROVE  TipsCached'
        BY Zenon, <2>1, <2>2 DEF MarkBlockFailedValidation
    <2>3. ASSUME NEW b \in known, ReconsiderStatuses(b, tip)
          PROVE  TipsCached'
        BY Zenon, <2>1, <2>3 DEF ReconsiderStatuses
    <2>4. ASSUME NEW b \in Blocks, HeaderAcceptable(b), AddNode(b)
          PROVE  TipsCached'
        BY Zenon, <2>4, CachedAfterAdd DEF ChainInv
    <2>5. ASSUME known' = known, NEW b \in Blocks,
                 cachedTips' = PrunedTips(cachedTips, b),
                 cachedTipsStart' = PrunedStart(cachedTipsStart, b)
          PROVE  TipsCached'
        BY Zenon, <1>2, <2>5, CachedAfterPrune DEF ChainInv
    <2> QED
        BY Zenon, <1>2, <2>1, <2>2, <2>3, <2>4, <2>5, IndexChanges
<1> QED
    BY Zenon, <1>1, <1>2

\* The best header after each of the changes.
LEMMA BestHeaderNext ==
    ASSUME ChainInv, HeadInv, Next
    PROVE  BestHeaderHasMostWork'
<1> USE DEF HeadInv, ChainInv
<1>1. /\ bestHeader \in known \ KnownInvalid /\ known \subseteq Blocks
      /\ \A h \in known \ KnownInvalid : WorkSum[h] <= WorkSum[bestHeader]
      /\ \A h \in Blocks : WorkSum[h] \in Nat
      /\ KnownInvalid \subseteq known \ {Genesis} /\ Genesis \in known
      /\ order \in [Blocks -> Nat]
    BY Zenon, TreeAssumption
    DEF BestHeaderHasMostWork, IndexInv, FlagsPlaced, Operated
<1>2. CASE UNCHANGED <<known, failed, invalidAnc, bestVars>>
    BY Zenon, <1>1, <1>2 DEF BestHeaderHasMostWork, KnownInvalid, bestVars
<1>3. ASSUME NEW b \in Blocks, HeaderAcceptable(b), AddNode(b)
      PROVE  BestHeaderHasMostWork'
    <2>1. /\ known' = known \cup {b} /\ UNCHANGED <<failed, invalidAnc>>
          /\ bestHeader' = IF BetterCandidate(b, bestHeader, data, order)
                           THEN b ELSE bestHeader
          /\ b \notin KnownInvalid
        BY Zenon, <1>1, <1>3 DEF AddNode, HeaderAcceptable, statusVars
    <2>2. KnownInvalid' = KnownInvalid
        BY Zenon, <2>1 DEF KnownInvalid
    <2>3. WorkSum[b] \in Nat /\ WorkSum[bestHeader] \in Nat
        BY Zenon, <1>1
    <2>4. CASE BetterCandidate(b, bestHeader, data, order)
        <3>1. WorkSum[bestHeader] <= WorkSum[b]
            BY <2>3, <2>4 DEF BetterCandidate
        <3>2. ASSUME NEW h \in known \ KnownInvalid
              PROVE  WorkSum[h] <= WorkSum[b]
            <4>1. WorkSum[h] <= WorkSum[bestHeader] /\ WorkSum[h] \in Nat
                BY Zenon, <1>1
            <4> QED
                BY <2>3, <3>1, <4>1
        <3>3. bestHeader' = b /\ WorkSum[b] <= WorkSum[b]
            BY <2>1, <2>3, <2>4
        <3> QED
            BY Zenon, <2>1, <2>2, <3>2, <3>3 DEF BestHeaderHasMostWork
    <2>5. CASE ~BetterCandidate(b, bestHeader, data, order)
        <3>1. WorkSum[b] <= WorkSum[bestHeader]
            BY <2>3, <2>5 DEF BetterCandidate
        <3> QED
            BY Zenon, <1>1, <2>1, <2>2, <2>5, <3>1 DEF BestHeaderHasMostWork
    <2> QED
        BY Zenon, <2>4, <2>5
<1>4. ASSUME NEW n \in known \ {Genesis}, MarkBlockFailedValidation(n)
      PROVE  BestHeaderHasMostWork'
    <2> DEFINE S == HeadersBeside(n) \ KnownInvalid'
    <2>1. /\ KnownInvalid' = KnownInvalid \cup {n} \cup Between(n, DescendantTips(n))
          /\ KnownInvalid' \subseteq known \ {Genesis}
          /\ known' = known
        BY Zenon, <1>1, <1>4, MarkFlags
    <2>2. bestHeader' = IF bestHeader \in KnownInvalid' THEN BestOf(S, data, order)
                        ELSE bestHeader
        BY Zenon, <1>4 DEF MarkBlockFailedValidation, BestHeaderAfterMark, KnownInvalid
    <2>3. HeadersBeside(n) \subseteq known
        <3>1. \A t \in known : Ancestors[t] \subseteq known
            BY Zenon DEF IndexInv
        <3>2. \A l \in Leaves : Ancestors[l] \subseteq known
            BY Zenon, <3>1 DEF Leaves
        <3>3. Ancestors[n] \subseteq known
            BY Zenon, <3>1
        <3> QED
            BY Zenon, <3>2, <3>3 DEF HeadersBeside
    <2>4. known \ KnownInvalid' \subseteq S
        <3> SUFFICES ASSUME NEW h \in known \ KnownInvalid'
                     PROVE  h \in HeadersBeside(n)
            BY Zenon
        <3>1. PICK l \in Leaves : h \in Ancestors[l]
            BY Zenon, LeafAbove
        <3>2. CASE ~IsAncestorOf(n, l)
            BY Zenon, <3>1, <3>2 DEF HeadersBeside
        <3>3. CASE n \in Ancestors[l]
            <4>1. l \in Blocks
                BY Zenon, <1>1 DEF Leaves
            <4>2. h \in Ancestors[n] \/ n \in Ancestors[h]
                BY Zenon, <3>1, <3>3, <4>1, BranchFacts
            <4>3. h # n /\ h \notin Between(n, DescendantTips(n))
                BY Zenon, <2>1
            <4>4. h \in Ancestors[n]
                BY Zenon, <4>2, <4>3, DescendantsMarked
            <4> QED
                BY Zenon, <4>4 DEF HeadersBeside
        <3> QED
            BY Zenon, <3>2, <3>3 DEF IsAncestorOf
    <2>5. CASE bestHeader \in KnownInvalid'
        <3>1. Genesis \in known \ KnownInvalid'
            BY Zenon, <1>1, <2>1
        <3>2. S \in SUBSET Blocks /\ S # {}
            BY Zenon, <1>1, <2>3, <2>4, <3>1
        <3>3. S \subseteq known \ KnownInvalid'
            BY Zenon, <2>3
        <3> HIDE DEF S
        <3>4. /\ BestOf(S, data, order) \in S
              /\ \A h \in S : WorkSum[h] <= WorkSum[BestOf(S, data, order)]
            BY Zenon, <1>1, <3>2, BestOfIsBest
        <3>5. bestHeader' = BestOf(S, data, order)
            BY Zenon, <2>2, <2>5
        <3> QED
            BY Zenon, <2>1, <2>4, <3>3, <3>4, <3>5 DEF BestHeaderHasMostWork
    <2>6. CASE bestHeader \notin KnownInvalid'
        <3>1. bestHeader' = bestHeader /\ KnownInvalid \subseteq KnownInvalid'
            BY Zenon, <2>1, <2>2, <2>6
        <3> QED
            BY Zenon, <1>1, <2>1, <2>6, <3>1 DEF BestHeaderHasMostWork
    <2> QED
        BY Zenon, <2>5, <2>6
<1>5. ASSUME NEW b \in known, ReconsiderStatuses(b, tip)
      PROVE  BestHeaderHasMostWork'
    <2> DEFINE S == known \ KnownInvalid'
    <2>1. KnownInvalid' \subseteq KnownInvalid /\ known' = known
        BY Zenon, <1>5, ReconsiderFlags
    <2>2. bestHeader' = BestOf(S \cup {bestHeader}, data, order)
        BY Zenon, <1>5 DEF ReconsiderStatuses, KnownInvalid
    <2>3. bestHeader \in S /\ S \cup {bestHeader} = S
        BY Zenon, <1>1, <2>1
    <2>4. S \in SUBSET Blocks /\ S # {}
        BY Zenon, <1>1, <2>3
    <2>5. S = known' \ KnownInvalid'
        BY Zenon, <2>1
    <2> HIDE DEF S
    <2>6. /\ BestOf(S, data, order) \in S
          /\ \A h \in S : WorkSum[h] <= WorkSum[BestOf(S, data, order)]
        BY Zenon, <1>1, <2>4, BestOfIsBest
    <2>7. bestHeader' = BestOf(S, data, order)
        BY Zenon, <2>2, <2>3
    <2> QED
        BY Zenon, <2>5, <2>6, <2>7 DEF BestHeaderHasMostWork
<1>6. CASE Restart
    <2>1. PICK d \in Stored, u \in {{}, NewRulesBlocks} : LoadChainState(d, u)
        BY Zenon, <1>6 DEF Restart
    <2> DEFINE S == known' \ KnownInvalid'
               ord == [b \in Blocks |-> 0]
    <2>2. /\ known' = d.known
          /\ failed' = d.failed \ u /\ invalidAnc' = d.invalidAnc \ u
          /\ bestHeader' = LoadedBestHeader(d, (d.failed \ u) \cup (d.invalidAnc \ u))
        BY Zenon, <2>1 DEF LoadChainState
    <2>3. bestHeader' = BestOf(S, d.data, ord)
        BY Zenon, <2>2 DEF LoadedBestHeader, KnownInvalid
    <2>4. Genesis \notin KnownInvalid' /\ Genesis \in known' /\ known' \subseteq Blocks
        <3>1. FlagsPlaced'
            BY Zenon, FlagsPlacedNext
        <3>2. Genesis \in d.known /\ d.known \subseteq Blocks
            BY Zenon, <2>1, StoredFacts
        <3> QED
            BY Zenon, <2>2, <3>1, <3>2 DEF FlagsPlaced
    <2>5. S \in SUBSET Blocks /\ S # {}
        BY Zenon, <2>4
    <2>6. ord \in [Blocks -> Nat]
        OBVIOUS
    <2> HIDE DEF S, ord
    <2>7. /\ BestOf(S, d.data, ord) \in S
          /\ \A h \in S : WorkSum[h] <= WorkSum[BestOf(S, d.data, ord)]
        BY Zenon, <2>5, <2>6, BestOfIsBest
    <2> QED
        BY Zenon, <2>3, <2>7 DEF BestHeaderHasMostWork, S
<1> QED
    BY Zenon, <1>2, <1>3, <1>4, <1>5, <1>6, IndexChanges

LEMMA HeadInit ==
    ASSUME Init
    PROVE  HeadInv
<1>1. Operated
    <2>1. pc = "idle" /\ op = "none" /\ linkedNodes = << >>
          /\ order = [b \in Blocks |-> 0] /\ nextOrder = 1
        BY Zenon DEF Init, IndexInit, NoOperation
    <2> QED
        BY <2>1 DEF Operated
<1>2. FlagsPlaced
    BY Zenon DEF Init, IndexInit, FlagsPlaced, KnownInvalid
<1>3. TipsCached
    <2>1. cachedTipsStart = 0 /\ known = {Genesis} /\ cachedTips = {Genesis}
        BY Zenon DEF Init, IndexInit
    <2>2. cachedTipsStart \in Nat
        BY Zenon, <2>1
    <2> QED
        BY Zenon, <2>1, <2>2 DEF TipsCached, Leaves
<1>4. BestHeaderHasMostWork
    <2>1. WorkSum[Genesis] <= WorkSum[Genesis]
        BY TreeAssumption, GenesisAssumption
    <2> QED
        BY Zenon, <2>1 DEF Init, IndexInit, BestHeaderHasMostWork, KnownInvalid
<1> QED
    BY Zenon, <1>1, <1>2, <1>3, <1>4 DEF HeadInv

LEMMA HeadNext ==
    ASSUME ChainInv, HeadInv, [Next]_vars,
           [Restart \/ cachedTipsStart' >= cachedTipsStart]_vars
    PROVE  HeadInv'
<1>1. CASE Next /\ (Restart \/ cachedTipsStart' >= cachedTipsStart)
    BY Zenon, <1>1, OperatedNext, FlagsPlacedNext, TipsCachedNext, BestHeaderNext
    DEF HeadInv
<1>2. CASE UNCHANGED vars
    <2>1. UNCHANGED <<known, failed, invalidAnc, bestHeader, cachedTips,
                      cachedTipsStart, disk>>
        BY Zenon, <1>2 DEF vars, indexVars, statusVars, bestVars, tipVars
    <2>2. Operated'
        BY Zenon, <1>2, OperatedNext DEF HeadInv
    <2> QED
        BY Zenon, <2>1, <2>2
        DEF HeadInv, FlagsPlaced, TipsCached, Leaves, BestHeaderHasMostWork, KnownInvalid
<1> QED
    BY Zenon, <1>1, <1>2

LEMMA HeadInvAlways == Spec /\ RisingPrunes => []HeadInv
BY ChainInvAlways, HeadInit, HeadNext, PTL DEF Spec, RisingPrunes

\* BestHeader has the most work of all headers not known to be invalid, for
\* every tree, any order of arrival, failed blocks, restarts with or without new
\* rules, and whatever the operator invalidates and reconsiders.  It takes the
\* cache of tips, since MarkBlockFailedValidation looks for another best header
\* only beside the tips it finds above the failed block.
THEOREM BestHeaderHasMostWorkAlways ==
    Spec /\ RisingPrunes => []BestHeaderHasMostWork
<1>1. HeadInv => BestHeaderHasMostWork
    BY Zenon DEF HeadInv
<1> QED
    BY <1>1, HeadInvAlways, PTL

-----------------------------------------------------------------------------
\* Invalid blocks.

\* What is stored has invalidity inherited, too.
DiskInherits ==
    \A b \in disk.known \ {Genesis} :
        Parent[b] \in disk.failed \cup disk.invalidAnc
            => b \in disk.failed \cup disk.invalidAnc

InheritInv == InvalidityInherited /\ DiskInherits /\ BestInvalidHasMostWork

\* Invalidity reaches all the way up.
LEMMA InheritedAbove ==
    ASSUME NEW K \in SUBSET Blocks, NEW I,
           \A b \in K : Ancestors[b] \subseteq K,
           \A b \in K \ {Genesis} : Parent[b] \in I => b \in I,
           NEW t \in K, NEW a \in Ancestors[t], a \in I
    PROVE  t \in I
<1> DEFINE G == {b \in Blocks : b \in K \ I => Ancestors[b] \cap I = {}}
<1>1. Genesis \in G
    BY GenesisAssumption, AncestorAssumption
<1>2. ASSUME NEW b \in Blocks \ {Genesis}, Parent[b] \in G
      PROVE  b \in G
    <2> SUFFICES ASSUME b \in K \ I
                 PROVE  Ancestors[b] \cap I = {}
        BY Zenon
    <2>1. Ancestors[b] = Ancestors[Parent[b]] \cup {b} /\ Parent[b] \in Ancestors[b]
        BY Zenon, TreeFacts
    <2>2. Parent[b] \in K \ I
        BY Zenon, <2>1
    <2>3. Ancestors[Parent[b]] \cap I = {}
        BY Zenon, <1>2, <2>2
    <2> QED
        BY <2>1, <2>3
<1>3. \A b \in Blocks : b \in G
    <2>1. G \in SUBSET Blocks
        BY Zenon
    <2> HIDE DEF G
    <2> QED
        BY Zenon, <1>1, <1>2, <2>1, TreeInduction
<1> QED
    BY Zenon, <1>3

\* MarkBlockFailedValidation comes by all children of what it marks.
LEMMA MarkInherits ==
    ASSUME IndexInv, TipsCached, KnownInvalid \subseteq known \ {Genesis},
           InvalidityInherited, NEW n \in known \ {Genesis},
           MarkBlockFailedValidation(n)
    PROVE  InvalidityInherited'
<1>1. /\ KnownInvalid' = KnownInvalid \cup {n} \cup Between(n, DescendantTips(n))
      /\ known' = known /\ known \subseteq Blocks
    BY Zenon, MarkFlags DEF IndexInv
<1>2. ASSUME NEW c \in known \ {Genesis}, Parent[c] \in KnownInvalid'
      PROVE  c \in KnownInvalid'
    <2>1. CASE Parent[c] \in KnownInvalid
        BY Zenon, <1>1, <2>1 DEF InvalidityInherited
    <2>2. CASE Parent[c] \in {n} \cup Between(n, DescendantTips(n))
        <3>1. c \in Blocks /\ Parent[c] \in Blocks
            BY Zenon, <1>1, TreeAssumption
        <3>2. n \in Ancestors[Parent[c]]
            <4>1. CASE Parent[c] = n
                BY Zenon, <3>1, <4>1, TreeFacts
            <4>2. CASE Parent[c] \in Between(n, DescendantTips(n))
                BY Zenon, <4>2, MarkedAbove
            <4> QED
                BY Zenon, <2>2, <4>1, <4>2
        <3>3. n \in Ancestors[c] /\ Parent[c] \in Ancestors[c]
            BY Zenon, <3>1, <3>2, TreeFacts
        <3>4. c # n
            <4>1. Height[c] = Height[Parent[c]] + 1 /\ Height[Parent[c]] \in Nat
                BY Zenon, <3>1, TreeAssumption
            <4>2. c # Parent[c]
                BY <4>1
            <4> QED
                BY Zenon, <3>1, <3>2, <3>3, <4>2, BranchFacts
        <3>5. c \in Between(n, DescendantTips(n))
            BY Zenon, <3>3, <3>4, DescendantsMarked
        <3> QED
            BY Zenon, <1>1, <3>5
    <2> QED
        BY Zenon, <1>1, <1>2, <2>1, <2>2
<1> QED
    BY Zenon, <1>1, <1>2 DEF InvalidityInherited

\* What ReconsiderBlock clears: the blocks below and those above it comes by.
LEMMA ReconsiderClears ==
    ASSUME IndexInv, NEW n \in known, ReconsiderStatuses(n, tip)
    PROVE  KnownInvalid' = KnownInvalid \ (ReconsideredPath(n)
                                              \cup ReconsideredDescendants(n))
<1> DEFINE path == ReconsideredPath(n)
           desc == ReconsideredDescendants(n)
<1>1. failed' = failed \ path /\ invalidAnc' = invalidAnc \ (path \cup desc)
    BY Zenon DEF ReconsiderStatuses
<1>2. ASSUME NEW d \in desc
      PROVE  d \notin failed \ path
    <2>1. /\ d \in AboveEarliest(n)
          /\ Ancestors[d] \cap AboveEarliest(n) \cap (failed \ path) = {}
        BY Zenon DEF ReconsideredDescendants
    <2>2. \A v \in EarliestFailed(n) : v \in known
        BY Zenon DEF EarliestFailed, ReconsideredPath, IndexInv
    <2>3. d \in Blocks
        <3>1. PICK v \in EarliestFailed(n) : d \in Between(v, DescendantTips(v))
            BY Zenon, <2>1 DEF AboveEarliest
        <3> QED
            BY Zenon, <2>2, <3>1, BetweenKnown DEF IndexInv
    <2>4. d \in Ancestors[d]
        BY Zenon, <2>3, TreeFacts
    <2> QED
        BY Zenon, <2>1, <2>4
<1> HIDE DEF path, desc
<1>3. KnownInvalid' = KnownInvalid \ (path \cup desc)
    BY Zenon, <1>1, <1>2 DEF KnownInvalid
<1> QED
    BY Zenon, <1>3 DEF path, desc

\* It clears no block above one it leaves invalid.
LEMMA ReconsiderInherits ==
    ASSUME IndexInv, KnownInvalid \subseteq known \ {Genesis}, InvalidityInherited,
           NEW n \in known, ReconsiderStatuses(n, tip)
    PROVE  InvalidityInherited'
<1> DEFINE path == ReconsideredPath(n)
           desc == ReconsideredDescendants(n)
<1>1. KnownInvalid' = KnownInvalid \ (path \cup desc) /\ known' = known
      /\ known \subseteq Blocks
    BY Zenon, ReconsiderClears, ReconsiderFlags DEF IndexInv
<1>2. ASSUME NEW c \in known \ {Genesis}, Parent[c] \in KnownInvalid'
      PROVE  c \in KnownInvalid'
    <2>1. /\ Parent[c] \in KnownInvalid /\ Parent[c] \notin path \cup desc
          /\ c \in KnownInvalid /\ Parent[c] # Genesis /\ Parent[c] \in Blocks
          /\ c \in Blocks
        BY Zenon, <1>1, <1>2 DEF InvalidityInherited
    <2>2. c \notin path
        <3>1. ASSUME c \in Ancestors[n]
              PROVE  Parent[c] \in Ancestors[n]
            BY Zenon, <1>1, <2>1, <3>1, TreeFacts, PathAssumption
        <3> QED
            BY Zenon, <2>1, <3>1 DEF ReconsideredPath
    <2>3. ASSUME c \in desc
          PROVE  FALSE
        <3>1. /\ c \in AboveEarliest(n)
              /\ Ancestors[c] \cap AboveEarliest(n) \cap (failed \ path) = {}
            BY Zenon, <2>3 DEF ReconsideredDescendants
        <3>2. PICK v \in EarliestFailed(n) : c \in Between(v, DescendantTips(v))
            BY Zenon, <3>1 DEF AboveEarliest
        <3>3. PICK t \in DescendantTips(v) :
                  c \in Ancestors[t] /\ c # v /\ v \in Ancestors[c]
            BY Zenon, <3>2 DEF Between, IsAncestorOf
        <3>4. v \in path \/ v = n
            BY Zenon DEF EarliestFailed
        <3>5. n # Genesis => n \in path
            BY Zenon, <1>1, TreeFacts DEF ReconsideredPath
        <3>6. Parent[c] # v
            BY Zenon, <2>1, <3>4, <3>5
        <3>7. Ancestors[c] = Ancestors[Parent[c]] \cup {c} /\ Parent[c] \in Ancestors[c]
            BY Zenon, <2>1, TreeFacts
        <3>8. v \in Ancestors[Parent[c]]
            BY Zenon, <3>3, <3>7
        <3>9. t \in Blocks
            <4>1. v \in known
                BY Zenon, <3>4 DEF ReconsideredPath, IndexInv
            <4>2. Leaves \subseteq Blocks /\ cachedTips \subseteq Blocks
                BY Zenon, <1>1 DEF Leaves, IndexInv
            <4> QED
                BY Zenon, <4>2 DEF DescendantTips, TipsAfterHeight
        <3>10. Parent[c] \in Ancestors[t]
            BY Zenon, <3>3, <3>7, <3>9, PathAssumption
        <3>11. Parent[c] \in {b \in Ancestors[t] \ {v} : IsAncestorOf(v, b)}
            BY Zenon, <3>6, <3>8, <3>10 DEF IsAncestorOf
        <3>12. Parent[c] \in AboveEarliest(n)
            <4>1. Parent[c] \in Between(v, DescendantTips(v))
                BY Zenon, <3>3, <3>11 DEF Between
            <4> QED
                BY Zenon, <3>2, <4>1 DEF AboveEarliest
        <3>13. Parent[c] \in desc
            BY Zenon, <3>1, <3>7, <3>12 DEF ReconsideredDescendants
        <3> QED
            BY Zenon, <2>1, <3>13
    <2> QED
        BY Zenon, <1>1, <2>1, <2>2, <2>3
<1> QED
    BY Zenon, <1>1, <1>2 DEF InvalidityInherited

\* Whatever a crash leaves behind has invalidity inherited.
LEMMA StoredInherits ==
    ASSUME NoNewRules, ChainInv, FlagsInv, InvalidityInherited, DiskInherits,
           FlagsPlaced, NEW d \in Stored
    PROVE  \A b \in d.known \ {Genesis} :
               Parent[b] \in d.failed \cup d.invalidAnc
                   => b \in d.failed \cup d.invalidAnc
<1>1. CASE d = disk
    BY Zenon, <1>1 DEF DiskInherits
<1>2. CASE d = Written(modified, disk.tip, data, validated, failed, invalidAnc)
    <2>1. /\ d.known = disk.known \cup modified
          /\ d.failed = (disk.failed \ modified) \cup (failed \cap modified)
          /\ d.invalidAnc = (disk.invalidAnc \ modified) \cup (invalidAnc \cap modified)
        BY Zenon, <1>2 DEF Written
    <2>2. d.known \subseteq known
        BY Zenon, <2>1 DEF ChainInv, DiskInv, IndexInv
    <2>3. ASSUME NEW b \in known
          PROVE  /\ b \in d.failed <=> b \in failed
                 /\ b \in d.invalidAnc <=> b \in invalidAnc
        BY Zenon, <2>1 DEF FlagsInv, NoNewRules
    <2>4. \A b \in known \ {Genesis} : Parent[b] \in known
        BY Zenon, TreeFacts DEF ChainInv, IndexInv
    <2> QED
        BY Zenon, <2>2, <2>3, <2>4 DEF InvalidityInherited, KnownInvalid
<1> QED
    BY Zenon, <1>1, <1>2 DEF Stored

LEMMA InheritedNext ==
    ASSUME NoNewRules, ChainInv, HeadInv, FlagsInv, InvalidityInherited,
           DiskInherits, Next, ChainInv', FlagsInv'
    PROVE  InvalidityInherited' /\ DiskInherits'
<1>0. IndexInv /\ TipsCached /\ KnownInvalid \subseteq known \ {Genesis} /\ FlagsPlaced
      /\ Operated
    BY Zenon DEF ChainInv, HeadInv, FlagsPlaced
<1>1. CASE Restart
    <2>1. PICK d \in Stored : LoadChainState(d, {})
        BY Zenon, <1>1 DEF Restart, NoNewRules
    <2>2. /\ known' = d.known /\ disk' = d
          /\ failed' = d.failed \ {} /\ invalidAnc' = d.invalidAnc \ {}
        BY Zenon, <2>1 DEF LoadChainState
    <2>3. \A b \in d.known \ {Genesis} :
              Parent[b] \in d.failed \cup d.invalidAnc
                  => b \in d.failed \cup d.invalidAnc
        BY Zenon, <1>0, <2>1, StoredInherits
    <2> QED
        BY Zenon, <2>2, <2>3 DEF InvalidityInherited, DiskInherits, KnownInvalid
<1>2. CASE ~Restart
    <2>1. InvalidityInherited'
        <3>1. CASE UNCHANGED <<known, failed, invalidAnc>>
            BY Zenon, <3>1 DEF InvalidityInherited, KnownInvalid
        <3>2. ASSUME NEW b \in Blocks, HeaderAcceptable(b), AddNode(b)
              PROVE  InvalidityInherited'
            <4>1. /\ known' = known \cup {b} /\ UNCHANGED <<failed, invalidAnc>>
                  /\ Parent[b] \notin KnownInvalid
                BY Zenon, <3>2 DEF AddNode, HeaderAcceptable, statusVars
            <4> QED
                BY Zenon, <4>1 DEF InvalidityInherited, KnownInvalid
        <3>3. ASSUME NEW n \in known \ {Genesis}, MarkBlockFailedValidation(n)
              PROVE  InvalidityInherited'
            BY Zenon, <1>0, <3>3, MarkInherits
        <3>4. ASSUME NEW b \in known, ReconsiderStatuses(b, tip)
              PROVE  InvalidityInherited'
            BY Zenon, <1>0, <3>4, ReconsiderInherits
        <3> QED
            BY Zenon, <1>0, <1>2, <3>1, <3>2, <3>3, <3>4, IndexChanges
    <2>2. CASE disk' = disk
        BY Zenon, <2>1, <2>2 DEF DiskInherits
    <2>3. ASSUME NEW M, NEW best, FlushAndPutBestState(M, best)
          PROVE  DiskInherits'
        <3>1. modified' = {}
            BY Zenon, <2>3 DEF FlushAndPutBestState
        <3>2. /\ disk'.known \subseteq known' /\ known' \subseteq Blocks
              /\ \A b \in known' : Ancestors[b] \subseteq known'
            BY Zenon DEF ChainInv, DiskInv, IndexInv
        <3>3. \A b \in known' \ {Genesis} : Parent[b] \in known'
            BY Zenon, <3>2, TreeFacts
        <3>4. ASSUME NEW b \in known'
              PROVE  /\ b \in disk'.failed <=> b \in failed'
                     /\ b \in disk'.invalidAnc <=> b \in invalidAnc'
            BY Zenon, <3>1 DEF FlagsInv, NoNewRules
        <3> QED
            BY Zenon, <2>1, <3>2, <3>3, <3>4 DEF InvalidityInherited, DiskInherits,
               KnownInvalid
    <2> QED
        BY Zenon, <1>2, <2>1, <2>2, <2>3, DiskChanges
<1> QED
    BY Zenon, <1>1, <1>2

\* The best invalid block after each of the changes.
LEMMA BestInvalidNext ==
    ASSUME ChainInv, HeadInv, BestInvalidHasMostWork, Next, InvalidityInherited'
    PROVE  BestInvalidHasMostWork'
<1>1. /\ IndexInv /\ TipsCached /\ Operated
      /\ KnownInvalid \subseteq known \ {Genesis} /\ known \subseteq Blocks
      /\ order \in [Blocks -> Nat] /\ NoBlock \notin Blocks
      /\ \A b \in Blocks : WorkSum[b] \in Nat
    BY Zenon, TreeAssumption, GenesisAssumption
    DEF ChainInv, HeadInv, FlagsPlaced, Operated, IndexInv
<1>2. CASE UNCHANGED <<failed, invalidAnc, bestInvalid>>
    BY Zenon, <1>2 DEF BestInvalidHasMostWork, KnownInvalid
<1>3. ASSUME NEW b \in Blocks, AddNode(b)
      PROVE  BestInvalidHasMostWork'
    BY Zenon, <1>2, <1>3 DEF AddNode, statusVars
<1>4. ASSUME NEW n \in known \ {Genesis}, MarkBlockFailedValidation(n)
      PROVE  BestInvalidHasMostWork'
    <2> DEFINE S == {n} \cup DescendantTips(n) \cup ({bestInvalid} \ {NoBlock})
    <2>1. KnownInvalid' = KnownInvalid \cup {n} \cup Between(n, DescendantTips(n))
        BY Zenon, <1>1, <1>4, MarkFlags
    <2>2. bestInvalid' = BestOf(S, data, order)
        BY Zenon, <1>4 DEF MarkBlockFailedValidation, BestInvalidAfterMark
    <2>3. ASSUME NEW t \in DescendantTips(n)
          PROVE  t \in Between(n, DescendantTips(n)) /\ t \in Blocks
        <3>1. /\ t \in Leaves \cup cachedTips /\ n \in Ancestors[t]
              /\ Height[t] > Height[n]
            BY Zenon DEF DescendantTips, TipsAfterHeight, IsAncestorOf
        <3>2. t \in Blocks
            BY Zenon, <1>1, <3>1 DEF Leaves, IndexInv
        <3>3. t # n
            <4>1. Height[t] \in Nat /\ Height[n] \in Nat
                BY Zenon, <1>1, <3>2, TreeAssumption
            <4> HIDE DEF S
            <4> QED
                BY <3>1, <4>1
        <3>4. t \in {b \in Ancestors[t] \ {n} : IsAncestorOf(n, b)}
            BY Zenon, <3>1, <3>2, <3>3, TreeFacts DEF IsAncestorOf
        <3> QED
            BY Zenon, <3>2, <3>4 DEF Between
    <2>4. S \subseteq KnownInvalid' /\ S \in SUBSET Blocks /\ n \in S
        <3>1. bestInvalid # NoBlock => bestInvalid \in KnownInvalid
            BY Zenon DEF BestInvalidHasMostWork
        <3> QED
            BY Zenon, <1>1, <2>1, <2>3, <3>1
    <2>5. ASSUME NEW b \in KnownInvalid'
          PROVE  \E a \in S : WorkSum[b] <= WorkSum[a]
        <3>1. CASE b \in KnownInvalid
            <4>1. bestInvalid # NoBlock /\ WorkSum[b] <= WorkSum[bestInvalid]
                BY Zenon, <3>1 DEF BestInvalidHasMostWork
            <4> QED
                BY Zenon, <4>1
        <3>2. CASE b = n
            <4>1. WorkSum[n] \in Nat /\ n \in S
                BY Zenon, <1>1
            <4> HIDE DEF S
            <4>2. WorkSum[n] <= WorkSum[n]
                BY <4>1
            <4> QED
                BY Zenon, <3>2, <4>1, <4>2
        <3>3. CASE b \in Between(n, DescendantTips(n))
            <4>1. PICK t \in DescendantTips(n) : b \in Ancestors[t]
                BY Zenon, <1>1, <3>3, MarkedAbove
            <4>2. WorkSum[b] <= WorkSum[t]
                BY Zenon, <2>3, <4>1, BranchFacts
            <4> QED
                BY Zenon, <4>1, <4>2
        <3> QED
            BY Zenon, <2>1, <2>5, <3>1, <3>2, <3>3
    <2>6. /\ BestOf(S, data, order) \in S
          /\ \A a \in S : WorkSum[a] <= WorkSum[BestOf(S, data, order)]
        BY Zenon, <1>1, <2>4, BestOfIsBest
    <2>7. KnownInvalid' \subseteq Blocks
        BY Zenon, <1>1, <1>4, MarkFlags
    <2> HIDE DEF S
    <2>8. ASSUME NEW b \in KnownInvalid'
          PROVE  WorkSum[b] <= WorkSum[bestInvalid']
        <3>1. PICK a \in S : WorkSum[b] <= WorkSum[a]
            BY Zenon, <2>5
        <3>2. /\ WorkSum[a] <= WorkSum[bestInvalid']
              /\ WorkSum[a] \in Nat /\ WorkSum[b] \in Nat /\ WorkSum[bestInvalid'] \in Nat
            BY Zenon, <1>1, <2>2, <2>4, <2>6, <2>7
        <3> QED
            BY <3>1, <3>2
    <2>9. bestInvalid' \in KnownInvalid' /\ bestInvalid' # NoBlock
        BY Zenon, <1>1, <2>2, <2>4, <2>6
    <2> QED
        BY Zenon, <2>8, <2>9 DEF BestInvalidHasMostWork
<1>5. ASSUME NEW n \in known, ReconsiderStatuses(n, tip)
      PROVE  BestInvalidHasMostWork'
    <2> DEFINE S == Leaves \ (known \ KnownInvalid')
    <2>1. KnownInvalid' \subseteq KnownInvalid /\ known' = known
        BY Zenon, <1>5, ReconsiderFlags
    <2>2. bestInvalid' = BestOf(S, data, order)
        BY Zenon, <1>5 DEF ReconsiderStatuses, KnownInvalid
    <2>3. S \subseteq KnownInvalid' /\ S \in SUBSET Blocks
        BY Zenon, <1>1 DEF Leaves
    <2>4. ASSUME NEW b \in KnownInvalid'
          PROVE  \E l \in S : WorkSum[b] <= WorkSum[l]
        <3>1. b \in known
            BY Zenon, <1>1, <2>1
        <3>2. PICK l \in Leaves : b \in Ancestors[l]
            BY Zenon, <1>1, <3>1, LeafAbove
        <3>3. l \in known /\ l \in Blocks
            BY Zenon, <1>1 DEF Leaves
        <3>4. l \in KnownInvalid'
            <4>1. \A c \in known \ {Genesis} :
                      Parent[c] \in KnownInvalid' => c \in KnownInvalid'
                BY Zenon, <2>1 DEF InvalidityInherited
            <4>2. \A c \in known : Ancestors[c] \subseteq known
                BY Zenon, <1>1 DEF IndexInv
            <4> QED
                BY Zenon, <1>1, <3>2, <3>3, <4>1, <4>2, InheritedAbove
        <3>5. WorkSum[b] <= WorkSum[l]
            BY Zenon, <3>2, <3>3, BranchFacts
        <3> QED
            BY Zenon, <3>4, <3>5
    <2>5. KnownInvalid' \subseteq Blocks
        BY Zenon, <1>1, <2>1
    <2> HIDE DEF S
    <2>6. CASE KnownInvalid' = {}
        <3>1. S = {}
            BY Zenon, <2>3, <2>6
        <3>2. BestOf(S, data, order) \in S \cup {NoBlock}
            BY Zenon, BestOfFacts
        <3>3. bestInvalid' = NoBlock
            BY Zenon, <2>2, <3>1, <3>2
        <3> QED
            BY Zenon, <2>6, <3>3 DEF BestInvalidHasMostWork
    <2>7. CASE KnownInvalid' # {}
        <3>1. S # {}
            BY Zenon, <2>4, <2>7
        <3>2. /\ BestOf(S, data, order) \in S
              /\ \A a \in S : WorkSum[a] <= WorkSum[BestOf(S, data, order)]
            BY Zenon, <1>1, <2>3, <3>1, BestOfIsBest
        <3>3. ASSUME NEW b \in KnownInvalid'
              PROVE  WorkSum[b] <= WorkSum[bestInvalid']
            <4>1. PICK a \in S : WorkSum[b] <= WorkSum[a]
                BY Zenon, <2>4
            <4>2. /\ WorkSum[a] <= WorkSum[bestInvalid']
                  /\ WorkSum[a] \in Nat /\ WorkSum[b] \in Nat
                  /\ WorkSum[bestInvalid'] \in Nat
                BY Zenon, <1>1, <2>2, <2>3, <2>5, <3>2
            <4> QED
                BY <4>1, <4>2
        <3>4. bestInvalid' \in KnownInvalid' /\ bestInvalid' # NoBlock
            BY Zenon, <1>1, <2>2, <2>3, <3>2
        <3> QED
            BY Zenon, <2>7, <3>3, <3>4 DEF BestInvalidHasMostWork
    <2> QED
        BY Zenon, <2>6, <2>7
<1>6. CASE Restart
    <2>1. PICK d \in Stored, u \in {{}, NewRulesBlocks} : LoadChainState(d, u)
        BY Zenon, <1>6 DEF Restart
    <2> DEFINE S == KnownInvalid'
               ord == [b \in Blocks |-> 0]
    <2>2. bestInvalid' = BestOf(S, d.data, ord)
        BY Zenon, <2>1 DEF LoadChainState, KnownInvalid
    <2>3. S \in SUBSET Blocks
        <3>1. FlagsPlaced' /\ known' = d.known /\ d.known \subseteq Blocks
            BY Zenon, <2>1, FlagsPlacedNext, StoredFacts DEF HeadInv, LoadChainState
        <3> QED
            BY Zenon, <3>1 DEF FlagsPlaced
    <2>4. ord \in [Blocks -> Nat]
        OBVIOUS
    <2> HIDE DEF S, ord
    <2>5. S # {} =>
             /\ BestOf(S, d.data, ord) \in S
             /\ \A a \in S : WorkSum[a] <= WorkSum[BestOf(S, d.data, ord)]
        BY Zenon, <2>3, <2>4, BestOfIsBest
    <2>6. S = {} => bestInvalid' = NoBlock
        <3>1. BestOf(S, d.data, ord) \in S \cup {NoBlock}
            BY Zenon, BestOfFacts
        <3> QED
            BY Zenon, <2>2, <3>1
    <2>7. S # {} => bestInvalid' # NoBlock
        BY Zenon, <1>1, <2>2, <2>3, <2>5
    <2> QED
        BY Zenon, <2>2, <2>5, <2>6, <2>7 DEF BestInvalidHasMostWork, S
<1> QED
    BY Zenon, <1>1, <1>2, <1>3, <1>4, <1>5, <1>6, IndexChanges DEF bestVars

LEMMA InheritInit ==
    ASSUME Init
    PROVE  InheritInv
<1>1. /\ known = {Genesis} /\ failed = {} /\ invalidAnc = {} /\ bestInvalid = NoBlock
      /\ disk.known = {Genesis} /\ disk.failed = {} /\ disk.invalidAnc = {}
    BY Zenon DEF Init, IndexInit
<1>2. InvalidityInherited /\ DiskInherits
    BY Zenon, <1>1 DEF InvalidityInherited, DiskInherits
<1>3. BestInvalidHasMostWork
    BY Zenon, <1>1 DEF BestInvalidHasMostWork, KnownInvalid
<1> QED
    BY Zenon, <1>2, <1>3 DEF InheritInv

LEMMA InheritNext ==
    ASSUME NoNewRules, ChainInv, HeadInv, FlagsInv, InheritInv, [Next]_vars
    PROVE  InheritInv'
<1>1. CASE Next
    <2>1. ChainInv' /\ FlagsInv'
        BY Zenon, ChainNext, FlagsNext
    <2>2. InvalidityInherited' /\ DiskInherits'
        BY Zenon, <1>1, <2>1, InheritedNext DEF InheritInv
    <2> QED
        BY Zenon, <1>1, <2>2, BestInvalidNext DEF InheritInv
<1>2. CASE UNCHANGED vars
    <2>1. UNCHANGED <<known, failed, invalidAnc, bestInvalid, disk>>
        BY Zenon, <1>2 DEF vars, indexVars, statusVars, bestVars
    <2> QED
        BY Zenon, <2>1
        DEF InheritInv, InvalidityInherited, DiskInherits, BestInvalidHasMostWork,
            KnownInvalid
<1> QED
    BY Zenon, <1>1, <1>2

LEMMA InheritInvAlways ==
    ASSUME NoNewRules
    PROVE  Spec /\ RisingPrunes => []InheritInv
BY ChainInvAlways, HeadInvAlways, FlagsInit, FlagsNext, InheritInit, InheritNext, PTL
DEF Spec

\* No header that is not known to be invalid builds on one that is, through
\* failed reorganizations, the operator's requests, flushes and restarts at any
\* point: MarkBlockFailedValidation reaches every descendant, ReconsiderBlock
\* clears no block above one it leaves invalid, and no write to the database
\* separates the two.
THEOREM InvalidityInheritedAlways ==
    ASSUME NoNewRules
    PROVE  Spec /\ RisingPrunes => []InvalidityInherited
<1>1. InheritInv => InvalidityInherited
    BY Zenon DEF InheritInv
<1> QED
    BY <1>1, InheritInvAlways, PTL

\* bestInvalid, which maybeUpdateBestInvalid compares with a failed block and the
\* tips above it only, has the most work of all invalid blocks.
THEOREM BestInvalidHasMostWorkAlways ==
    ASSUME NoNewRules
    PROVE  Spec /\ RisingPrunes => []BestInvalidHasMostWork
<1>1. InheritInv => BestInvalidHasMostWork
    BY Zenon DEF InheritInv
<1> QED
    BY <1>1, InheritInvAlways, PTL
=============================================================================

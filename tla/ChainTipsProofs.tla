-------------------------- MODULE ChainTipsProofs --------------------------
(***************************************************************************)
(* Proofs about the cache of recent chain tips for every header tree and   *)
(* every prune depth.                                                      *)
(***************************************************************************)
EXTENDS ChainTips, TLAPS, FiniteSetTheorems

\* What the cache proofs need of the types: the parts the cache is made of.
CacheTypeOK ==
    /\ index \subseteq Blocks
    /\ cachedTips \subseteq Blocks
    /\ cachedTipsStart \in Nat
    /\ best \in Blocks

\* Headers are only accepted on top of known ones.
IndexClosed ==
    /\ Genesis \in index
    /\ \A n \in index \ {Genesis} : Parent[n] \in index

\* The inductive invariant: the cache holds tips only, and all of those from
\* its start height on.
CacheInv == CacheTypeOK /\ IndexClosed /\ CacheIsTips /\ CacheComplete

\* A prune leaves the cache within itself and its start height a natural
\* number, and keeps every tip from the new start height on.
LEMMA PruneFacts ==
    ASSUME NEW ref \in Blocks, NEW cached \in SUBSET Blocks, NEW start \in Nat
    PROVE  /\ PrunedTips(cached, ref) \subseteq cached
           /\ PrunedStart(start, ref) \in Nat
           /\ PrunedStart(start, ref) >= start =>
                 \A t \in cached : Height[t] >= PrunedStart(start, ref)
                                      => t \in PrunedTips(cached, ref)
<1>1. Height[ref] \in Nat /\ \A t \in cached : Height[t] \in Nat
    BY Zenon, TreeAssumption
<1>2. PruneHeight(ref) \in Int
    BY <1>1, PruneDepthAssumption DEF PruneHeight
<1> QED
    BY <1>1, <1>2 DEF PrunedTips, PrunedStart

\* A new index, with nothing but the genesis block, which is cached.
LEMMA CacheInit == Init => CacheInv
<1> SUFFICES ASSUME Init PROVE CacheInv
    OBVIOUS
<1>1. CacheTypeOK
    BY Zenon, GenesisAssumption DEF Init, CacheTypeOK
<1>2. Children(Genesis) \cap {Genesis} = {}
    BY Zenon, GenesisAssumption DEF Children
<1> QED
    BY Zenon, <1>1, <1>2 
       DEF Init, CacheInv, IndexClosed, CacheIsTips, CacheComplete, Leaves

\* A new header turns its parent from a tip into an inner node and changes
\* nothing about the other headers.
LEMMA LeavesAfterAdd ==
    ASSUME index \subseteq Blocks, IndexClosed, NEW b \in Blocks \ {Genesis},
           AddNode(b)
    PROVE  Leaves' = (Leaves \ {Parent[b]}) \cup {b}
<1>1. /\ index' = index \cup {b}
      /\ b \notin index
      /\ Parent[b] \in index
    BY Zenon DEF AddNode
<1>2. Children(b) \cap index' = {}
    BY Zenon, <1>1, GenesisAssumption DEF Children, IndexClosed
<1>3. \A n \in Blocks : b \in Children(n) <=> n = Parent[b]
    BY Zenon DEF Children
<1>4. ASSUME NEW n \in index
      PROVE  n \in Leaves' <=> n \in Leaves /\ n # Parent[b]
    BY Zenon, <1>1, <1>3, <1>4 DEF Leaves
<1> QED
    BY Zenon, <1>1, <1>2, <1>4 DEF Leaves

\* Every step keeps the inductive invariant, as long as prunes do not use a
\* lower height than an earlier one.
LEMMA CacheStep == CacheInv /\ [NextRising]_vars => CacheInv'
<1> SUFFICES ASSUME CacheInv, [NextRising]_vars PROVE CacheInv'
    OBVIOUS
<1> USE DEF CacheInv
<1>1. ASSUME NEW b \in Blocks \ {Genesis}, AddNode(b)
      PROVE  CacheInv'
    <2>1. Leaves' = (Leaves \ {Parent[b]}) \cup {b}
        BY Zenon, <1>1, LeavesAfterAdd DEF CacheTypeOK
    <2>2. /\ index' = index \cup {b}
          /\ Parent[b] \in index
          /\ cachedTips' = (cachedTips \cup {b}) \ {Parent[b]}
          /\ cachedTipsStart' = cachedTipsStart
          /\ best' = best
          /\ b \notin index
        BY Zenon, <1>1 DEF AddNode
    <2>3. CacheTypeOK' /\ IndexClosed'
        BY Zenon, <2>2 DEF CacheTypeOK, IndexClosed
    <2>4. CacheIsTips'
        BY Zenon, <2>1, <2>2 DEF CacheIsTips
    <2>5. CacheComplete'
        BY Zenon, <2>1, <2>2 DEF CacheComplete
    <2> QED
        BY Zenon, <2>3, <2>4, <2>5
<1>2. ASSUME NEW ref \in Blocks, PruneCachedTips(ref), Rising,
             index' = index, best' \in Blocks
      PROVE  CacheInv'
    <2>1. /\ cachedTips' \subseteq cachedTips
          /\ cachedTipsStart' \in Nat
          /\ \A t \in cachedTips :
                Height[t] >= cachedTipsStart' => t \in cachedTips'
        BY Zenon, <1>2, PruneFacts DEF PruneCachedTips, Rising, CacheTypeOK
    <2>2. Leaves' = Leaves
        BY Zenon, <1>2 DEF Leaves
    <2>3. CacheTypeOK' /\ IndexClosed' /\ CacheIsTips'
        BY Zenon, <1>2, <2>1, <2>2 DEF CacheTypeOK, IndexClosed, CacheIsTips
    <2>4. ASSUME NEW t \in Leaves, Height[t] >= cachedTipsStart'
          PROVE  t \in cachedTips'
        <3>1. /\ t \in Blocks
              /\ Height[t] \in Nat
              /\ cachedTipsStart \in Nat
              /\ cachedTipsStart' >= cachedTipsStart
            BY Zenon, <1>2, TreeAssumption DEF Leaves, CacheTypeOK, Rising
        <3>2. t \in cachedTips
            BY <2>1, <2>4, <3>1 DEF CacheComplete
        <3> QED
            BY Zenon, <2>1, <2>4, <3>2
    <2> QED
        BY Zenon, <2>2, <2>3, <2>4 DEF CacheComplete
<1>3. ASSUME UNCHANGED <<index, cachedTips, cachedTipsStart>>, best' \in Blocks
      PROVE  CacheInv'
    BY Zenon, <1>3
    DEF CacheTypeOK, IndexClosed, CacheIsTips, CacheComplete, Leaves
<1>4. ASSUME NEW b \in Blocks, ConnectBlock(b), Rising
      PROVE  CacheInv'
    <2>1. best' \in Blocks /\ index' = index
        BY Zenon, <1>4 DEF ConnectBlock
    <2>2. CASE UNCHANGED <<cachedTips, cachedTipsStart>>
        BY Zenon, <1>3, <2>1, <2>2
    <2>3. CASE PruneCachedTips(b)
        BY Zenon, <1>2, <1>4, <2>1, <2>3
    <2> QED
        BY Zenon, <1>4, <2>2, <2>3 DEF ConnectBlock
<1>5. ASSUME DisconnectBlock
      PROVE  CacheInv'
    <2>1. best' \in Blocks
        BY Zenon, <1>5, TreeAssumption DEF DisconnectBlock, CacheTypeOK
    <2> QED
        BY Zenon, <1>3, <1>5, <2>1 DEF DisconnectBlock
<1>6. ASSUME ReconsiderBlock, Rising
      PROVE  CacheInv'
    BY Zenon, <1>2, <1>6 DEF ReconsiderBlock, CacheTypeOK
<1>7. ASSUME UNCHANGED vars
      PROVE  CacheInv'
    BY Zenon, <1>3, <1>7 DEF vars, CacheTypeOK
<1> QED
    BY Zenon, <1>1, <1>4, <1>5, <1>6, <1>7
    DEF NextRising, AddSome, ConnectRising, ConnectSome, ReconsiderRising

\* While prunes only move the start height up, the cache that
\* MarkBlockFailedValidation and ReconsiderBlock rely on lists every chain
\* tip from cachedTipsStart on, whatever the tree, the order of the headers
\* and the movements of the best chain.
THEOREM CacheCompleteAlways == RisingSpec => []CacheComplete
<1>1. CacheInv => CacheComplete
    BY Zenon DEF CacheInv
<1> QED
    BY CacheInit, CacheStep, <1>1, PTL DEF RisingSpec

\* The same argument shows that the cache never lists a header that another
\* known header builds on.
THEOREM CacheIsTipsAlways == RisingSpec => []CacheIsTips
<1>1. CacheInv => CacheIsTips
    BY Zenon DEF CacheInv
<1> QED
    BY CacheInit, CacheStep, <1>1, PTL DEF RisingSpec
-----------------------------------------------------------------------------
\* The map of all tips, whatever the prunes do.

\* Each tip is listed once.
Distinct(s) == \A i, j \in DOMAIN s : s[i] = s[j] => i = j

LeavesAt(h) == {t \in Leaves : Height[t] = h}

\* The inductive invariant: the entry of a height lists the tips of that height,
\* and the total is the number of tips.
TipsInv ==
    /\ index \subseteq Blocks
    /\ IndexClosed
    /\ chainTips \in [Heights -> Seq(Blocks)]
    /\ \A h \in Heights :
          Elems(chainTips[h]) = LeavesAt(h) /\ Distinct(chainTips[h])
    /\ totalTips = Cardinality(Leaves)

\* addChainTip lists one more tip.
LEMMA AddFacts ==
    ASSUME NEW s \in Seq(Blocks), NEW b \in Blocks
    PROVE  /\ AddChainTip(s, b) \in Seq(Blocks)
           /\ Elems(AddChainTip(s, b)) = Elems(s) \cup {b}
           /\ Distinct(s) /\ b \notin Elems(s) => Distinct(AddChainTip(s, b))
<1> DEFINE r == AddChainTip(s, b)
<1>1. /\ r \in Seq(Blocks) /\ Len(r) = Len(s) + 1 /\ Len(s) \in Nat
      /\ r[Len(s) + 1] = b /\ \A i \in 1..Len(s) : r[i] = s[i]
      /\ DOMAIN r = 1..(Len(s) + 1) /\ DOMAIN s = 1..Len(s)
    BY DEF AddChainTip
<1> HIDE DEF r
<1>2. Elems(r) = Elems(s) \cup {b}
    BY <1>1 DEF Elems
<1>3. Distinct(s) /\ b \notin Elems(s) => Distinct(r)
    BY <1>1 DEF Elems, Distinct
<1> QED
    BY Zenon, <1>1, <1>2, <1>3 DEF r

\* removeChainTip cuts a tip that is listed once out of its entry, and leaves an
\* entry that does not list it alone.
LEMMA RemoveFacts ==
    ASSUME NEW s \in Seq(Blocks), NEW p, Distinct(s)
    PROVE  /\ RemoveChainTip(s, p) \in Seq(Blocks)
           /\ Elems(RemoveChainTip(s, p)) = Elems(s) \ {p}
           /\ Distinct(RemoveChainTip(s, p))
<1> DEFINE at == {i \in DOMAIN s : s[i] = p}
<1>1. CASE at = {}
    <2>1. RemoveChainTip(s, p) = s
        BY Zenon, <1>1 DEF RemoveChainTip
    <2>2. p \notin Elems(s)
        BY Zenon, <1>1 DEF Elems
    <2> QED
        BY Zenon, <2>1, <2>2
<1>2. CASE at # {}
    <2> DEFINE i == CHOOSE k \in at : \A j \in at : k <= j
               r == RemoveChainTip(s, p)
    <2>1. PICK k \in at : TRUE
        BY Zenon, <1>2
    <2>2. \A j \in at : j = k
        BY Zenon, <2>1 DEF Distinct
    <2>3. k \in 1..Len(s) /\ Len(s) \in Nat /\ DOMAIN s = 1..Len(s) /\ s[k] = p
        BY <2>1
    <2>4. i \in at
        BY <2>1, <2>2, <2>3
    <2>5. i = k
        BY Zenon, <2>2, <2>4
    <2>6. r = [j \in 1..(Len(s) - 1) |-> IF j < k THEN s[j] ELSE s[j + 1]]
        BY Zenon, <1>2, <2>5 DEF RemoveChainTip
    <2> HIDE DEF r, at
    <2>7. \A j \in 1..(Len(s) - 1) :
             /\ j < k => r[j] = s[j] /\ j \in 1..Len(s)
             /\ ~(j < k) => r[j] = s[j + 1] /\ j + 1 \in 1..Len(s)
        BY <2>3, <2>6
    <2>8. r \in Seq(Blocks) /\ DOMAIN r = 1..(Len(s) - 1)
        BY <2>3, <2>6, <2>7
    <2>9. ASSUME NEW j \in 1..(Len(s) - 1)
          PROVE  r[j] \in Elems(s) \ {p}
        BY <2>3, <2>7 DEF Elems, Distinct
    <2>10. ASSUME NEW m \in 1..Len(s), m # k
           PROVE  \E j \in 1..(Len(s) - 1) : r[j] = s[m]
        <3>1. CASE m < k
            BY <2>3, <2>7, <3>1
        <3>2. CASE m > k
            <4>1. m - 1 \in 1..(Len(s) - 1) /\ ~(m - 1 < k) /\ (m - 1) + 1 = m
                BY <2>3, <3>2
            <4> QED
                BY Zenon, <2>7, <4>1
        <3> QED
            BY <2>3, <2>10, <3>1, <3>2
    <2>11. Elems(r) = Elems(s) \ {p}
        <3>1. Elems(r) \subseteq Elems(s) \ {p}
            BY Zenon, <2>8, <2>9 DEF Elems
        <3>2. ASSUME NEW x \in Elems(s) \ {p}
              PROVE  x \in Elems(r)
            <4>1. PICK m \in 1..Len(s) : x = s[m]
                BY Zenon, <2>3 DEF Elems
            <4>2. PICK j \in 1..(Len(s) - 1) : r[j] = s[m]
                BY Zenon, <2>3, <2>10, <4>1
            <4> QED
                BY Zenon, <2>8, <4>1, <4>2 DEF Elems
        <3> QED
            BY Zenon, <3>1, <3>2
    <2>12. ASSUME NEW j \in 1..(Len(s) - 1), NEW l \in 1..(Len(s) - 1), r[j] = r[l]
           PROVE  j = l
        <3>1. \A x, y \in 1..Len(s) : s[x] = s[y] => x = y
            BY Zenon, <2>3 DEF Distinct
        <3>2. j \in Int /\ l \in Int /\ k \in Int
            BY <2>3
        <3>3. CASE j < k /\ l < k
            BY Zenon, <2>7, <2>12, <3>1, <3>3
        <3>4. CASE j < k /\ ~(l < k)
            <4>1. s[j] = s[l + 1] /\ j \in 1..Len(s) /\ l + 1 \in 1..Len(s)
                BY Zenon, <2>7, <2>12, <3>4
            <4>2. j = l + 1
                BY Zenon, <3>1, <4>1
            <4> QED
                BY <3>2, <3>4, <4>2
        <3>5. CASE ~(j < k) /\ l < k
            <4>1. s[j + 1] = s[l] /\ j + 1 \in 1..Len(s) /\ l \in 1..Len(s)
                BY Zenon, <2>7, <2>12, <3>5
            <4>2. j + 1 = l
                BY Zenon, <3>1, <4>1
            <4> QED
                BY <3>2, <3>5, <4>2
        <3>6. CASE ~(j < k) /\ ~(l < k)
            <4>1. s[j + 1] = s[l + 1] /\ j + 1 \in 1..Len(s) /\ l + 1 \in 1..Len(s)
                BY Zenon, <2>7, <2>12, <3>6
            <4>2. j + 1 = l + 1
                BY Zenon, <3>1, <4>1
            <4> QED
                BY <3>2, <4>2
        <3> QED
            BY Zenon, <3>3, <3>4, <3>5, <3>6
    <2>13. Distinct(r)
        BY Zenon, <2>8, <2>12 DEF Distinct
    <2> QED
        BY Zenon, <2>8, <2>11, <2>13 DEF r
<1> QED
    BY Zenon, <1>1, <1>2

LEMMA TipsInit == Init => TipsInv
<1> SUFFICES ASSUME Init PROVE TipsInv
    OBVIOUS
<1>1. Leaves = {Genesis}
    BY Zenon, GenesisAssumption DEF Init, Leaves, Children
<1>2. index \subseteq Blocks /\ IndexClosed
    BY Zenon, GenesisAssumption DEF Init, IndexClosed
<1>3. chainTips \in [Heights -> Seq(Blocks)]
    BY GenesisAssumption DEF Init
<1>4. ASSUME NEW h \in Heights
      PROVE  Elems(chainTips[h]) = LeavesAt(h) /\ Distinct(chainTips[h])
    <2>1. CASE h = 0
        <3>1. chainTips[h] = <<Genesis>> /\ LeavesAt(h) = {Genesis}
            BY Zenon, <1>1, <2>1, GenesisAssumption DEF Init, LeavesAt
        <3> QED
            BY <3>1 DEF Elems, Distinct
    <2>2. CASE h # 0
        <3>1. chainTips[h] = << >> /\ LeavesAt(h) = {}
            BY Zenon, <1>1, <2>2, GenesisAssumption DEF Init, LeavesAt
        <3> QED
            BY <3>1 DEF Elems, Distinct
    <2> QED
        BY Zenon, <2>1, <2>2
<1>5. totalTips = Cardinality(Leaves)
    BY Zenon, <1>1, FS_Singleton DEF Init
<1> QED
    BY Zenon, <1>2, <1>3, <1>4, <1>5 DEF TipsInv

\* A new header is one more tip at its height, and its parent one less at the
\* height below.
LEMMA TipsAfterAdd ==
    ASSUME TipsInv, NEW b \in Blocks \ {Genesis}, AddNode(b)
    PROVE  TipsInv'
<1> DEFINE p == Parent[b]
<1>1. /\ b \notin index /\ p \in index /\ index' = index \cup {b}
      /\ p \in Blocks /\ Height[b] \in Heights /\ Height[p] \in Heights
      /\ Height[p] # Height[b]
    <2>1. b \notin index /\ p \in index /\ index' = index \cup {b}
        BY Zenon DEF AddNode
    <2>2. p \in Blocks /\ Height[b] = Height[p] + 1
        BY Zenon, TreeAssumption
    <2>3. Height[b] \in Heights /\ Height[p] \in Heights
        BY Zenon, <2>2 DEF Heights
    <2>4. Height[p] \in Nat
        BY Zenon, <2>2, TreeAssumption
    <2>5. Height[p] # Height[b]
        BY <2>2, <2>4
    <2> QED
        BY Zenon, <2>1, <2>2, <2>3, <2>5
<1>2. Leaves' = (Leaves \ {p}) \cup {b}
    BY Zenon, LeavesAfterAdd DEF TipsInv
<1>3. b \notin Leaves /\ Leaves \subseteq Blocks
    BY Zenon, <1>1 DEF Leaves, TipsInv
<1>4. index' \subseteq Blocks /\ IndexClosed'
    BY Zenon, <1>1 DEF TipsInv, IndexClosed
<1>5. ASSUME NEW h \in Heights
      PROVE  /\ chainTips[h] \in Seq(Blocks) /\ Distinct(chainTips[h])
             /\ Elems(chainTips[h]) = LeavesAt(h)
             /\ chainTips'[h] = IF h = Height[b] THEN AddChainTip(chainTips[h], b)
                               ELSE IF h = Height[p]
                               THEN RemoveChainTip(chainTips[h], p)
                               ELSE chainTips[h]
    BY Zenon DEF TipsInv, AddNode
<1>6. ASSUME NEW h \in Heights
      PROVE  /\ chainTips'[h] \in Seq(Blocks)
             /\ Elems(chainTips'[h]) = LeavesAt(h)' /\ Distinct(chainTips'[h])
    <2>1. CASE h = Height[b]
        <3>1. LeavesAt(h)' = LeavesAt(h) \cup {b} /\ b \notin LeavesAt(h)
            BY Zenon, <1>1, <1>2, <1>3, <2>1 DEF LeavesAt
        <3> QED
            BY <1>5, <2>1, <3>1, AddFacts
    <2>2. CASE h = Height[p]
        <3>1. LeavesAt(h)' = LeavesAt(h) \ {p}
            BY Zenon, <1>1, <1>2, <1>3, <2>2 DEF LeavesAt
        <3>2. chainTips'[h] = RemoveChainTip(chainTips[h], p)
            BY Zenon, <1>1, <1>5, <2>2
        <3> QED
            BY <1>5, <3>1, <3>2, RemoveFacts
    <2>3. CASE h # Height[b] /\ h # Height[p]
        <3>1. LeavesAt(h)' = LeavesAt(h)
            BY Zenon, <1>2, <2>3 DEF LeavesAt
        <3> QED
            BY Zenon, <1>5, <2>3, <3>1
    <2> QED
        BY Zenon, <2>1, <2>2, <2>3
<1>7. chainTips' \in [Heights -> Seq(Blocks)]
    <2>1. chainTips' = [h \in Heights |-> chainTips'[h]]
        BY Zenon DEF AddNode
    <2> QED
        BY Zenon, <1>6, <2>1
<1>8. totalTips' = Cardinality(Leaves')
    <2>1. IsFiniteSet(Leaves) /\ Cardinality(Leaves) \in Nat
        BY Zenon, <1>3, FiniteAssumption, FS_Subset, FS_CardinalityType
    <2>2. IsFiniteSet(Leaves \ {p})
        BY Zenon, <2>1, FS_Subset
    <2>3. b \notin Leaves \ {p}
        BY Zenon, <1>3
    <2>4. Cardinality(Leaves') = Cardinality(Leaves \ {p}) + 1
        BY Zenon, <1>2, <2>2, <2>3, FS_AddElement
    <2>5. totalTips' = IF p \in Leaves THEN totalTips ELSE totalTips + 1
        <3>1. p \in Elems(chainTips[Height[p]]) <=> p \in Leaves
            BY Zenon, <1>1, <1>5 DEF LeavesAt
        <3> QED
            BY Zenon, <3>1 DEF AddNode
    <2>6. totalTips = Cardinality(Leaves)
        BY Zenon DEF TipsInv
    <2>7. CASE p \in Leaves
        <3>1. Cardinality(Leaves \ {p}) = Cardinality(Leaves) - 1
            BY Zenon, <2>1, <2>7, FS_RemoveElement
        <3> QED
            BY <2>1, <2>4, <2>5, <2>6, <2>7, <3>1
    <2>8. CASE p \notin Leaves
        <3>1. Leaves \ {p} = Leaves
            BY Zenon, <2>8
        <3> QED
            BY Zenon, <2>4, <2>5, <2>6, <2>8, <3>1
    <2> QED
        BY Zenon, <2>7, <2>8
<1> QED
    BY Zenon, <1>4, <1>6, <1>7, <1>8 DEF TipsInv

LEMMA TipsStep == TipsInv /\ [Next]_vars => TipsInv'
<1> SUFFICES ASSUME TipsInv, [Next]_vars PROVE TipsInv'
    OBVIOUS
<1>1. CASE AddSome
    BY Zenon, <1>1, TipsAfterAdd DEF AddSome
<1>2. CASE UNCHANGED <<index, chainTips, totalTips>>
    <2>1. Leaves' = Leaves
        BY Zenon, <1>2 DEF Leaves
    <2> QED
        BY Zenon, <1>2, <2>1 DEF TipsInv, IndexClosed, LeavesAt
<1> QED
    BY Zenon, <1>1, <1>2
    DEF Next, ConnectSome, ConnectBlock, DisconnectBlock, ReconsiderBlock, vars

\* Tips by height are all tips.
LEMMA TipsMeaning == TipsInv => TipsAreLeaves
<1> SUFFICES ASSUME TipsInv PROVE TipsAreLeaves
    OBVIOUS
<1>1. \A t \in Leaves : Height[t] \in Heights
    BY Zenon DEF TipsInv, Leaves, Heights
<1>2. AllTips = Leaves
    BY <1>1 DEF AllTips, TipsInv, LeavesAt
<1> QED
    BY <1>2 DEF TipsAreLeaves, TipsInv, LeavesAt, Distinct

\* addChainTip and removeChainTip keep the map of tips exact, for every tree and
\* every order of its headers: forEachChainTip visits each header without a known
\* child once, and totalTips is the number of them.
THEOREM TipsAreLeavesAlways == Spec => []TipsAreLeaves
<1>1. TipsInv => TipsAreLeaves
    BY Zenon, TipsMeaning
<1> QED
    BY TipsInit, TipsStep, <1>1, PTL DEF Spec

\* A proper descendant is higher.
LEMMA DescendantHigher ==
    ASSUME NEW t \in Blocks, NEW n \in Ancestors[t], n # t
    PROVE  Height[n] < Height[t]
<1>1. PICK c \in Ancestors[t] : Parent[c] = n
    BY Zenon, PathAssumption
<1>2. n \in Blocks /\ c \in Blocks /\ Height[c] <= Height[t]
    BY Zenon, PathAssumption, TreeAssumption
<1>3. c # Genesis
    BY Zenon, <1>1, <1>2, GenesisAssumption
<1> QED
    BY <1>1, <1>2, <1>3, TreeAssumption

\* While prunes only move the start height up, forEachChainTipAfterHeight visits
\* every chain tip above a known header, from the cache or from the map of all
\* tips: MarkBlockFailedValidation and ReconsiderBlock miss no descendant.
THEOREM DescendantTipsVisitedAlways == RisingSpec => []DescendantTipsVisited
<1>1. CacheInv /\ TipsInv => DescendantTipsVisited
    <2> SUFFICES ASSUME CacheInv, TipsInv, NEW n \in index, NEW t \in Leaves \ {n},
                        IsAncestorOf(n, t)
                 PROVE  t \in TipsAfterHeight(AllTips, cachedTips, cachedTipsStart, n)
        BY Zenon DEF DescendantTipsVisited
    <2>1. t \in Blocks /\ n \in Blocks /\ n \in Ancestors[t]
        BY Zenon DEF TipsInv, Leaves, IsAncestorOf
    <2>2. Height[n] < Height[t]
        BY Zenon, <2>1, DescendantHigher
    <2>3. Height[n] \in Nat /\ Height[t] \in Nat /\ cachedTipsStart \in Nat
        BY Zenon, <2>1, TreeAssumption DEF CacheInv, CacheTypeOK
    <2>4. t \in AllTips
        BY Zenon, TipsMeaning DEF TipsAreLeaves
    <2>5. Height[n] >= cachedTipsStart - 1 => t \in cachedTips
        BY <2>2, <2>3 DEF CacheInv, CacheComplete
    <2> QED
        BY Zenon, <2>2, <2>4, <2>5 DEF TipsAfterHeight
<1>2. [NextRising]_vars => [Next]_vars
    BY Zenon DEF NextRising, Next, ConnectRising, ReconsiderRising
<1> QED
    BY CacheInit, CacheStep, TipsInit, TipsStep, <1>1, <1>2, PTL DEF RisingSpec
=============================================================================

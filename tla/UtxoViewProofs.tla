----------------------------- MODULE UtxoViewProofs ---------------------------
(***************************************************************************)
(* What connecting and disconnecting a block does to a view of the unspent *)
(* outputs, for every block, tree of blocks and set of transactions.       *)
(*                                                                         *)
(* The loops over the transactions of a tree are recursive functions.      *)
(* Each gets a closed form, which satisfies the same recursion; that the   *)
(* two agree is shown by the least number at which they would not.  The    *)
(* rest is about sets: the effect of a tree, of a block, and of a          *)
(* disapproved parent on one output.                                       *)
(***************************************************************************)
EXTENDS UtxoView, NaturalsInduction, WellFoundedInduction, TLAPS

\* A set of numbers that is not empty has a least element.
LEMMA LeastNumber ==
    ASSUME NEW T \in SUBSET Nat, T # {}
    PROVE  \E m \in T : \A k \in T : m <= k
<1>1. IsWellFoundedOn(OpToRel(<, Nat), Nat)
  BY Zenon, NatLessThanWellFounded
<1>2. PICK m \in T : \A k \in T : ~(<<k, m>> \in OpToRel(<, Nat))
  BY Zenon, <1>1, WFMin
<1>3. \A k \in T : ~(k < m)
  <2> TAKE k \in T
  <2>1. k \in Nat /\ m \in Nat
    OBVIOUS
  <2>2. <<k, m>> \in Nat \X Nat
    BY Zenon, <2>1
  <2>3. ~(<<k, m>> \in OpToRel(<, Nat))
    BY Zenon, <1>2
  <2> QED BY <2>1, <2>2, <2>3 DEF OpToRel
<1> QED BY <1>3

\* Induction for the loops: two functions that begin alike and go on alike
\* are alike.
LEMMA SameUpTo ==
    ASSUME NEW n \in Nat, NEW f, NEW g, f[0] = g[0],
           \A i \in 1..n : f[i - 1] = g[i - 1] => f[i] = g[i]
    PROVE  f[n] = g[n]
<1> DEFINE T == {i \in 0..n : f[i] # g[i]}
<1> SUFFICES ASSUME T # {} PROVE FALSE
  OBVIOUS
<1>1. T \in SUBSET Nat
  OBVIOUS
<1>2. PICK m \in T : \A k \in T : m <= k
  BY Zenon, <1>1, LeastNumber
<1>3. m \in 1..n
  BY <1>2
<1>4. m - 1 \in 0..n /\ m - 1 \notin T
  BY <1>2, <1>3
<1> QED BY <1>3, <1>4

-----------------------------------------------------------------------------
\* What a view says after the first n transactions of a tree are connected.
ConnectedUpTo(view, txns, zeroConfOuts, n) ==
    [o \in Outputs |->
        IF \E i \in 1..n : o \in Ins[txns[i]]
        THEN IF o \in zeroConfOuts THEN "zeroconf" ELSE "spent"
        ELSE IF \E i \in 1..n : o \in Outs[txns[i]] THEN "unspent" ELSE view[o]]

\* The loop of connectTransactions in closed form, when the inputs that the tree
\* does not create itself are there: nothing panics.
LEMMA ConnectTree ==
    ASSUME NEW view \in [Outputs -> ViewStates], NEW txns \in Seq(Txns), NEW zero,
           InOrder(txns),
           \A o \in InsOf(Range(txns)) \ OutsOf(Range(txns)) :
               view[o] \in {"loaded", "unspent"}
    PROVE  ConnectTransactions(view, txns, zero) =
               ConnectedUpTo(view, txns, zero, Len(txns))
<1> DEFINE n == Len(txns)
           Eq(f) == f = [i \in 0..n |->
                            IF i = 0 THEN view
                            ELSE ConnectTransaction(f[i - 1], txns[i], zero)]
           closed == [i \in 0..n |-> ConnectedUpTo(view, txns, zero, i)]
           after == CHOOSE f : Eq(f)
<1>1. n \in Nat /\ DOMAIN txns = 1..n /\ \A i \in 1..n : txns[i] \in Txns
  OBVIOUS
<1>2. ConnectTransactions(view, txns, zero) = after[n]
  BY Zenon DEF ConnectTransactions
<1>3. ASSUME NEW i \in 1..n
      PROVE  closed[i] = ConnectTransaction(closed[i - 1], txns[i], zero)
  <2>1. i - 1 \in 0..n /\ i \in 0..n /\ 1..i = 1..(i - 1) \cup {i}
    BY <1>1
  <2>2. SUFFICES ASSUME NEW o \in Outputs
                 PROVE  closed[i][o] =
                            ConnectTransaction(closed[i - 1], txns[i], zero)[o]
    BY Zenon, <2>1 DEF ConnectedUpTo, ConnectTransaction, AddTxOuts
  <2>3. CASE o \in Outs[txns[i]]
    <3>1. \A j \in 1..i : o \notin Ins[txns[j]]
      BY <1>1, <2>1, <2>3 DEF InOrder
    <3> QED BY <2>1, <2>3, <3>1 DEF ConnectedUpTo, ConnectTransaction, AddTxOuts
  <2>4. CASE o \notin Outs[txns[i]] /\ o \in Ins[txns[i]]
    <3>1. \A j \in 1..(i - 1) : o \notin Ins[txns[j]]
      BY <1>1, <2>1, <2>4 DEF InOrder
    <3>2. CASE \E j \in 1..(i - 1) : o \in Outs[txns[j]]
      <4>1. closed[i - 1][o] = "unspent"
        BY Zenon, <2>1, <3>1, <3>2 DEF ConnectedUpTo
      <4> QED BY <2>1, <2>4, <4>1 DEF ConnectedUpTo, ConnectTransaction, AddTxOuts
    <3>3. CASE ~\E j \in 1..(i - 1) : o \in Outs[txns[j]]
      <4>1. \A j \in 1..n : o \notin Outs[txns[j]]
        BY <1>1, <2>1, <2>4, <3>3 DEF InOrder
      <4>2. o \in InsOf(Range(txns)) \ OutsOf(Range(txns))
        BY <1>1, <2>4, <4>1 DEF InsOf, OutsOf, Range
      <4>3. closed[i - 1][o] \in {"loaded", "unspent"}
        BY Zenon, <2>1, <3>1, <3>3, <4>2 DEF ConnectedUpTo
      <4> QED BY <2>1, <2>4, <4>3 DEF ConnectedUpTo, ConnectTransaction, AddTxOuts
    <3> QED BY <3>2, <3>3
  <2>5. CASE o \notin Outs[txns[i]] /\ o \notin Ins[txns[i]]
    BY Zenon, <2>1, <2>5 DEF ConnectedUpTo, ConnectTransaction, AddTxOuts
  <2> QED BY <2>3, <2>4, <2>5
<1>4. closed[0] = view
  BY <1>1 DEF ConnectedUpTo
<1>5. \A i \in 0..n : closed[i] = IF i = 0 THEN view
                                 ELSE ConnectTransaction(closed[i - 1], txns[i], zero)
  <2> HIDE DEF closed
  <2> QED BY <1>1, <1>3, <1>4
<1>6. Eq(closed)
  <2> DEFINE again == [i \in 0..n |->
                          IF i = 0 THEN view
                          ELSE ConnectTransaction(closed[i - 1], txns[i], zero)]
  <2>1. \A i \in 0..n : closed[i] = again[i]
    BY Zenon, <1>5
  <2>2. closed = again
    BY Zenon, <2>1
  <2> QED BY <2>2
<1>7. Eq(after)
  BY <1>6, Zenon
<1>8. \A i \in 0..n : after[i] = IF i = 0 THEN view
                                ELSE ConnectTransaction(after[i - 1], txns[i], zero)
  <2> HIDE DEF after
  <2> QED BY <1>7
<1> HIDE DEF after, closed
<1>9. after[0] = closed[0]
  BY <1>1, <1>4, <1>8
<1>10. \A i \in 1..n : after[i - 1] = closed[i - 1] => after[i] = closed[i]
  BY <1>1, <1>3, <1>8
<1>11. after[n] = closed[n]
  BY Zenon, <1>1, <1>9, <1>10, SameUpTo
<1> QED BY <1>1, <1>2, <1>11 DEF closed

\* The same for one output of the whole tree.
LEMMA ConnectTransactionsEffect ==
    ASSUME NEW view \in [Outputs -> ViewStates], NEW txns \in Seq(Txns), NEW zero,
           InOrder(txns),
           \A o \in InsOf(Range(txns)) \ OutsOf(Range(txns)) :
               view[o] \in {"loaded", "unspent"},
           NEW o \in Outputs
    PROVE  ConnectTransactions(view, txns, zero)[o] =
               IF o \in InsOf(Range(txns))
               THEN IF o \in zero THEN "zeroconf" ELSE "spent"
               ELSE IF o \in OutsOf(Range(txns)) THEN "unspent" ELSE view[o]
<1>1. DOMAIN txns = 1..Len(txns)
  OBVIOUS
<1>2. ConnectTransactions(view, txns, zero) =
          ConnectedUpTo(view, txns, zero, Len(txns))
  BY ConnectTree, Zenon
<1>3. o \in InsOf(Range(txns)) <=> \E i \in 1..Len(txns) : o \in Ins[txns[i]]
  BY Zenon, <1>1 DEF InsOf, Range
<1>4. o \in OutsOf(Range(txns)) <=> \E i \in 1..Len(txns) : o \in Outs[txns[i]]
  BY Zenon, <1>1 DEF OutsOf, Range
<1> QED BY <1>2, <1>3, <1>4 DEF ConnectedUpTo

-----------------------------------------------------------------------------
\* What a view says after the last n transactions of a tree are disconnected.
DisconnectedUpTo(view, txns, zeroConfOuts, n) ==
    [o \in Outputs |->
        LET last    == (Len(txns) + 1 - n)..Len(txns)
            spent   == \E i \in last : o \in Ins[txns[i]]
            created == \E i \in last : o \in Outs[txns[i]]
        IN  IF created
            THEN IF o \in zeroConfOuts THEN "zeroconf"
                 ELSE IF ~spent /\ view[o] \in {"gone", "spent", "zeroconf"} THEN view[o]
                 ELSE "spent"
            ELSE IF spent THEN "unspent" ELSE view[o]]

\* The loop of disconnectTransactions, which runs backwards, in closed form.
LEMMA DisconnectTree ==
    ASSUME NEW view \in [Outputs -> ViewStates], NEW txns \in Seq(Txns), NEW zero,
           InOrder(txns)
    PROVE  DisconnectTransactions(view, txns, zero) =
               DisconnectedUpTo(view, txns, zero, Len(txns))
<1> DEFINE n == Len(txns)
           Step(f, i) == DisconnectTransaction(f[i - 1], txns[n + 1 - i], zero)
           Eq(f) == f = [i \in 0..n |-> IF i = 0 THEN view ELSE Step(f, i)]
           closed == [i \in 0..n |-> DisconnectedUpTo(view, txns, zero, i)]
           after == CHOOSE f : Eq(f)
<1>1. n \in Nat /\ DOMAIN txns = 1..n /\ \A i \in 1..n : txns[i] \in Txns
  OBVIOUS
<1>2. DisconnectTransactions(view, txns, zero) = after[n]
  BY Zenon DEF DisconnectTransactions
<1>3. ASSUME NEW i \in 1..n
      PROVE  closed[i] = Step(closed, i)
  <2> DEFINE k == n + 1 - i
  <2>1. /\ i - 1 \in 0..n /\ i \in 0..n /\ k \in 1..n
        /\ (n + 1 - i)..n = {k} \cup (n + 1 - (i - 1))..n
        /\ \A j \in (n + 1 - (i - 1))..n : j \in 1..n /\ k < j
    BY <1>1
  <2> HIDE DEF k
  <2>2. SUFFICES ASSUME NEW o \in Outputs
                 PROVE  closed[i][o] = Step(closed, i)[o]
    BY Zenon, <2>1 DEF DisconnectedUpTo, DisconnectTransaction, k
  <2>3. closed[i - 1][o] = DisconnectedUpTo(view, txns, zero, i - 1)[o]
    BY Zenon, <2>1
  <2>4. CASE o \in Ins[txns[k]]
    <3>1. \A j \in (n + 1 - i)..n : o \notin Outs[txns[j]]
      <4> TAKE j \in (n + 1 - i)..n
      <4>1. j \in 1..n /\ k <= j
        BY <1>1, <2>1
      <4>2. Ins[txns[k]] \cap Outs[txns[j]] = {}
        BY Zenon, <1>1, <2>1, <4>1 DEF InOrder
      <4> QED BY <2>4, <4>2
    <3>2. closed[i][o] = "unspent"
      BY Zenon, <2>1, <2>4, <3>1 DEF DisconnectedUpTo
    <3> QED BY <2>4, <3>2 DEF DisconnectTransaction, k
  <2>5. CASE o \notin Ins[txns[k]] /\ o \in Outs[txns[k]]
    <3>1. \A j \in (n + 1 - (i - 1))..n : o \notin Outs[txns[j]]
      <4> TAKE j \in (n + 1 - (i - 1))..n
      <4>1. j \in 1..n /\ k # j
        BY <1>1, <2>1
      <4>2. txns[k] # txns[j] /\ txns[k] \in Txns /\ txns[j] \in Txns
        BY Zenon, <1>1, <2>1, <4>1 DEF InOrder
      <4> QED BY <2>5, <4>2, TxnAssumption
    <3>2. closed[i - 1][o] = IF \E j \in (n + 1 - (i - 1))..n : o \in Ins[txns[j]]
                             THEN "unspent" ELSE view[o]
      BY Zenon, <2>1, <3>1 DEF DisconnectedUpTo
    <3>3. Step(closed, i)[o] =
              IF o \in zero THEN "zeroconf"
              ELSE IF closed[i - 1][o] \in {"gone", "spent", "zeroconf"}
              THEN closed[i - 1][o] ELSE "spent"
      BY Zenon, <2>5 DEF DisconnectTransaction, k
    <3>4. closed[i][o] =
              IF o \in zero THEN "zeroconf"
              ELSE IF /\ ~\E j \in (n + 1 - (i - 1))..n : o \in Ins[txns[j]]
                      /\ view[o] \in {"gone", "spent", "zeroconf"}
              THEN view[o] ELSE "spent"
      BY Zenon, <2>1, <2>5 DEF DisconnectedUpTo
    <3> HIDE DEF closed, Step
    <3> QED BY <3>2, <3>3, <3>4
  <2>6. CASE o \notin Ins[txns[k]] /\ o \notin Outs[txns[k]]
    <3>1. Step(closed, i)[o] = closed[i - 1][o]
      BY Zenon, <2>6 DEF DisconnectTransaction, k
    <3>2. closed[i][o] = closed[i - 1][o]
      BY Zenon, <2>1, <2>6 DEF DisconnectedUpTo
    <3> QED BY <3>1, <3>2
  <2> QED BY <2>4, <2>5, <2>6
<1>4. closed[0] = view
  <2>1. (n + 1 - 0)..n = {}
    BY <1>1
  <2> QED BY <1>1, <2>1 DEF DisconnectedUpTo
<1>5. \A i \in 0..n : closed[i] = IF i = 0 THEN view ELSE Step(closed, i)
  <2> HIDE DEF closed, Step
  <2> QED BY <1>1, <1>3, <1>4
<1>6. Eq(closed)
  <2> DEFINE again == [i \in 0..n |-> IF i = 0 THEN view ELSE Step(closed, i)]
  <2>1. \A i \in 0..n : closed[i] = again[i]
    BY Zenon, <1>5
  <2>2. closed = again
    BY Zenon, <2>1
  <2> QED BY <2>2
<1>7. Eq(after)
  BY <1>6, Zenon
<1>8. \A i \in 0..n : after[i] = IF i = 0 THEN view ELSE Step(after, i)
  <2>1. after = [i \in 0..n |-> IF i = 0 THEN view ELSE Step(after, i)]
    BY Zenon, <1>7
  <2> HIDE DEF after, Step, Eq, closed
  <2> QED BY Zenon, <2>1
<1>9. after[0] = closed[0]
  <2> HIDE DEF after, closed, Step
  <2> QED BY <1>1, <1>4, <1>8
<1>10. \A i \in 1..n : after[i - 1] = closed[i - 1] => after[i] = closed[i]
  <2> TAKE i \in 1..n
  <2> HAVE after[i - 1] = closed[i - 1]
  <2>1. Step(after, i) = Step(closed, i)
    OBVIOUS
  <2> HIDE DEF after, closed, Step
  <2> QED BY <1>1, <1>3, <1>8, <2>1
<1>11. after[n] = closed[n]
  <2> HIDE DEF after, closed, Step
  <2> QED BY <1>1, <1>9, <1>10, SameUpTo
<1> HIDE DEF after
<1> QED BY <1>1, <1>2, <1>11

\* The same for one output of the whole tree.
LEMMA DisconnectTransactionsEffect ==
    ASSUME NEW view \in [Outputs -> ViewStates], NEW txns \in Seq(Txns), NEW zero,
           InOrder(txns), NEW o \in Outputs
    PROVE  DisconnectTransactions(view, txns, zero)[o] =
               IF o \in OutsOf(Range(txns))
               THEN IF o \in zero THEN "zeroconf"
                    ELSE IF /\ o \notin InsOf(Range(txns))
                            /\ view[o] \in {"gone", "spent", "zeroconf"}
                    THEN view[o] ELSE "spent"
               ELSE IF o \in InsOf(Range(txns)) THEN "unspent" ELSE view[o]
<1>1. /\ DOMAIN txns = 1..Len(txns) /\ Len(txns) \in Nat
      /\ (Len(txns) + 1 - Len(txns))..Len(txns) = 1..Len(txns)
  OBVIOUS
<1>2. DisconnectTransactions(view, txns, zero) =
          DisconnectedUpTo(view, txns, zero, Len(txns))
  BY DisconnectTree, Zenon
<1>3. o \in InsOf(Range(txns)) <=> \E i \in 1..Len(txns) : o \in Ins[txns[i]]
  BY Zenon, <1>1 DEF InsOf, Range
<1>4. o \in OutsOf(Range(txns)) <=> \E i \in 1..Len(txns) : o \in Outs[txns[i]]
  BY Zenon, <1>1 DEF OutsOf, Range
<1> QED BY <1>1, <1>2, <1>3, <1>4 DEF DisconnectedUpTo

-----------------------------------------------------------------------------
\* The trees of a block are sequences of transactions.
LEMMA TreeTypes ==
    ASSUME NEW b \in Blocks
    PROVE  /\ Regular[b] \in Seq(Txns) /\ Stake[b] \in Seq(Txns)
           /\ Range(Regular[b]) \subseteq Txns /\ Range(Stake[b]) \subseteq Txns
<1>1. Regular[b] \in Seq(Txns) /\ Stake[b] \in Seq(Txns)
  BY Zenon, TxnAssumption
<1> QED BY <1>1 DEF Range

\* What is connected below a block are transactions.
LEMMA BelowSubset ==
    ASSUME NEW b \in Blocks
    PROVE  Below(b) \subseteq Txns
<1>1. Ancestors[b] \subseteq Blocks
  BY Zenon, TreeAssumption
<1>2. \A a \in Blocks : Range(Regular[a]) \subseteq Txns /\ Range(Stake[a]) \subseteq Txns
  BY Zenon, TreeTypes
<1> QED BY <1>1, <1>2 DEF Below

\* Below a block is the chain of its parent, without the regular tree of the
\* parent if the block disapproves it.
LEMMA BelowParent ==
    ASSUME NEW n \in Blocks \ {Genesis}
    PROVE  /\ Parent[n] \in Blocks
           /\ Below(n) = IF n \in Approves THEN ConnectedTxns(Parent[n])
                         ELSE Below(Parent[n]) \cup Range(Stake[Parent[n]])
<1> DEFINE p == Parent[n]
           At(a, b) == Range(Stake[a]) \cup
                           (IF Disapproved(a, b) THEN {} ELSE Range(Regular[a]))
<1>1. p \in Blocks /\ Height[n] = Height[p] + 1 /\ Ancestors[n] = Ancestors[p] \cup {n}
  BY Zenon, TreeAssumption, AncestorAssumption
<1>2. Height[p] \in Nat /\ Ancestors[p] \subseteq Blocks
  BY Zenon, <1>1, TreeAssumption
<1>3. n \notin Ancestors[p]
  BY <1>1, <1>2, PathAssumption
<1>4. p \in Ancestors[p]
  BY <1>1, AncestorAssumption
<1>5. ~Disapproved(p, p)
  <2> SUFFICES ASSUME NEW c \in Ancestors[p], Parent[c] = p PROVE FALSE
    BY Zenon DEF Disapproved
  <2>1. c \in Blocks \ {Genesis}
    BY Zenon, <1>1, <1>2, GenesisAssumption
  <2>2. Height[c] = Height[p] + 1 /\ Height[c] <= Height[p]
    BY Zenon, <1>1, <2>1, TreeAssumption, PathAssumption
  <2> QED BY <1>2, <2>2
<1>6. \A a \in Ancestors[p] :
          Disapproved(a, n) <=> Disapproved(a, p) \/ (n \notin Approves /\ a = p)
  BY Zenon, <1>1, <1>3 DEF Disapproved
<1>7. Below(n) = UNION {At(a, n) : a \in Ancestors[p]}
  <2>1. Ancestors[n] \ {n} = Ancestors[p]
    BY Zenon, <1>1, <1>3
  <2> QED BY <2>1 DEF Below
<1>8. Below(n) = (UNION {At(a, n) : a \in Ancestors[p] \ {p}}) \cup At(p, n)
  BY <1>4, <1>7
<1>9. \A a \in Ancestors[p] \ {p} : At(a, n) = At(a, p)
  BY Zenon, <1>6
<1>10. UNION {At(a, n) : a \in Ancestors[p] \ {p}} = Below(p)
  BY Zenon, <1>9 DEF Below
<1>11. At(p, n) = IF n \in Approves THEN TxnsOf(p) ELSE Range(Stake[p])
  BY Zenon, <1>4, <1>5, <1>6 DEF TxnsOf
<1> QED BY <1>1, <1>8, <1>10, <1>11 DEF ConnectedTxns

\* No chain spends what it does not create: by the lowest block below which
\* one would.
LEMMA SpendsCreated ==
    ASSUME NEW b \in Blocks
    PROVE  InsOf(Below(b)) \subseteq OutsOf(Below(b))
<1> DEFINE Good(T) == InsOf(T) \subseteq OutsOf(T)
           T == {Height[c] : c \in {d \in Blocks : ~Good(Below(d))}}
<1>1. ASSUME NEW c \in Blocks, Good(Below(c))
      PROVE  Good(Below(c) \cup Range(Stake[c])) /\ Good(ConnectedTxns(c))
  <2>1. InsOf(Range(Stake[c])) \subseteq OutsOf(Below(c))
    BY Zenon, ValidAssumption DEF Unspent
  <2>2. InsOf(Range(Regular[c])) \subseteq
            OutsOf(Below(c)) \cup OutsOf(Range(Regular[c]))
    BY Zenon, ValidAssumption DEF Unspent
  <2>3. \A S1, S2 : /\ InsOf(S1 \cup S2) = InsOf(S1) \cup InsOf(S2)
                    /\ OutsOf(S1 \cup S2) = OutsOf(S1) \cup OutsOf(S2)
    BY Zenon DEF InsOf, OutsOf
  <2>4. Good(Below(c) \cup Range(Stake[c]))
    BY <1>1, <2>1, <2>3
  <2>5. ConnectedTxns(c) = (Below(c) \cup Range(Stake[c])) \cup Range(Regular[c])
    BY Zenon DEF ConnectedTxns, TxnsOf
  <2>6. Good(ConnectedTxns(c))
    BY <2>2, <2>3, <2>4, <2>5
  <2> QED BY <2>4, <2>6
<1> SUFFICES ASSUME T # {} PROVE FALSE
  OBVIOUS
<1>2. T \in SUBSET Nat
  BY TreeAssumption
<1>3. PICK m \in T : \A k \in T : m <= k
  BY Zenon, <1>2, LeastNumber
<1>4. PICK c \in Blocks : m = Height[c] /\ ~Good(Below(c))
  OBVIOUS
<1>5. c # Genesis
  <2>1. Below(Genesis) = {}
    BY Zenon, GenesisAssumption, AncestorAssumption DEF Below
  <2> QED BY <1>4, <2>1 DEF InsOf
<1>6. Parent[c] \in Blocks /\ Height[c] = Height[Parent[c]] + 1 /\ Height[Parent[c]] \in Nat
  BY Zenon, <1>5, TreeAssumption
<1>7. Good(Below(Parent[c]))
  <2>1. Height[Parent[c]] \notin T
    <3> HIDE DEF T
    <3> QED BY <1>3, <1>4, <1>6
  <2> QED BY <1>6, <2>1
<1>8. Good(Below(c))
  BY Zenon, <1>1, <1>5, <1>6, <1>7, BelowParent
<1> QED BY <1>4, <1>8

\* Different transactions have different outputs.
LEMMA OutsApart ==
    ASSUME NEW S1 \in SUBSET Txns, NEW S2 \in SUBSET Txns, S1 \cap S2 = {}
    PROVE  OutsOf(S1) \cap OutsOf(S2) = {}
BY TxnAssumption DEF OutsOf

\* An output in flight is one that a tree both creates and spends.
LEMMA InFlightOutputs ==
    ASSUME NEW txns \in Seq(Txns), InOrder(txns), NEW o \in Outputs
    PROVE  o \in InFlight(txns) <=> o \in OutsOf(Range(txns)) /\ o \in InsOf(Range(txns))
<1>1. DOMAIN txns = 1..Len(txns) /\ Len(txns) \in Nat
  OBVIOUS
<1>2. ASSUME o \in OutsOf(Range(txns)), o \in InsOf(Range(txns))
      PROVE  o \in InFlight(txns)
  <2>1. PICK i \in DOMAIN txns : o \in Outs[txns[i]]
    BY Zenon, <1>2 DEF OutsOf, Range
  <2>2. PICK j \in DOMAIN txns : o \in Ins[txns[j]]
    BY Zenon, <1>2 DEF InsOf, Range
  <2>3. ~(j <= i)
    BY Zenon, <2>1, <2>2 DEF InOrder
  <2> QED BY <1>1, <2>1, <2>2, <2>3 DEF InFlight
<1>3. o \in InFlight(txns) => o \in OutsOf(Range(txns)) /\ o \in InsOf(Range(txns))
  BY Zenon DEF InFlight, OutsOf, InsOf, Range
<1> QED BY <1>2, <1>3

\* What the two trees of a valid block may have to do with one output, and when
\* it is unspent after the stake tree and after the block.
LEMMA BlockOutputs ==
    ASSUME NEW b \in Blocks, NEW o \in Outputs
    PROVE  LET below   == o \in Unspent(Below(b))
               si == o \in InsOf(Range(Stake[b]))
               so == o \in OutsOf(Range(Stake[b]))
               ri == o \in InsOf(Range(Regular[b]))
               ro == o \in OutsOf(Range(Regular[b]))
           IN  /\ si => below /\ ~ri /\ ~so /\ ~ro
               /\ ri => (below \/ ro) /\ ~so
               /\ so => ~below /\ ~ro
               /\ ro => ~below
               /\ o \in InFlight(Regular[b]) <=> ri /\ ro
               /\ o \in Unspent(Below(b) \cup Range(Stake[b])) <=>
                      (below \/ so) /\ ~si
               /\ o \in UtxoSet(b) <=> (below \/ so \/ ro) /\ ~si /\ ~ri
               /\ so \/ ro => o \notin OutsOf(Below(b))
<1> DEFINE B == Below(b)
           S == Range(Stake[b])
           R == Range(Regular[b])
<1>1. B \subseteq Txns /\ S \subseteq Txns /\ R \subseteq Txns
  BY Zenon, BelowSubset, TreeTypes
<1>2. /\ S \cap R = {} /\ S \cap B = {} /\ R \cap B = {}
      /\ InsOf(S) \subseteq Unspent(B)
      /\ InsOf(R) \subseteq (Unspent(B) \ InsOf(S)) \cup OutsOf(R)
      /\ InOrder(Regular[b])
  BY Zenon, ValidAssumption DEF TxnsOf
<1>3. /\ OutsOf(S) \cap OutsOf(R) = {} /\ OutsOf(S) \cap OutsOf(B) = {}
      /\ OutsOf(R) \cap OutsOf(B) = {}
  BY Zenon, <1>1, <1>2, OutsApart
<1>4. InsOf(B) \subseteq OutsOf(B)
  BY Zenon, SpendsCreated
<1>5. o \in InFlight(Regular[b]) <=> o \in OutsOf(R) /\ o \in InsOf(R)
  BY Zenon, <1>2, TreeTypes, InFlightOutputs
<1>6. ConnectedTxns(b) = (B \cup S) \cup R
  BY Zenon DEF ConnectedTxns, TxnsOf
<1>7. \A S1, S2 : /\ InsOf(S1 \cup S2) = InsOf(S1) \cup InsOf(S2)
                  /\ OutsOf(S1 \cup S2) = OutsOf(S1) \cup OutsOf(S2)
  BY Zenon DEF InsOf, OutsOf
<1>8. o \in Unspent(B \cup S) <=> (o \in OutsOf(B) \cup OutsOf(S))
                                   /\ ~(o \in InsOf(B) \cup InsOf(S))
  BY Zenon, <1>7 DEF Unspent
<1>9. o \in UtxoSet(b) <=> (o \in OutsOf(B) \cup OutsOf(S) \cup OutsOf(R))
                            /\ ~(o \in InsOf(B) \cup InsOf(S) \cup InsOf(R))
  <2>1. UtxoSet(b) = Unspent((B \cup S) \cup R)
    BY Zenon, <1>6 DEF UtxoSet
  <2> HIDE DEF B, S, R
  <2>2. OutsOf((B \cup S) \cup R) = (OutsOf(B) \cup OutsOf(S)) \cup OutsOf(R)
    <3>1. OutsOf(B \cup S) = OutsOf(B) \cup OutsOf(S)
      BY Zenon, <1>7
    <3>2. OutsOf((B \cup S) \cup R) = OutsOf(B \cup S) \cup OutsOf(R)
      BY Zenon, <1>7
    <3> QED BY <3>1, <3>2, Zenon
  <2>3. InsOf((B \cup S) \cup R) = (InsOf(B) \cup InsOf(S)) \cup InsOf(R)
    <3>1. InsOf(B \cup S) = InsOf(B) \cup InsOf(S)
      BY Zenon, <1>7
    <3>2. InsOf((B \cup S) \cup R) = InsOf(B \cup S) \cup InsOf(R)
      BY Zenon, <1>7
    <3> QED BY <3>1, <3>2, Zenon
  <2> QED BY <2>1, <2>2, <2>3 DEF Unspent
<1>10. o \in Unspent(B) <=> o \in OutsOf(B) /\ o \notin InsOf(B)
  BY Zenon DEF Unspent
<1> HIDE DEF B, S, R
<1>11. (o \in InsOf(S)) => /\ o \in Unspent(B) /\ o \notin InsOf(R)
                           /\ o \notin OutsOf(S) /\ o \notin OutsOf(R)
  BY Zenon, <1>2, <1>3, <1>10
<1>12. (o \in InsOf(R)) => (o \in Unspent(B) \/ o \in OutsOf(R)) /\ o \notin OutsOf(S)
  BY Zenon, <1>2, <1>3, <1>10
<1>13. (o \in OutsOf(S)) => o \notin Unspent(B) /\ o \notin OutsOf(R)
  BY Zenon, <1>3, <1>10
<1>14. (o \in OutsOf(R)) => o \notin Unspent(B)
  BY Zenon, <1>3, <1>10
<1>15. o \in Unspent(B \cup S) <=>
           (o \in Unspent(B) \/ o \in OutsOf(S)) /\ ~(o \in InsOf(S))
  BY Zenon, <1>3, <1>4, <1>8, <1>10
<1>16. o \in UtxoSet(b) <=> (o \in Unspent(B) \/ o \in OutsOf(S) \/ o \in OutsOf(R))
                             /\ ~(o \in InsOf(S)) /\ ~(o \in InsOf(R))
  BY Zenon, <1>3, <1>4, <1>9, <1>10
<1>17. (o \in OutsOf(S) \/ o \in OutsOf(R)) => o \notin OutsOf(B)
  BY Zenon, <1>3
<1> QED BY <1>5, <1>11, <1>12, <1>13, <1>14, <1>15, <1>16, <1>17 DEF B, S, R

-----------------------------------------------------------------------------
\* A view between blocks: nothing modified, and right about what it has loaded.
Fits(view, utxos) ==
    /\ view \in [Outputs -> {"none", "loaded", "gone"}]
    /\ \A o \in Outputs : /\ view[o] = "loaded" => o \in utxos
                          /\ view[o] = "gone" => o \notin utxos

\* What the cache answers when the unspent outputs are utxos.
Answers(found, utxos) ==
    /\ found \in [Outputs -> {"nil", "loaded", "gone"}]
    /\ \A o \in Outputs : found[o] = "loaded" <=> o \in utxos

\* A view that leads from the unspent outputs old to new, at one output: modified
\* entries are those that change, except for revived outputs, which are there
\* before and after and still marked as modified.
TurnedAt(state, o, old, new, revived) ==
    /\ state \in ViewStates \ {"nil", "panic"}
    /\ state = "unspent" => o \in new /\ (o \in old => o \in revived)
    /\ state = "spent" => o \notin new
    /\ state = "zeroconf" => o \notin old /\ o \notin new
    /\ state \in {"none", "loaded", "gone"} => (o \in old <=> o \in new)
    /\ state = "loaded" => o \in new
    /\ state = "gone" => o \notin new

\* The same for all outputs.
Turned(view, old, new, revived) ==
    /\ view \in [Outputs -> ViewStates]
    /\ \A o \in Outputs : TurnedAt(view[o], o, old, new, revived)

\* fetchInputUtxos leaves a view.
LEMMA FetchTypes ==
    ASSUME NEW view \in [Outputs -> ViewStates], NEW utxos, NEW found,
           Answers(found, utxos), NEW regular, NEW stake
    PROVE  FetchInputs(view, regular, stake, found) \in [Outputs -> ViewStates]
BY Zenon DEF FetchInputs, Answers, ViewStates

\* connectTransactions leaves a view.
LEMMA ConnectTypes ==
    ASSUME NEW view \in [Outputs -> ViewStates], NEW txns \in Seq(Txns), NEW zero,
           InOrder(txns),
           \A o \in InsOf(Range(txns)) \ OutsOf(Range(txns)) :
               view[o] \in {"loaded", "unspent"}
    PROVE  ConnectTransactions(view, txns, zero) \in [Outputs -> ViewStates]
<1>1. ConnectTransactions(view, txns, zero) =
          ConnectedUpTo(view, txns, zero, Len(txns))
  BY ConnectTree, Zenon
<1> QED BY <1>1 DEF ConnectedUpTo, ViewStates

\* disconnectTransactions leaves a view.
LEMMA DisconnectTypes ==
    ASSUME NEW view \in [Outputs -> ViewStates], NEW txns \in Seq(Txns), NEW zero,
           InOrder(txns)
    PROVE  DisconnectTransactions(view, txns, zero) \in [Outputs -> ViewStates]
<1>1. DisconnectTransactions(view, txns, zero) =
          DisconnectedUpTo(view, txns, zero, Len(txns))
  BY DisconnectTree, Zenon
<1> QED BY <1>1 DEF DisconnectedUpTo, ViewStates

\* What bypasses the cache is in flight and unknown to the view.
LEMMA ZeroConfUnknown ==
    ASSUME NEW view, NEW txns \in Seq(Txns), NEW o \in ZeroConfOuts(view, txns)
    PROVE  o \in InFlight(txns) /\ view[o] \in {"none", "nil"}
<1>1. PICK i \in DOMAIN txns : o \in Outs[txns[i]]
  BY Zenon DEF ZeroConfOuts, InFlight
<1> QED BY <1>1 DEF ZeroConfOuts, Range

\* disconnectDisapprovedBlock leads from the outputs of the parent to what is
\* unspent below the block.
LEMMA UndoParentEffect ==
    ASSUME NEW n \in Blocks \ {Genesis}, NEW view, NEW found,
           Fits(view, UtxoSet(Parent[n])), Answers(found, UtxoSet(Parent[n]))
    PROVE  Turned(UndoParent(view, n, found), UtxoSet(Parent[n]),
                  Unspent(Below(n)), {})
<1> DEFINE p    == Parent[n]
           txns == Regular[p]
           zero == ZeroConfOuts(view, txns)
           w    == FetchInputs(view, txns, << >>, found)
           old  == UtxoSet(p)
           new  == Unspent(Below(n))
           u    == UndoParent(view, n, found)
<1>1. p \in Blocks
  BY Zenon, BelowParent
<1>2. view \in [Outputs -> ViewStates] /\ w \in [Outputs -> ViewStates]
  BY FetchTypes DEF Fits, ViewStates
<1>3. CASE n \in Approves
  <2>1. u = view
    BY Zenon, <1>3 DEF UndoParent
  <2>2. new = old
    BY Zenon, <1>3, BelowParent DEF UtxoSet
  <2> QED BY <1>2, <2>1, <2>2 DEF Turned, TurnedAt, Fits, ViewStates
<1>4. CASE n \notin Approves
  <2>1. u = DisconnectTransactions(w, txns, zero)
    BY Zenon, <1>4 DEF UndoParent
  <2>2. txns \in Seq(Txns) /\ InOrder(txns)
    BY Zenon, <1>1, TreeTypes, ValidAssumption
  <2>3. u \in [Outputs -> ViewStates]
    BY <1>2, <2>1, <2>2, DisconnectTypes
  <2>4. new = Unspent(Below(p) \cup Range(Stake[p]))
    BY Zenon, <1>4, BelowParent
  <2>5. ASSUME NEW o \in Outputs
        PROVE  TurnedAt(u[o], o, old, new, {})
    <3> DEFINE ro == o \in OutsOf(Range(txns))
               ri == o \in InsOf(Range(txns))
    <3>1. /\ ro => o \notin new
          /\ ri /\ ~ro => o \in new /\ o \notin old
          /\ ri => o \notin old
          /\ ~ri /\ ~ro => (o \in old <=> o \in new)
          /\ o \in InFlight(txns) <=> ri /\ ro
      BY Zenon, <1>1, <2>4, BlockOutputs
    <3>2. u[o] = IF ro
                 THEN IF o \in zero THEN "zeroconf"
                      ELSE IF ~ri /\ w[o] \in {"gone", "spent", "zeroconf"}
                      THEN w[o] ELSE "spent"
                 ELSE IF ri THEN "unspent" ELSE w[o]
      BY <1>2, <2>1, <2>2, DisconnectTransactionsEffect
    <3>3. ~ri => w[o] = view[o]
      BY <3>1 DEF FetchInputs, Needed, InsOf, Range
    <3>4. (o \in zero) => ri
      BY Zenon, <2>2, <3>1, ZeroConfUnknown
    <3>5. /\ view[o] \in {"none", "loaded", "gone"}
          /\ view[o] = "loaded" => o \in old
          /\ view[o] = "gone" => o \notin old
      BY Zenon DEF Fits
    <3> HIDE DEF ro, ri, w, u, old, new, zero
    <3> QED BY <3>1, <3>2, <3>3, <3>4, <3>5 DEF TurnedAt, ViewStates
  <2> QED BY <2>3, <2>5 DEF Turned
<1> QED BY <1>3, <1>4

\* UtxoViewpoint.connectBlock leads from the outputs of the parent to those of
\* the block, without a panic and as assertBlockUtxoView demands, from any view
\* between blocks and for whatever the cache answers, if it answers correctly.
THEOREM ConnectBlockEffect ==
    ASSUME NEW n \in Blocks \ {Genesis}, NEW view, NEW found,
           Fits(view, UtxoSet(Parent[n])), Answers(found, UtxoSet(Parent[n]))
    PROVE  /\ Turned(ViewConnectBlock(view, n, found), UtxoSet(Parent[n]),
                     UtxoSet(n), Revived(n))
           /\ AssertBlockUtxoView(ViewConnectBlock(view, n, found), n)
<1> DEFINE p    == Parent[n]
           u    == UndoParent(view, n, found)
           zero == ZeroConfOuts(u, Regular[n])
           w    == FetchInputs(u, Regular[n], Stake[n], found)
           x    == ConnectTransactions(w, Stake[n], {})
           v    == ViewConnectBlock(view, n, found)
           old  == UtxoSet(p)
           base == Unspent(Below(n))
           new  == UtxoSet(n)
           si(o) == o \in InsOf(Range(Stake[n]))
           so(o) == o \in OutsOf(Range(Stake[n]))
           ri(o) == o \in InsOf(Range(Regular[n]))
           ro(o) == o \in OutsOf(Range(Regular[n]))
<1>1. Turned(u, old, base, {})
  BY Zenon, UndoParentEffect
<1>2. v = ConnectTransactions(x, Regular[n], zero)
  BY Zenon DEF ViewConnectBlock
<1>3. /\ Regular[n] \in Seq(Txns) /\ Stake[n] \in Seq(Txns)
      /\ InOrder(Regular[n]) /\ InOrder(Stake[n])
  BY Zenon, TreeTypes, ValidAssumption
<1>4. u \in [Outputs -> ViewStates] /\ w \in [Outputs -> ViewStates]
  BY Zenon, <1>1, FetchTypes DEF Turned
<1>5. ASSUME NEW o \in Outputs
      PROVE  /\ si(o) => base = base /\ o \in base /\ ~ri(o) /\ ~so(o) /\ ~ro(o)
             /\ ri(o) => (o \in base \/ ro(o)) /\ ~so(o)
             /\ so(o) => o \notin base /\ ~ro(o)
             /\ ro(o) => o \notin base
             /\ o \in InFlight(Regular[n]) <=> ri(o) /\ ro(o)
             /\ o \in new <=> (o \in base \/ so(o) \/ ro(o)) /\ ~si(o) /\ ~ri(o)
             /\ so(o) \/ ro(o) => o \notin OutsOf(Below(n))
  BY Zenon, BlockOutputs
<1>6. \A o \in Outputs : TurnedAt(u[o], o, old, base, {})
  BY Zenon, <1>1 DEF Turned
<1>7. ASSUME NEW o \in Outputs
      PROVE  w[o] = IF (si(o) \/ (ri(o) /\ ~ro(o))) /\ u[o] = "none" THEN found[o]
                    ELSE IF ri(o) /\ ro(o) THEN "unspent" ELSE u[o]
  BY Zenon, <1>5 DEF FetchInputs, Needed
<1>8. ASSUME NEW o \in Outputs, o \in base, ~ro(o), si(o) \/ ri(o)
      PROVE  w[o] \in {"loaded", "unspent"}
  <2>1. found[o] = "loaded" <=> o \in old
    BY Zenon DEF Answers
  <2> HIDE DEF u, w, old, base, si, ri, ro
  <2> QED BY <1>6, <1>7, <1>8, <2>1 DEF TurnedAt, ViewStates
<1>9. \A o \in InsOf(Range(Stake[n])) \ OutsOf(Range(Stake[n])) :
          w[o] \in {"loaded", "unspent"}
  <2> TAKE o \in InsOf(Range(Stake[n])) \ OutsOf(Range(Stake[n]))
  <2>1. o \in Outputs
    BY TreeTypes, TxnAssumption DEF InsOf
  <2> HIDE DEF w, base
  <2> QED BY <1>5, <1>8, <2>1
<1>10. x \in [Outputs -> ViewStates]
  BY Zenon, <1>3, <1>4, <1>9, ConnectTypes
<1>11. ASSUME NEW o \in Outputs
       PROVE  x[o] = IF si(o) THEN "spent" ELSE IF so(o) THEN "unspent" ELSE w[o]
  <2>1. x[o] = IF o \in InsOf(Range(Stake[n]))
               THEN IF o \in {} THEN "zeroconf" ELSE "spent"
               ELSE IF o \in OutsOf(Range(Stake[n])) THEN "unspent" ELSE w[o]
    <3> HIDE DEF w
    <3> QED BY <1>3, <1>4, <1>9, ConnectTransactionsEffect
  <2> QED BY <2>1
<1>12. \A o \in InsOf(Range(Regular[n])) \ OutsOf(Range(Regular[n])) :
           x[o] \in {"loaded", "unspent"}
  <2> TAKE o \in InsOf(Range(Regular[n])) \ OutsOf(Range(Regular[n]))
  <2>1. o \in Outputs
    BY TreeTypes, TxnAssumption DEF InsOf
  <2> HIDE DEF x, w, base
  <2> QED BY <1>5, <1>8, <1>11, <2>1
<1>13. v \in [Outputs -> ViewStates]
  BY <1>2, <1>3, <1>10, <1>12, ConnectTypes
<1>14. ASSUME NEW o \in Outputs
       PROVE  v[o] = IF ri(o) THEN IF o \in zero THEN "zeroconf" ELSE "spent"
                     ELSE IF ro(o) THEN "unspent" ELSE x[o]
  <2> HIDE DEF x, zero, v
  <2> QED BY <1>2, <1>3, <1>10, <1>12, ConnectTransactionsEffect
<1>15. ASSUME NEW o \in zero
       PROVE  ro(o) /\ u[o] \in {"none", "nil"}
  <2>1. o \in InFlight(Regular[n]) /\ u[o] \in {"none", "nil"}
    BY Zenon, <1>3, ZeroConfUnknown
  <2>2. o \in Outputs
    BY Zenon, <2>1 DEF InFlight
  <2> QED BY <1>5, <2>1, <2>2
<1>16. ASSUME NEW o \in Outputs, o \in old, o \in new, so(o) \/ ro(o)
       PROVE  o \in Revived(n)
  <2>1. o \notin OutsOf(Below(n))
    BY Zenon, <1>5, <1>16
  <2>2. p \in Blocks /\ o \in OutsOf(ConnectedTxns(p))
    BY Zenon, <1>16, BelowParent DEF UtxoSet, Unspent
  <2>3. n \notin Approves
    BY Zenon, <2>1, <2>2, BelowParent
  <2>4. o \notin OutsOf(Below(p) \cup Range(Stake[p]))
    BY Zenon, <2>1, <2>3, BelowParent
  <2>5. o \in OutsOf(Range(Regular[p]))
    BY Zenon, <2>2, <2>4 DEF OutsOf, ConnectedTxns, TxnsOf
  <2> QED BY <1>16, <2>3, <2>5 DEF Revived
<1>17. ASSUME NEW o \in Outputs
       PROVE  TurnedAt(v[o], o, old, new, Revived(n))
  <2>1. TurnedAt(u[o], o, old, base, {})
    BY Zenon, <1>6
  <2>2. (o \in zero) => u[o] \in {"none", "nil"}
    BY Zenon, <1>15
  <2>3. so(o) \/ ro(o) => (o \in old /\ o \in new => o \in Revived(n))
    BY Zenon, <1>16
  <2> HIDE DEF u, w, x, v, zero, old, base, new, si, so, ri, ro
  <2>4. v[o] = IF ri(o) THEN IF o \in zero THEN "zeroconf" ELSE "spent"
               ELSE IF ro(o) THEN "unspent"
               ELSE IF si(o) THEN "spent" ELSE IF so(o) THEN "unspent" ELSE u[o]
    BY Zenon, <1>7, <1>11, <1>14
  <2>5. (o \in zero) => ro(o)
    BY Zenon, <1>15
  <2> QED BY <1>5, <2>1, <2>2, <2>3, <2>4, <2>5 DEF TurnedAt, ViewStates
<1>18. AssertBlockUtxoView(v, n)
  <2> SUFFICES ASSUME NEW t \in TxnsOf(n)
               PROVE  /\ \A o \in Ins[t] : v[o] \in {"spent", "gone", "zeroconf"}
                      /\ \A o \in Outs[t] :
                            v[o] \in IF o \in InFlight(Regular[n])
                                     THEN {"spent", "zeroconf"} ELSE {"unspent"}
    BY Zenon DEF AssertBlockUtxoView
  <2>1. t \in Txns /\ Ins[t] \subseteq Outputs /\ Outs[t] \subseteq Outputs
    BY Zenon, TreeTypes, TxnAssumption DEF TxnsOf
  <2>2. ASSUME NEW o \in Ins[t]
        PROVE  v[o] \in {"spent", "gone", "zeroconf"}
    <3>1. o \in Outputs /\ (si(o) \/ ri(o))
      BY Zenon, <2>1 DEF TxnsOf, InsOf
    <3> HIDE DEF v, x, w, base, si, so, ri, ro
    <3> QED BY <1>5, <1>11, <1>14, <3>1
  <2>3. ASSUME NEW o \in Outs[t]
        PROVE  v[o] \in IF o \in InFlight(Regular[n])
                        THEN {"spent", "zeroconf"} ELSE {"unspent"}
    <3>1. o \in Outputs /\ (so(o) \/ ro(o))
      BY Zenon, <2>1 DEF TxnsOf, OutsOf
    <3> HIDE DEF v, x, w, base, si, so, ri, ro
    <3> QED BY <1>5, <1>11, <1>14, <3>1
  <2> QED BY <2>2, <2>3
<1> QED BY <1>13, <1>17, <1>18 DEF Turned

\* The first half of UtxoViewpoint.disconnectBlock leads back to what is unspent
\* below the block.
LEMMA UndoBlockEffect ==
    ASSUME NEW n \in Blocks \ {Genesis}, NEW view, NEW found,
           Fits(view, UtxoSet(n)), Answers(found, UtxoSet(n))
    PROVE  Turned(UndoBlock(view, n, found), UtxoSet(n), Unspent(Below(n)), {})
<1> DEFINE zero == ZeroConfOuts(view, Regular[n])
           w    == FetchInputs(view, Regular[n], Stake[n], found)
           x    == DisconnectTransactions(w, Regular[n], zero)
           u    == UndoBlock(view, n, found)
           old  == UtxoSet(n)
           base == Unspent(Below(n))
           si(o) == o \in InsOf(Range(Stake[n]))
           so(o) == o \in OutsOf(Range(Stake[n]))
           ri(o) == o \in InsOf(Range(Regular[n]))
           ro(o) == o \in OutsOf(Range(Regular[n]))
<1>1. u = DisconnectTransactions(x, Stake[n], {})
  BY Zenon DEF UndoBlock
<1>2. /\ Regular[n] \in Seq(Txns) /\ Stake[n] \in Seq(Txns)
      /\ InOrder(Regular[n]) /\ InOrder(Stake[n])
  BY Zenon, TreeTypes, ValidAssumption
<1>3. view \in [Outputs -> ViewStates] /\ w \in [Outputs -> ViewStates]
  BY FetchTypes DEF Fits, ViewStates
<1>4. x \in [Outputs -> ViewStates]
  BY Zenon, <1>2, <1>3, DisconnectTypes
<1>5. u \in [Outputs -> ViewStates]
  BY <1>1, <1>2, <1>4, DisconnectTypes
<1>6. ASSUME NEW o \in Outputs
      PROVE  TurnedAt(u[o], o, old, base, {})
  <2>1. /\ si(o) => o \in base /\ ~ri(o) /\ ~so(o) /\ ~ro(o)
        /\ ri(o) => (o \in base \/ ro(o)) /\ ~so(o)
        /\ so(o) => o \notin base /\ ~ro(o)
        /\ ro(o) => o \notin base
        /\ o \in InFlight(Regular[n]) <=> ri(o) /\ ro(o)
        /\ o \in old <=> (o \in base \/ so(o) \/ ro(o)) /\ ~si(o) /\ ~ri(o)
    BY Zenon, BlockOutputs
  <2>2. ~si(o) /\ ~ri(o) => w[o] = view[o]
    BY Zenon, <2>1 DEF FetchInputs, Needed
  <2>3. x[o] = IF ro(o)
               THEN IF o \in zero THEN "zeroconf"
                    ELSE IF ~ri(o) /\ w[o] \in {"gone", "spent", "zeroconf"}
                    THEN w[o] ELSE "spent"
               ELSE IF ri(o) THEN "unspent" ELSE w[o]
    BY <1>2, <1>3, DisconnectTransactionsEffect
  <2>4. u[o] = IF so(o)
               THEN IF o \in {} THEN "zeroconf"
                    ELSE IF ~si(o) /\ x[o] \in {"gone", "spent", "zeroconf"}
                    THEN x[o] ELSE "spent"
               ELSE IF si(o) THEN "unspent" ELSE x[o]
    <3> HIDE DEF x
    <3> QED BY <1>1, <1>2, <1>4, DisconnectTransactionsEffect
  <2>5. (o \in zero) => ri(o)
    BY Zenon, <1>2, <2>1, ZeroConfUnknown
  <2>6. /\ view[o] \in {"none", "loaded", "gone"}
        /\ view[o] = "loaded" => o \in old
        /\ view[o] = "gone" => o \notin old
    BY Zenon DEF Fits
  <2> HIDE DEF u, w, x, zero, old, base, si, so, ri, ro
  <2> QED BY <2>1, <2>2, <2>3, <2>4, <2>5, <2>6 DEF TurnedAt, ViewStates
<1> QED BY <1>5, <1>6 DEF Turned

\* UtxoViewpoint.disconnectBlock, with the disapproved parent connected again,
\* leads from the outputs of the block to those of its parent.
THEOREM DisconnectBlockEffect ==
    ASSUME NEW n \in Blocks \ {Genesis}, NEW view, NEW found,
           Fits(view, UtxoSet(n)), Answers(found, UtxoSet(n))
    PROVE  Turned(ViewDisconnectBlock(view, n, found), UtxoSet(n),
                  UtxoSet(Parent[n]), Revived(n))
<1> DEFINE p    == Parent[n]
           txns == Regular[p]
           u    == UndoBlock(view, n, found)
           zero == ZeroConfOuts(u, txns)
           w    == FetchInputs(u, txns, << >>, found)
           v    == ViewDisconnectBlock(view, n, found)
           old  == UtxoSet(n)
           base == Unspent(Below(n))
           new  == UtxoSet(p)
           ri(o) == o \in InsOf(Range(txns))
           ro(o) == o \in OutsOf(Range(txns))
<1>1. Turned(u, old, base, {})
  BY Zenon, UndoBlockEffect
<1>2. p \in Blocks
  BY Zenon, BelowParent
<1>3. CASE n \in Approves
  <2>1. v = u
    BY Zenon, <1>3 DEF ViewDisconnectBlock, RedoParent
  <2>2. base = new
    BY Zenon, <1>3, BelowParent DEF UtxoSet
  <2>3. Revived(n) = {}
    BY Zenon, <1>3 DEF Revived
  <2> QED BY <1>1, <2>1, <2>2, <2>3
<1>4. CASE n \notin Approves
  <2>1. v = ConnectTransactions(w, txns, zero)
    BY Zenon, <1>4 DEF ViewDisconnectBlock, RedoParent
  <2>2. txns \in Seq(Txns) /\ InOrder(txns)
    BY Zenon, <1>2, TreeTypes, ValidAssumption
  <2>3. u \in [Outputs -> ViewStates] /\ w \in [Outputs -> ViewStates]
    BY Zenon, <1>1, FetchTypes DEF Turned
  <2>4. base = Unspent(Below(p) \cup Range(Stake[p]))
    BY Zenon, <1>4, BelowParent
  <2>5. ASSUME NEW o \in Outputs
        PROVE  /\ ro(o) => o \notin base
               /\ ri(o) /\ ~ro(o) => o \in base
               /\ o \in new <=> (o \in base \/ ro(o)) /\ ~ri(o)
               /\ o \in InFlight(txns) <=> ri(o) /\ ro(o)
    BY Zenon, <1>2, <2>4, BlockOutputs
  <2>6. ASSUME NEW o \in Outputs
        PROVE  w[o] = IF ri(o) /\ ~ro(o) /\ u[o] = "none" THEN found[o]
                      ELSE IF ri(o) /\ ro(o) THEN "unspent" ELSE u[o]
    BY <2>5 DEF FetchInputs, Needed, InsOf, Range
  <2>7. \A o \in Outputs : TurnedAt(u[o], o, old, base, {})
    BY Zenon, <1>1 DEF Turned
  <2>8. \A o \in InsOf(Range(txns)) \ OutsOf(Range(txns)) :
            w[o] \in {"loaded", "unspent"}
    <3> TAKE o \in InsOf(Range(txns)) \ OutsOf(Range(txns))
    <3>1. o \in Outputs
      BY <1>2, TreeTypes, TxnAssumption DEF InsOf
    <3>2. found[o] = "loaded" <=> o \in old
      BY Zenon, <3>1 DEF Answers
    <3>3. ri(o) /\ ~ro(o)
      OBVIOUS
    <3> HIDE DEF u, w, old, base, new, ri, ro
    <3> QED BY <2>5, <2>6, <2>7, <3>1, <3>2, <3>3 DEF TurnedAt, ViewStates
  <2>9. v \in [Outputs -> ViewStates]
    BY <2>1, <2>2, <2>3, <2>8, ConnectTypes
  <2>10. ASSUME NEW o \in Outputs
         PROVE  TurnedAt(v[o], o, old, new, Revived(n))
    <3>1. TurnedAt(u[o], o, old, base, {})
      BY Zenon, <2>7
    <3>2. v[o] = IF ri(o) THEN IF o \in zero THEN "zeroconf" ELSE "spent"
                 ELSE IF ro(o) THEN "unspent" ELSE w[o]
      <4> HIDE DEF w, zero, v
      <4> QED BY <2>1, <2>2, <2>3, <2>8, ConnectTransactionsEffect
    <3>3. (o \in zero) => ro(o) /\ u[o] \in {"none", "nil"}
      BY Zenon, <2>2, <2>5, ZeroConfUnknown
    <3>4. ro(o) => (o \in old /\ o \in new => o \in Revived(n))
      BY Zenon, <1>4 DEF Revived
    <3> HIDE DEF u, w, v, zero, old, base, new, ri, ro
    <3> QED BY <2>5, <2>6, <3>1, <3>2, <3>3, <3>4 DEF TurnedAt, ViewStates
  <2> QED BY <2>9, <2>10 DEF Turned
<1> QED BY <1>3, <1>4
====

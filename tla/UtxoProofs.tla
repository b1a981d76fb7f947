----------------------------- MODULE UtxoProofs -----------------------------
(***************************************************************************)
(* The cache of unspent outputs answers correctly, for every tree of valid *)
(* blocks, any interleaving of reorganizations, lookups, flushes and       *)
(* statistics, and through crashes at any step.                            *)
(*                                                                         *)
(* Two invariants are inductive.  JournalInv is about the two databases,   *)
(* and needs nothing about outputs: whatever a crash leaves, the journal   *)
(* covers the blocks a start has to detach.  UtxoInv is about the outputs: *)
(* cache and backend together are the outputs of one block, the view leads *)
(* from that block to the next, and what the cache claims about the        *)
(* backend is so.                                                          *)
(***************************************************************************)
EXTENDS UtxoCacheProperties, UtxoViewProofs

\* The block the chain is at after the block under way.
Destination == IF Connecting THEN node ELSE Parent[node]

\* The stored best block is that of the step reached, every database a crash may
\* leave has journal entries for its own chain, and, without flushes for the
\* statistics, for every block that only the backend has.
JournalInv ==
    /\ tip \in Blocks
    /\ survivors \subseteq [tip : Blocks, journal : SUBSET Blocks]
    /\ blockDB \in survivors
    /\ backend \in [utxos : SUBSET Outputs, state : Blocks]
    /\ statsTip \in Blocks \cup {NoBlock}
    /\ pc \in {"idle", "reorg", "put", "commit", "flush", "unjournal", "settip",
               "start"}
    /\ pc \notin {"idle", "start"} => target \in Blocks
    /\ pc \in {"put", "commit", "flush", "unjournal", "settip"} =>
           node \in Blocks \ {Genesis} /\ (node = tip \/ Parent[node] = tip)
    /\ pc = "unjournal" => node = tip
    /\ pc = "start" => node \in Blocks
    /\ blockDB.tip = IF pc \in {"commit", "flush", "unjournal", "settip"}
                     THEN Destination ELSE tip
    /\ \A db \in survivors : Ancestors[db.tip] \subseteq db.journal \cup {Genesis}
    /\ "stats" \notin beside =>
           /\ statsTip = NoBlock
           /\ JournalSuffices
           /\ pc = "unjournal" => backend.state = Parent[node]
           /\ pc = "start" =>
                  Ancestors[node] \ Ancestors[tip] \subseteq blockDB.journal \cup {Genesis}

\* What entries of the cache claim about the outputs stored in the backend.
Consistent(c, stored) ==
    /\ c \in [Outputs -> CacheStates]
    /\ \A o \in Outputs : /\ c[o] \in {"clean", "dirty", "spent"} => o \in stored
                          /\ c[o] \in {"nil", "fresh"} => o \notin stored

\* The block whose outputs cache and backend hold together: the tip moves later
\* than Commit, and during a start it stands still.
CommittedBlock ==
    CASE pc = "start"                            -> node
      [] pc \in {"flush", "unjournal", "settip"} -> Destination
      [] OTHER                                   -> tip

\* Cache and backend together hold the outputs of the block committed last; the
\* backend alone holds those of its stored state; the view is between blocks, or
\* leads from the tip to the block under way.
UtxoInv ==
    /\ ~({"stats", "crash"} \subseteq beside)
    /\ pc = "start" => "crash" \in beside
    /\ Consistent(cache, backend.utxos)
    /\ LookupSet = UtxoSet(CommittedBlock)
    /\ "stats" \notin beside => BackendInSync
    /\ pc \notin {"put", "commit"} => Fits(view, UtxoSet(CommittedBlock))
    /\ pc \in {"put", "commit"} => Turned(view, UtxoSet(tip), UtxoSet(Destination), {})
    /\ panicked = FALSE

\* The parent of a block and its chain.
LEMMA ParentFacts ==
    ASSUME NEW n \in Blocks \ {Genesis}
    PROVE  /\ Parent[n] \in Blocks
           /\ Ancestors[n] = Ancestors[Parent[n]] \cup {n}
           /\ n \notin Ancestors[Parent[n]]
           /\ Parent[n] # n
<1>1. Parent[n] \in Blocks /\ Height[n] = Height[Parent[n]] + 1 /\ Height[Parent[n]] \in Nat
  BY Zenon, TreeAssumption
<1> QED BY <1>1, AncestorAssumption, PathAssumption

\* Every chain reaches from its block to the genesis block.
LEMMA SelfAncestor ==
    ASSUME NEW n \in Blocks
    PROVE  n \in Ancestors[n] /\ Ancestors[n] \subseteq Blocks /\ Genesis \in Ancestors[n]
BY Zenon, AncestorAssumption, TreeAssumption, PathAssumption

\* The next block on the way to a descendant.
LEMMA NextFacts ==
    ASSUME NEW t \in Blocks, NEW a \in Ancestors[t], a # t
    PROVE  /\ NextOnPath(a, t) \in Blocks \ {Genesis}
           /\ NextOnPath(a, t) \in Ancestors[t]
           /\ Parent[NextOnPath(a, t)] = a
<1>1. \E n \in Ancestors[t] : Parent[n] = a
  BY Zenon, PathAssumption
<1>2. NextOnPath(a, t) \in Ancestors[t] /\ Parent[NextOnPath(a, t)] = a
  BY Zenon, <1>1 DEF NextOnPath
<1>3. a \in Blocks /\ NextOnPath(a, t) \in Blocks
  BY Zenon, <1>2, TreeAssumption
<1> QED BY <1>2, <1>3, GenesisAssumption

\* The contents of the block database, as far as outputs depend on them.
DB == [tip : Blocks, journal : SUBSET Blocks]

\* JournalInv holds when the node begins.
LEMMA JournalInit == Init => JournalInv
<1> SUFFICES ASSUME Init PROVE JournalInv
  OBVIOUS
<1>1. Ancestors[Genesis] = {Genesis} /\ Genesis \in Blocks
  BY Zenon, AncestorAssumption, GenesisAssumption
<1> QED BY <1>1 DEF Init, JournalInv, JournalSuffices

\* A flush at block b, when the journal covers what b has more than the stored
\* best chain.
LEMMA JournalFlush ==
    ASSUME NEW c, NEW b \in Blocks, FlushAs(c, b), blockDB' = blockDB, JournalInv,
           Ancestors[b] \ Ancestors[blockDB.tip] \subseteq blockDB.journal \cup {Genesis}
    PROVE  /\ survivors' = {blockDB}
           /\ backend' \in [utxos : SUBSET Outputs, state : Blocks]
           /\ backend'.state = b
           /\ JournalSuffices'
<1>1. survivors' = {blockDB} /\ backend' = PutUtxos(c, b)
  BY Zenon DEF FlushAs
<1>2. backend.utxos \subseteq Outputs
  BY Zenon DEF JournalInv
<1>3. backend' \in [utxos : SUBSET Outputs, state : Blocks] /\ backend'.state = b
  BY Zenon, <1>1, <1>2 DEF PutUtxos
<1> QED BY <1>1, <1>3 DEF JournalSuffices

\* The same when it is left open whether the flush takes place.
LEMMA JournalMaybeFlush ==
    ASSUME NEW c, NEW b \in Blocks, MaybeFlush(c, b), blockDB' = blockDB, JournalInv,
           Ancestors[b] \ Ancestors[blockDB.tip] \subseteq blockDB.journal \cup {Genesis}
    PROVE  /\ survivors' \in {survivors, {blockDB}}
           /\ backend' \in [utxos : SUBSET Outputs, state : Blocks]
           /\ JournalSuffices => JournalSuffices'
<1>1. CASE FlushAs(c, b)
  BY Zenon, <1>1, JournalFlush
<1>2. CASE cache' = c /\ UNCHANGED <<survivors, backend, lastFlush>>
  BY Zenon, <1>2 DEF JournalInv, JournalSuffices
<1> QED BY <1>1, <1>2 DEF MaybeFlush

\* Every step preserves JournalInv.  What is delicate is the removal of a journal
\* entry, after the flush that makes it superfluous, and a crash, after which an
\* older database may be the current one.
LEMMA JournalStep == JournalInv /\ [Next]_vars => JournalInv'
<1> SUFFICES ASSUME JournalInv, [Next]_vars PROVE JournalInv'
  OBVIOUS
<1>1. /\ tip \in Blocks /\ survivors \subseteq DB /\ blockDB \in survivors
      /\ backend \in [utxos : SUBSET Outputs, state : Blocks]
      /\ blockDB \in DB /\ blockDB.tip \in Blocks
      /\ \A db \in survivors : Ancestors[db.tip] \subseteq db.journal \cup {Genesis}
  BY Zenon DEF JournalInv, DB
<1>2. CASE UNCHANGED vars
  BY Zenon, <1>2 DEF JournalInv, JournalSuffices, Destination, Connecting, vars
<1> SUFFICES ASSUME Next PROVE JournalInv'
  BY Zenon, <1>2
<1>3. beside' = beside
  BY Zenon DEF Next
<1>4. ASSUME NEW b \in Blocks, Reorganize(b) PROVE JournalInv'
  BY Zenon, <1>3, <1>4 DEF Reorganize, JournalInv, JournalSuffices
<1>5. CASE ReorganizeDone
  <2>1. CASE FlushAs(cache, tip)
    <3>1. blockDB.tip = tip /\ blockDB' = blockDB
      BY Zenon, <1>5 DEF ReorganizeDone, JournalInv
    <3>2. /\ survivors' = {blockDB} /\ JournalSuffices'
          /\ backend' \in [utxos : SUBSET Outputs, state : Blocks]
      BY Zenon, <1>1, <2>1, <3>1, JournalFlush
    <3> QED BY <1>1, <1>3, <1>5, <3>1, <3>2 DEF ReorganizeDone, JournalInv, DB
  <2>2. CASE UNCHANGED <<survivors, backend, cache, lastFlush>>
    BY Zenon, <1>3, <1>5, <2>2 DEF ReorganizeDone, JournalInv, JournalSuffices
  <2> QED BY <1>5, <2>1, <2>2 DEF ReorganizeDone
<1>6. CASE ConnectView
  <2>1. /\ pc = "reorg" /\ tip # target /\ tip \in Ancestors[target]
        /\ node' = NextOnPath(tip, target) /\ pc' = "put"
        /\ UNCHANGED <<tip, blockDB, survivors, backend, target, statsTip>>
        /\ target \in Blocks
    BY Zenon, <1>6 DEF ConnectView, IsAncestorOf, JournalInv
  <2>2. node' \in Blocks \ {Genesis} /\ Parent[node'] = tip
    BY Zenon, <2>1, NextFacts
  <2> QED BY <1>3, <2>1, <2>2 DEF JournalInv, JournalSuffices
<1>7. CASE DisconnectView
  <2>1. /\ pc = "reorg" /\ tip \notin Ancestors[target] /\ node' = tip /\ pc' = "put"
        /\ UNCHANGED <<tip, blockDB, survivors, backend, target, statsTip>>
        /\ target \in Blocks
    BY Zenon, <1>7 DEF DisconnectView, IsAncestorOf, JournalInv
  <2>2. tip # Genesis
    BY Zenon, <2>1, PathAssumption
  <2> QED BY <1>1, <1>3, <2>1, <2>2 DEF JournalInv, JournalSuffices
<1>8. CASE PutBestState
  <2>1. /\ pc = "put" /\ pc' = "commit" /\ survivors' = survivors \cup {blockDB'}
        /\ blockDB' = IF Connecting
                      THEN [tip |-> node, journal |-> blockDB.journal \cup {node}]
                      ELSE [blockDB EXCEPT !.tip = Parent[node]]
        /\ UNCHANGED <<tip, backend, target, node, statsTip>>
    BY Zenon, <1>8 DEF PutBestState
  <2>2. /\ node \in Blocks \ {Genesis} /\ (node = tip \/ Parent[node] = tip)
        /\ blockDB.tip = tip
    BY Zenon, <2>1 DEF JournalInv
  <2>3. /\ Parent[node] \in Blocks /\ node \notin Ancestors[Parent[node]]
        /\ Ancestors[node] = Ancestors[Parent[node]] \cup {node}
    BY Zenon, <2>2, ParentFacts
  <2>4. /\ blockDB' \in DB
        /\ blockDB'.tip = Destination
        /\ blockDB'.journal \in {blockDB.journal, blockDB.journal \cup {node}}
        /\ Connecting => node \in blockDB'.journal
    BY Zenon, <1>1, <2>1, <2>2, <2>3 DEF DB, Destination
  <2>5. Ancestors[tip] \subseteq blockDB.journal \cup {Genesis}
    BY Zenon, <1>1, <2>2
  <2>6. Ancestors[Destination] \subseteq blockDB'.journal \cup {Genesis}
    BY Zenon, <2>2, <2>3, <2>4, <2>5 DEF Destination, Connecting
  <2>7. JournalSuffices => JournalSuffices'
    <3> SUFFICES ASSUME JournalSuffices, NEW db \in survivors'
                 PROVE  Ancestors[backend.state] \ Ancestors[db.tip]
                            \subseteq db.journal \cup {Genesis}
      BY Zenon, <2>1 DEF JournalSuffices
    <3>1. CASE db \in survivors
      BY Zenon, <3>1 DEF JournalSuffices
    <3>2. CASE db = blockDB'
      <4>1. Ancestors[backend.state] \ Ancestors[tip] \subseteq blockDB.journal \cup {Genesis}
        BY Zenon, <1>1, <2>2 DEF JournalSuffices
      <4>2. CASE Connecting
        <5>1. Ancestors[tip] \subseteq Ancestors[Destination]
          BY Zenon, <2>2, <2>3, <4>2 DEF Connecting, Destination
        <5> QED BY <2>4, <3>2, <4>1, <5>1
      <4>3. CASE ~Connecting
        <5>1. node = tip /\ Destination = Parent[tip]
          BY Zenon, <4>3 DEF Connecting, Destination
        <5>2. Ancestors[tip] = Ancestors[Destination] \cup {tip} /\ tip # Genesis
          BY Zenon, <2>2, <2>3, <5>1
        <5>3. tip \in blockDB.journal
          BY Zenon, <2>5, <5>2
        <5> QED BY <2>4, <3>2, <4>1, <5>2, <5>3
      <4> QED BY <4>2, <4>3
    <3> QED BY <2>1, <3>1, <3>2
  <2>8. Destination' = Destination
    BY Zenon, <2>1 DEF Destination, Connecting
  <2> QED BY <1>1, <1>3, <2>1, <2>2, <2>4, <2>6, <2>7, <2>8 DEF JournalInv, DB
<1>9. CASE Commit
  BY Zenon, <1>3, <1>9 DEF Commit, JournalInv, JournalSuffices, Destination, Connecting
<1>10. CASE FlushConnected
  <2>1. /\ pc = "flush" /\ pc' = "settip" /\ node # tip
        /\ UNCHANGED <<tip, blockDB, target, node, statsTip>>
        /\ FlushAs(cache, node) \/ MaybeFlush(cache, node)
    BY Zenon, <1>10 DEF FlushConnected, Connecting
  <2>2. node \in Blocks \ {Genesis} /\ Parent[node] = tip /\ blockDB.tip = node
    BY Zenon, <2>1 DEF JournalInv, Destination, Connecting
  <2>3. /\ survivors' \in {survivors, {blockDB}}
        /\ backend' \in [utxos : SUBSET Outputs, state : Blocks]
        /\ JournalSuffices => JournalSuffices'
    BY Zenon, <1>1, <2>1, <2>2, JournalFlush, JournalMaybeFlush
  <2> QED BY <1>1, <1>3, <2>1, <2>2, <2>3 DEF JournalInv, DB, Destination, Connecting
<1>11. CASE FlushDisconnected
  <2>1. /\ pc = "flush" /\ pc' = "unjournal" /\ node = tip
        /\ UNCHANGED <<tip, blockDB, target, node, statsTip>>
        /\ FlushAs(cache, Parent[node])
    BY Zenon, <1>11 DEF FlushDisconnected, Connecting
  <2>2. node \in Blocks \ {Genesis} /\ blockDB.tip = Parent[node] /\ Parent[node] \in Blocks
    BY Zenon, <1>1, <2>1 DEF JournalInv, Destination, Connecting
  <2>3. /\ survivors' = {blockDB} /\ JournalSuffices' /\ backend'.state = Parent[node]
        /\ backend' \in [utxos : SUBSET Outputs, state : Blocks]
    BY Zenon, <1>1, <2>1, <2>2, JournalFlush
  <2> QED BY <1>1, <1>3, <2>1, <2>2, <2>3 DEF JournalInv, DB, Destination, Connecting
<1>12. CASE RemoveSpendJournalEntry
  <2>1. /\ pc = "unjournal" /\ pc' = "settip"
        /\ blockDB' = [blockDB EXCEPT !.journal = @ \ {node}]
        /\ survivors' = survivors \cup {blockDB'}
        /\ UNCHANGED <<tip, backend, target, node, statsTip>>
    BY Zenon, <1>12 DEF RemoveSpendJournalEntry
  <2>2. node \in Blocks \ {Genesis} /\ node = tip /\ blockDB.tip = Parent[node]
    BY Zenon, <2>1 DEF JournalInv, Destination, Connecting
  <2>3. Parent[node] \in Blocks /\ node \notin Ancestors[Parent[node]]
    BY Zenon, <2>2, ParentFacts
  <2>4. /\ blockDB' \in DB /\ blockDB'.tip = Parent[node]
        /\ blockDB'.journal = blockDB.journal \ {node}
    BY Zenon, <1>1, <2>1, <2>2 DEF DB
  <2>5. Ancestors[Parent[node]] \subseteq blockDB'.journal \cup {Genesis}
    BY Zenon, <1>1, <2>2, <2>3, <2>4
  <2>6. "stats" \notin beside => JournalSuffices'
    <3>1. ("stats" \notin beside) => JournalSuffices /\ backend.state = Parent[node]
      BY Zenon, <2>1 DEF JournalInv
    <3> QED BY <2>1, <2>4, <3>1 DEF JournalSuffices
  <2> QED BY <1>1, <1>3, <2>1, <2>2, <2>4, <2>5, <2>6
          DEF JournalInv, DB, Destination, Connecting
<1>13. CASE SetTip
  <2>1. /\ pc = "settip" /\ pc' = "reorg" /\ tip' = Destination
        /\ UNCHANGED <<blockDB, survivors, backend, target, statsTip>>
    BY Zenon, <1>13 DEF SetTip, Destination
  <2>2. blockDB.tip = Destination
    BY Zenon, <2>1 DEF JournalInv
  <2> QED BY <1>1, <1>3, <2>1, <2>2 DEF JournalInv, JournalSuffices
<1>14. CASE InitializeDetach
  <2>1. /\ pc = "start" /\ pc' = pc /\ node \notin Ancestors[tip] /\ node' = Parent[node]
        /\ UNCHANGED <<tip, blockDB, target, statsTip>>
        /\ \E c : MaybeFlush(c, Parent[node])
    BY Zenon, <1>14 DEF InitializeDetach, IsAncestorOf
  <2>2. node \in Blocks \ {Genesis} /\ blockDB.tip = tip
    BY <1>1, <2>1, PathAssumption DEF JournalInv
  <2>3. Parent[node] \in Blocks /\ Ancestors[node] = Ancestors[Parent[node]] \cup {node}
    BY Zenon, <2>2, ParentFacts
  <2>4. CASE "stats" \notin beside
    <3>1. Ancestors[Parent[node]] \ Ancestors[tip] \subseteq blockDB.journal \cup {Genesis}
      BY Zenon, <2>1, <2>3, <2>4 DEF JournalInv
    <3>2. /\ survivors' \in {survivors, {blockDB}}
          /\ backend' \in [utxos : SUBSET Outputs, state : Blocks]
          /\ JournalSuffices => JournalSuffices'
      BY Zenon, <2>1, <2>2, <2>3, <3>1, JournalMaybeFlush
    <3> QED BY <1>1, <1>3, <2>1, <2>2, <2>3, <3>1, <3>2 DEF JournalInv, DB
  <2>5. CASE "stats" \in beside
    <3>1. /\ survivors' \in {survivors, {blockDB}}
          /\ backend' \in [utxos : SUBSET Outputs, state : Blocks]
      BY <1>1, <2>1, <2>3 DEF MaybeFlush, FlushAs, PutUtxos
    <3> QED BY <1>1, <1>3, <2>1, <2>2, <2>3, <2>5, <3>1 DEF JournalInv, DB
  <2> QED BY <2>4, <2>5
<1>15. CASE InitializeReplay
  <2> DEFINE n == NextOnPath(node, tip)
  <2>1. /\ pc = "start" /\ pc' = pc /\ node # tip /\ node \in Ancestors[tip] /\ node' = n
        /\ UNCHANGED <<tip, blockDB, target, statsTip>>
        /\ \E c : MaybeFlush(c, n)
    BY Zenon, <1>15 DEF InitializeReplay, IsAncestorOf
  <2>2. blockDB.tip = tip
    BY Zenon, <2>1 DEF JournalInv
  <2>3. n \in Blocks \ {Genesis} /\ n \in Ancestors[tip]
    BY Zenon, <1>1, <2>1, NextFacts
  <2> HIDE DEF n
  <2>4. Ancestors[n] \ Ancestors[tip] = {}
    BY Zenon, <1>1, <2>3, PathAssumption
  <2>5. /\ survivors' \in {survivors, {blockDB}}
        /\ backend' \in [utxos : SUBSET Outputs, state : Blocks]
        /\ JournalSuffices => JournalSuffices'
    BY Zenon, <2>1, <2>2, <2>3, <2>4, JournalMaybeFlush
  <2> QED BY <1>1, <1>3, <2>1, <2>2, <2>3, <2>4, <2>5 DEF JournalInv, DB
<1>16. CASE InitializeDone
  BY Zenon, <1>3, <1>16 DEF InitializeDone, JournalInv, JournalSuffices
<1>17. ASSUME NEW o \in Outputs, FetchUtxoEntry(o) PROVE JournalInv'
  BY Zenon, <1>3, <1>17 DEF FetchUtxoEntry, JournalInv, JournalSuffices, Destination, Connecting
<1>18. CASE FetchUtxoStats
  BY Zenon, <1>3, <1>18 DEF FetchUtxoStats, JournalInv, JournalSuffices, Destination, Connecting
<1>19. CASE FlushForStats
  <2>1. /\ statsTip # NoBlock /\ FlushAs(cache, statsTip) /\ statsTip' = NoBlock
        /\ UNCHANGED <<tip, blockDB, pc, target, node>>
    BY Zenon, <1>19 DEF FlushForStats
  <2>2. "stats" \in beside /\ statsTip \in Blocks
    BY Zenon, <2>1 DEF JournalInv
  <2>3. /\ survivors' = {blockDB}
        /\ backend' \in [utxos : SUBSET Outputs, state : Blocks]
    BY Zenon, <1>1, <2>1, <2>2 DEF FlushAs, PutUtxos
  <2> QED BY <1>1, <1>3, <2>1, <2>2, <2>3 DEF JournalInv, DB, Destination, Connecting
<1>20. CASE Crash
  <2>1. PICK db \in survivors : StartFrom(db, backend.state)
    BY Zenon, <1>20 DEF Crash
  <2>2. /\ blockDB' = db /\ survivors' = {db} /\ tip' = db.tip /\ pc' = "start"
        /\ node' = backend.state /\ statsTip' = NoBlock /\ backend' = backend
    BY Zenon, <1>20, <2>1 DEF Crash, StartFrom
  <2>3. db \in DB /\ db.tip \in Blocks
    BY Zenon, <1>1 DEF DB
  <2>4. "stats" \notin beside =>
            Ancestors[backend.state] \ Ancestors[db.tip] \subseteq db.journal \cup {Genesis}
    BY Zenon DEF JournalInv, JournalSuffices
  <2> QED BY <1>1, <1>3, <2>2, <2>3, <2>4 DEF JournalInv, JournalSuffices, DB
<1>21. CASE Shutdown
  <2>1. /\ pc \in {"idle", "reorg"} /\ backend' = PutUtxos(cache, tip)
        /\ blockDB' = blockDB /\ survivors' = {blockDB} /\ tip' = blockDB.tip
        /\ pc' = "start" /\ node' = tip /\ statsTip' = NoBlock
    BY Zenon, <1>21 DEF Shutdown, StartFrom
  <2>2. blockDB.tip = tip
    BY Zenon, <2>1 DEF JournalInv
  <2>3. backend' \in [utxos : SUBSET Outputs, state : Blocks] /\ backend'.state = tip
    BY Zenon, <1>1, <2>1 DEF PutUtxos
  <2> QED BY <1>1, <1>3, <2>1, <2>2, <2>3 DEF JournalInv, JournalSuffices, DB
<1> QED
  BY Zenon, <1>4, <1>5, <1>6, <1>7, <1>8, <1>9, <1>10, <1>11, <1>12, <1>13, <1>14, <1>15,
     <1>16, <1>17, <1>18, <1>19, <1>20, <1>21 DEF Next, Step

\* Initialize never lacks a spend journal entry: whatever part of the block
\* database survives a crash, the entries of all blocks to detach are in it.  No
\* assumption on the transactions is needed.
THEOREM JournalSufficesAlways == Spec => []JournalSufficesWithoutStats
<1>1. JournalInv => JournalSufficesWithoutStats
  BY Zenon DEF JournalInv, JournalSufficesWithoutStats
<1> QED BY <1>1, JournalInit, JournalStep, PTL DEF Spec

-----------------------------------------------------------------------------
\* What lookups find in a cache and the backend behind it.
Visible(c, stored) ==
    {o \in Outputs : FetchEntry(c[o], o \in stored) \in {"clean", "dirty", "fresh"}}

\* The same for one output.
LEMMA VisibleAt ==
    ASSUME NEW c, NEW stored, NEW o \in Outputs
    PROVE  o \in Visible(c, stored) <=>
               \/ c[o] \in {"clean", "dirty", "fresh"}
               \/ c[o] = "absent" /\ o \in stored
BY Zenon DEF Visible, FetchEntry

\* The reference consists of outputs.
LEMMA UtxoSetOutputs ==
    ASSUME NEW b \in Blocks
    PROVE  UtxoSet(b) \subseteq Outputs
<1>1. ConnectedTxns(b) \subseteq Txns
  BY Zenon, BelowSubset, TreeTypes DEF ConnectedTxns, TxnsOf
<1> QED BY <1>1, TxnAssumption DEF UtxoSet, Unspent, OutsOf

\* Looking up outputs, which caches them, changes no later lookup.
LEMMA FetchedFacts ==
    ASSUME Consistent(cache, backend.utxos), NEW S
    PROVE  /\ Consistent(Fetched(S), backend.utxos)
           /\ Visible(Fetched(S), backend.utxos) = LookupSet
<1>1. Consistent(Fetched(S), backend.utxos)
  BY Zenon DEF Consistent, Fetched, FetchEntry, CacheStates
<1>2. ASSUME NEW o \in Outputs
      PROVE  o \in Visible(Fetched(S), backend.utxos) <=> o \in Visible(cache, backend.utxos)
  <2>1. Fetched(S)[o] \in {cache[o], FetchEntry(cache[o], o \in backend.utxos)}
    BY Zenon DEF Fetched
  <2> QED BY <2>1, VisibleAt DEF FetchEntry
<1>3. LookupSet = Visible(cache, backend.utxos)
  BY Zenon DEF LookupSet, Visible
<1>4. Visible(Fetched(S), backend.utxos) \subseteq Outputs /\ LookupSet \subseteq Outputs
  BY Zenon DEF Visible, LookupSet
<1> QED BY <1>1, <1>2, <1>3, <1>4

\* The cache gives the view correct answers.
LEMMA FoundAnswers ==
    ASSUME Consistent(cache, backend.utxos)
    PROVE  Answers(Found, LookupSet)
<1>1. ASSUME NEW o \in Outputs
      PROVE  /\ Found[o] \in {"nil", "loaded", "gone"}
             /\ Found[o] = "loaded" <=> o \in LookupSet
  <2>1. cache[o] \in CacheStates
    BY Zenon DEF Consistent
  <2> QED BY <2>1 DEF Found, LookupSet, FetchEntry, CacheStates
<1>2. Found = [o \in Outputs |-> Found[o]]
  BY Zenon DEF Found
<1> QED BY <1>1, <1>2 DEF Answers

\* Commit of a view that leads from old to new makes lookups find new instead of
\* old, drops no spend, panics at nothing, and leaves a view between blocks.
\* This fails for a view with revived outputs.
LEMMA CommitFacts ==
    ASSUME NEW c, Consistent(c, backend.utxos), NEW old, NEW new \in SUBSET Outputs,
           Visible(c, backend.utxos) = old, NEW v, Turned(v, old, new, {})
    PROVE  /\ Consistent(Committed(c, v), backend.utxos)
           /\ Visible(Committed(c, v), backend.utxos) = new
           /\ Fits(Remaining(v), new)
           /\ ~CommitPanics(c, v)
           /\ ~\E o \in Outputs : v[o] = "panic"
<1>1. \A o \in Outputs : TurnedAt(v[o], o, old, new, {}) /\ c[o] \in CacheStates
  BY Zenon DEF Turned, Consistent
<1>2. \A o \in Outputs :
          o \in old <=> \/ c[o] \in {"clean", "dirty", "fresh"}
                        \/ c[o] = "absent" /\ o \in backend.utxos
  BY Zenon, VisibleAt
<1>3. \A o \in Outputs : /\ c[o] \in {"clean", "dirty", "spent"} => o \in backend.utxos
                         /\ c[o] \in {"nil", "fresh"} => o \notin backend.utxos
  BY Zenon DEF Consistent
<1> DEFINE d == Committed(c, v)
<1>4. ASSUME NEW o \in Outputs
      PROVE  /\ d[o] \in CacheStates
             /\ d[o] \in {"clean", "dirty", "spent"} => o \in backend.utxos
             /\ d[o] \in {"nil", "fresh"} => o \notin backend.utxos
             /\ o \in new <=> \/ d[o] \in {"clean", "dirty", "fresh"}
                              \/ d[o] = "absent" /\ o \in backend.utxos
  <2>1. CASE v[o] = "spent"
    <3>1. d[o] = SpendEntry(c[o], o \in backend.utxos)
      BY Zenon, <2>1 DEF Committed
    <3>2. o \notin new
      BY Zenon, <1>1, <2>1 DEF TurnedAt
    <3> HIDE DEF d
    <3> QED BY <1>1, <1>3, <3>1, <3>2 DEF SpendEntry, CacheStates
  <2>2. CASE v[o] = "unspent"
    <3>1. d[o] = AddEntry(c[o])
      BY Zenon, <2>2 DEF Committed
    <3>2. o \in new /\ o \notin old
      BY Zenon, <1>1, <2>2 DEF TurnedAt
    <3> HIDE DEF d
    <3> QED BY <1>1, <1>2, <1>3, <3>1, <3>2 DEF AddEntry, CacheStates
  <2>3. CASE v[o] \notin {"spent", "unspent"}
    <3>1. d[o] = c[o]
      BY Zenon, <2>3 DEF Committed
    <3>2. o \in old <=> o \in new
      BY Zenon, <1>1, <2>3 DEF TurnedAt, ViewStates
    <3> HIDE DEF d
    <3> QED BY <1>1, <1>2, <1>3, <3>1, <3>2
  <2> QED BY <2>1, <2>2, <2>3
<1>5. d = [o \in Outputs |-> d[o]]
  BY Zenon DEF Committed
<1>6. Consistent(d, backend.utxos)
  <2> HIDE DEF d
  <2> QED BY <1>4, <1>5 DEF Consistent
<1>7. Visible(d, backend.utxos) = new
  <2> HIDE DEF d
  <2>1. \A o \in Outputs : o \in Visible(d, backend.utxos) <=> o \in new
    BY Zenon, <1>4, VisibleAt
  <2>2. Visible(d, backend.utxos) \subseteq Outputs
    BY Zenon DEF Visible
  <2> QED BY <2>1, <2>2
<1>8. Fits(Remaining(v), new)
  BY Zenon, <1>1 DEF Remaining, Fits, TurnedAt
<1>9. ~CommitPanics(c, v)
  BY Zenon, <1>1, <1>2 DEF CommitPanics, TurnedAt
<1>10. ~\E o \in Outputs : v[o] = "panic"
  BY Zenon, <1>1 DEF TurnedAt
<1> QED BY <1>6, <1>7, <1>8, <1>9, <1>10

\* PutUtxos stores what lookups find.
LEMMA PutFacts ==
    ASSUME NEW c, Consistent(c, backend.utxos), backend.utxos \subseteq Outputs, NEW b
    PROVE  PutUtxos(c, b).utxos = Visible(c, backend.utxos) /\ PutUtxos(c, b).state = b
<1>1. \A o \in Outputs : /\ c[o] \in CacheStates
                         /\ c[o] \in {"clean", "dirty", "spent"} => o \in backend.utxos
                         /\ c[o] \in {"nil", "fresh"} => o \notin backend.utxos
  BY Zenon DEF Consistent
<1>2. \A o \in Outputs : o \in PutUtxos(c, b).utxos <=> o \in Visible(c, backend.utxos)
  BY Zenon, <1>1, VisibleAt DEF PutUtxos, CacheStates
<1>3. PutUtxos(c, b).utxos \subseteq Outputs /\ Visible(c, backend.utxos) \subseteq Outputs
  BY Zenon DEF PutUtxos, Visible
<1> QED BY <1>2, <1>3 DEF PutUtxos

\* A flush changes no lookup, and the backend holds all of it afterwards.
LEMMA FlushFacts ==
    ASSUME NEW c, Consistent(c, backend.utxos), backend.utxos \subseteq Outputs, NEW b,
           FlushAs(c, b)
    PROVE  /\ Consistent(cache', backend'.utxos)
           /\ Visible(cache', backend'.utxos) = Visible(c, backend.utxos)
           /\ backend'.utxos = Visible(c, backend.utxos)
           /\ backend'.state = b
<1>1. backend' = PutUtxos(c, b)
  BY Zenon DEF FlushAs
<1>2. PICK evicted : cache' = Kept(c, evicted)
  BY Zenon DEF FlushAs
<1>3. backend'.utxos = Visible(c, backend.utxos) /\ backend'.state = b
  BY Zenon, <1>1, PutFacts
<1>4. ASSUME NEW o \in Outputs
      PROVE  /\ cache'[o] \in {"clean", "absent"}
             /\ cache'[o] = "clean" => o \in backend'.utxos
  BY <1>2, <1>3, VisibleAt DEF Kept
<1>5. cache' = [o \in Outputs |-> cache'[o]]
  BY Zenon, <1>2 DEF Kept
<1>6. Consistent(cache', backend'.utxos)
  BY Zenon, <1>4, <1>5 DEF Consistent, CacheStates
<1>7. Visible(cache', backend'.utxos) = backend'.utxos
  <2>1. \A o \in Outputs : o \in Visible(cache', backend'.utxos) <=> o \in backend'.utxos
    BY Zenon, <1>4, VisibleAt
  <2>2. Visible(cache', backend'.utxos) \subseteq Outputs /\ backend'.utxos \subseteq Outputs
    BY Zenon, <1>3 DEF Visible
  <2> QED BY <2>1, <2>2
<1> QED BY <1>3, <1>6, <1>7

\* The same when it is left open whether the flush takes place: a backend in
\* sync stays so if lookups find the outputs of the block flushed for.
LEMMA MaybeFlushFacts ==
    ASSUME NEW c, Consistent(c, backend.utxos), backend.utxos \subseteq Outputs, NEW b,
           MaybeFlush(c, b) \/ FlushAs(c, b)
    PROVE  /\ Consistent(cache', backend'.utxos)
           /\ Visible(cache', backend'.utxos) = Visible(c, backend.utxos)
           /\ Visible(c, backend.utxos) = UtxoSet(b) /\ BackendInSync => BackendInSync'
<1>1. CASE FlushAs(c, b)
  BY Zenon, <1>1, FlushFacts DEF BackendInSync
<1>2. CASE cache' = c /\ UNCHANGED <<survivors, backend, lastFlush>>
  BY Zenon, <1>2 DEF BackendInSync
<1> QED BY <1>1, <1>2 DEF MaybeFlush

-----------------------------------------------------------------------------
\* UtxoInv holds when the node begins.
LEMMA UtxoInit ==
    ASSUME SeparateOperations, Init
    PROVE  UtxoInv
<1>1. UtxoSet(Genesis) = {}
  <2>1. Below(Genesis) = {}
    BY Zenon, GenesisAssumption, AncestorAssumption DEF Below
  <2>2. TxnsOf(Genesis) = {}
    BY TxnAssumption DEF TxnsOf, Range
  <2>3. ConnectedTxns(Genesis) = {}
    BY Zenon, <2>1, <2>2 DEF ConnectedTxns
  <2> QED BY <2>3 DEF UtxoSet, Unspent, OutsOf
<1>2. backend.utxos = {} /\ backend.state = Genesis /\ cache = NothingCached
  BY Zenon DEF Init
<1>3. Consistent(cache, backend.utxos)
  BY Zenon, <1>2 DEF Consistent, NothingCached, CacheStates
<1>4. LookupSet = {}
  BY Zenon, <1>2 DEF LookupSet, FetchEntry, NothingCached
<1>5. Fits(view, {})
  BY Zenon DEF Init, EmptyView, Fits
<1>6. pc = "idle" /\ tip = Genesis /\ panicked = FALSE /\ beside \in Operations
  BY Zenon DEF Init
<1> QED BY <1>1, <1>2, <1>3, <1>4, <1>5, <1>6
        DEF UtxoInv, CommittedBlock, BackendInSync, SeparateOperations

\* A block of the stored best chain is in the journal if it has transactions.
LEMMA JournalPresent ==
    ASSUME JournalInv, NEW b \in Blocks,
           b \in blockDB.journal \cup {Genesis} \cup Ancestors[blockDB.tip]
    PROVE  ~JournalMissing(b)
<1>1. Ancestors[blockDB.tip] \subseteq blockDB.journal \cup {Genesis}
  BY Zenon DEF JournalInv
<1>2. TxnsOf(Genesis) = {}
  BY TxnAssumption DEF TxnsOf, Range
<1> QED BY <1>1, <1>2 DEF JournalMissing

\* Every step preserves UtxoInv.
LEMMA UtxoStep ==
    ASSUME NothingRevived, JournalInv, JournalInv', UtxoInv, [Next]_vars
    PROVE  UtxoInv'
<1>1. /\ Consistent(cache, backend.utxos) /\ backend.utxos \subseteq Outputs
      /\ LookupSet = UtxoSet(CommittedBlock)
      /\ LookupSet = Visible(cache, backend.utxos)
      /\ tip \in Blocks
      /\ panicked = FALSE
      /\ ~({"stats", "crash"} \subseteq beside)
  BY Zenon DEF UtxoInv, JournalInv, LookupSet, Visible
<1>2. CASE UNCHANGED vars
  BY Zenon, <1>2 DEF UtxoInv, vars, LookupSet, CommittedBlock, Destination, Connecting,
              BackendInSync
<1> SUFFICES ASSUME Next PROVE UtxoInv'
  BY Zenon, <1>2
<1>3. beside' = beside
  BY Zenon DEF Next
<1>4. LookupSet' = Visible(cache', backend'.utxos)
  BY Zenon DEF LookupSet, Visible
<1>5. ASSUME NEW b \in Blocks, Reorganize(b) PROVE UtxoInv'
  <2>1. /\ pc = "idle" /\ pc' = "reorg" /\ view' = EmptyView
        /\ UNCHANGED <<tip, backend, cache, panicked>>
    BY Zenon, <1>5 DEF Reorganize
  <2>2. CommittedBlock = tip /\ CommittedBlock' = tip
    BY Zenon, <2>1 DEF CommittedBlock
  <2>3. Fits(view', UtxoSet(tip))
    BY Zenon, <2>1 DEF EmptyView, Fits
  <2> QED BY Zenon, <1>1, <1>3, <1>4, <2>1, <2>2, <2>3 DEF UtxoInv, BackendInSync
<1>6. CASE ReorganizeDone
  <2>1. /\ pc = "reorg" /\ pc' = "idle"
        /\ UNCHANGED <<tip, view, panicked>>
        /\ FlushAs(cache, tip) \/ UNCHANGED <<survivors, backend, cache, lastFlush>>
    BY Zenon, <1>6 DEF ReorganizeDone
  <2>2. CommittedBlock = tip /\ CommittedBlock' = tip
    BY Zenon, <2>1 DEF CommittedBlock
  <2>3. /\ Consistent(cache', backend'.utxos)
        /\ Visible(cache', backend'.utxos) = LookupSet
        /\ BackendInSync => BackendInSync'
    <3>1. CASE FlushAs(cache, tip)
      BY Zenon, <1>1, <2>2, <3>1, FlushFacts DEF BackendInSync
    <3>2. CASE UNCHANGED <<survivors, backend, cache, lastFlush>>
      BY Zenon, <1>1, <3>2 DEF BackendInSync
    <3> QED BY <2>1, <3>1, <3>2
  <2> QED BY <1>1, <1>3, <1>4, <2>1, <2>2, <2>3 DEF UtxoInv
<1>7. CASE ConnectView
  <2> DEFINE n == NextOnPath(tip, target)
  <2>1. /\ pc = "reorg" /\ pc' = "put" /\ tip # target /\ tip \in Ancestors[target]
        /\ node' = n /\ view' = ViewConnectBlock(view, n, Found)
        /\ UNCHANGED <<tip, blockDB, backend>> /\ target \in Blocks
        /\ \E S : cache' = Fetched(S)
        /\ panicked' = (\/ panicked
                        \/ n \notin Approves /\ JournalMissing(tip)
                        \/ ~AssertBlockUtxoView(view', n))
    BY Zenon, <1>7 DEF ConnectView, IsAncestorOf, JournalInv
  <2>2. n \in Blocks \ {Genesis} /\ Parent[n] = tip
    BY Zenon, <2>1, NextFacts
  <2> HIDE DEF n
  <2>3. CommittedBlock = tip /\ CommittedBlock' = tip
    BY Zenon, <2>1 DEF CommittedBlock
  <2>4. Fits(view, UtxoSet(tip)) /\ Answers(Found, UtxoSet(tip))
    BY Zenon, <1>1, <2>1, <2>3, FoundAnswers DEF UtxoInv
  <2>5. Revived(n) = {}
    BY Zenon, <2>2 DEF NothingRevived
  <2>6. /\ Turned(view', UtxoSet(tip), UtxoSet(n), {})
        /\ AssertBlockUtxoView(view', n)
    BY Zenon, <2>1, <2>2, <2>4, <2>5, ConnectBlockEffect
  <2>7. Destination' = n
    BY Zenon, <2>1, <2>2, ParentFacts DEF Destination, Connecting
  <2>8. ~JournalMissing(tip)
    <3>1. blockDB.tip = tip
      BY Zenon, <2>1 DEF JournalInv
    <3> QED BY <1>1, <3>1, SelfAncestor, JournalPresent
  <2>9. panicked' = FALSE
    BY Zenon, <1>1, <2>1, <2>6, <2>8
  <2>10. /\ Consistent(cache', backend.utxos)
         /\ Visible(cache', backend.utxos) = LookupSet
    BY Zenon, <1>1, <2>1, FetchedFacts
  <2> QED BY <1>1, <1>3, <1>4, <2>1, <2>3, <2>6, <2>7, <2>9, <2>10
          DEF UtxoInv, BackendInSync
<1>8. CASE DisconnectView
  <2>1. /\ pc = "reorg" /\ pc' = "put" /\ tip \notin Ancestors[target]
        /\ node' = tip /\ view' = ViewDisconnectBlock(view, tip, Found)
        /\ UNCHANGED <<tip, blockDB, backend>> /\ target \in Blocks
        /\ \E S : cache' = Fetched(S)
        /\ panicked' = (panicked \/ JournalMissing(tip))
    BY Zenon, <1>8 DEF DisconnectView, IsAncestorOf, JournalInv
  <2>2. tip \in Blocks \ {Genesis}
    BY Zenon, <1>1, <2>1, PathAssumption
  <2>3. CommittedBlock = tip /\ CommittedBlock' = tip
    BY Zenon, <2>1 DEF CommittedBlock
  <2>4. Fits(view, UtxoSet(tip)) /\ Answers(Found, UtxoSet(tip))
    BY Zenon, <1>1, <2>1, <2>3, FoundAnswers DEF UtxoInv
  <2>5. Revived(tip) = {}
    BY Zenon, <2>2 DEF NothingRevived
  <2>6. Turned(view', UtxoSet(tip), UtxoSet(Parent[tip]), {})
    BY Zenon, <2>1, <2>2, <2>4, <2>5, DisconnectBlockEffect
  <2>7. Destination' = Parent[tip]
    BY Zenon, <2>1 DEF Destination, Connecting
  <2>8. ~JournalMissing(tip)
    <3>1. blockDB.tip = tip
      BY Zenon, <2>1 DEF JournalInv
    <3> QED BY <1>1, <3>1, SelfAncestor, JournalPresent
  <2>9. panicked' = FALSE
    BY Zenon, <1>1, <2>1, <2>8
  <2>10. /\ Consistent(cache', backend.utxos)
         /\ Visible(cache', backend.utxos) = LookupSet
    BY Zenon, <1>1, <2>1, FetchedFacts
  <2> QED BY <1>1, <1>3, <1>4, <2>1, <2>3, <2>6, <2>7, <2>9, <2>10
          DEF UtxoInv, BackendInSync
<1>9. CASE PutBestState
  BY Zenon, <1>3, <1>9 DEF PutBestState, UtxoInv, LookupSet, CommittedBlock, Destination,
                    Connecting, BackendInSync
<1>10. CASE Commit
  <2>1. /\ pc = "commit" /\ pc' = "flush" /\ cache' = Committed(cache, view)
        /\ view' = Remaining(view) /\ panicked' = (panicked \/ CommitPanics(cache, view))
        /\ UNCHANGED <<tip, node, backend>>
    BY Zenon, <1>10 DEF Commit
  <2>2. CommittedBlock = tip /\ CommittedBlock' = Destination
    BY Zenon, <2>1 DEF CommittedBlock, Destination, Connecting
  <2>3. Destination \in Blocks
    BY Zenon, <2>1, ParentFacts DEF JournalInv, Destination
  <2>4. Turned(view, UtxoSet(tip), UtxoSet(Destination), {})
    BY Zenon, <2>1 DEF UtxoInv
  <2>5. /\ Consistent(cache', backend.utxos)
        /\ Visible(cache', backend.utxos) = UtxoSet(Destination)
        /\ Fits(view', UtxoSet(Destination))
        /\ ~CommitPanics(cache, view)
    <3> DEFINE old == UtxoSet(tip)
               new == UtxoSet(Destination)
    <3>1. Consistent(cache, backend.utxos) /\ Visible(cache, backend.utxos) = old
      BY Zenon, <1>1, <2>2
    <3>2. new \in SUBSET Outputs
      BY Zenon, <2>3, UtxoSetOutputs
    <3>3. Turned(view, old, new, {})
      BY Zenon, <2>4
    <3> HIDE DEF old, new
    <3>4. /\ Consistent(Committed(cache, view), backend.utxos)
          /\ Visible(Committed(cache, view), backend.utxos) = new
          /\ Fits(Remaining(view), new)
          /\ ~CommitPanics(cache, view)
      BY Zenon, <3>1, <3>2, <3>3, CommitFacts
    <3> QED BY <2>1, <3>4 DEF new
  <2> QED BY <1>1, <1>3, <1>4, <2>1, <2>2, <2>5 DEF UtxoInv, BackendInSync
<1>11. CASE FlushConnected \/ FlushDisconnected
  <2>1. /\ pc = "flush" /\ pc' \in {"settip", "unjournal"}
        /\ UNCHANGED <<tip, node, view, panicked>>
        /\ FlushAs(cache, Destination) \/ MaybeFlush(cache, Destination)
    BY Zenon, <1>11 DEF FlushConnected, FlushDisconnected, Destination
  <2>2. CommittedBlock = Destination /\ CommittedBlock' = Destination
    BY Zenon, <2>1 DEF CommittedBlock, Destination, Connecting
  <2>3. /\ Consistent(cache', backend'.utxos)
        /\ Visible(cache', backend'.utxos) = LookupSet
        /\ BackendInSync => BackendInSync'
    BY Zenon, <1>1, <2>1, <2>2, MaybeFlushFacts
  <2> QED BY Zenon, <1>1, <1>3, <1>4, <2>1, <2>2, <2>3 DEF UtxoInv
<1>12. CASE RemoveSpendJournalEntry
  BY Zenon, <1>3, <1>12 DEF RemoveSpendJournalEntry, UtxoInv, LookupSet, CommittedBlock,
                     Destination, Connecting, BackendInSync
<1>13. CASE SetTip
  <2>1. /\ pc = "settip" /\ pc' = "reorg" /\ tip' = Destination
        /\ UNCHANGED <<backend, cache, view, panicked>>
    BY Zenon, <1>13 DEF SetTip, Destination
  <2>2. CommittedBlock = Destination /\ CommittedBlock' = Destination
    BY Zenon, <2>1 DEF CommittedBlock
  <2> QED BY <1>1, <1>3, <1>4, <2>1, <2>2 DEF UtxoInv, BackendInSync
<1>14. CASE InitializeDetach
  <2> DEFINE v == ViewDisconnectBlock(view, node, Found)
             c == Fetched(DisconnectLookups(view, node, Found))
  <2>1. /\ pc = "start" /\ pc' = pc /\ node \notin Ancestors[tip]
        /\ node' = Parent[node] /\ UNCHANGED <<tip, blockDB>>
        /\ MaybeFlush(Committed(c, v), Parent[node])
        /\ view' = Remaining(v)
        /\ panicked' = (\/ panicked
                        \/ JournalMissing(node)
                        \/ CommitPanics(c, v)
                        \/ \E o \in Outputs : v[o] = "panic")
    BY Zenon, <1>14 DEF InitializeDetach, IsAncestorOf
  <2>2. node \in Blocks \ {Genesis}
    <3>1. node \in Blocks /\ tip \in Blocks
      BY Zenon, <1>1, <2>1 DEF JournalInv
    <3> QED BY Zenon, <2>1, <3>1, PathAssumption
  <2>3. Parent[node] \in Blocks
    BY Zenon, <2>2, ParentFacts
  <2>4. CommittedBlock = node /\ CommittedBlock' = Parent[node]
    BY Zenon, <2>1 DEF CommittedBlock
  <2>5. Fits(view, UtxoSet(node)) /\ Answers(Found, UtxoSet(node))
    BY Zenon, <1>1, <2>1, <2>4, FoundAnswers DEF UtxoInv
  <2>6. Turned(v, UtxoSet(node), UtxoSet(Parent[node]), {})
    BY Zenon, <2>2, <2>5, DisconnectBlockEffect DEF NothingRevived
  <2>7. Consistent(c, backend.utxos) /\ Visible(c, backend.utxos) = UtxoSet(node)
    BY Zenon, <1>1, <2>4, FetchedFacts
  <2> HIDE DEF v, c
  <2>8. /\ Consistent(Committed(c, v), backend.utxos)
        /\ Visible(Committed(c, v), backend.utxos) = UtxoSet(Parent[node])
        /\ Fits(Remaining(v), UtxoSet(Parent[node]))
        /\ ~CommitPanics(c, v)
        /\ ~\E o \in Outputs : v[o] = "panic"
    <3>1. UtxoSet(Parent[node]) \in SUBSET Outputs
      BY Zenon, <2>3, UtxoSetOutputs
    <3> QED BY <2>6, <2>7, <3>1, CommitFacts
  <2>9. /\ Consistent(cache', backend'.utxos)
        /\ Visible(cache', backend'.utxos) = UtxoSet(Parent[node])
        /\ BackendInSync => BackendInSync'
    BY Zenon, <1>1, <2>1, <2>8, MaybeFlushFacts
  <2>10. ~JournalMissing(node)
    <3>1. "stats" \notin beside
      BY Zenon, <1>1, <2>1 DEF UtxoInv
    <3>2. node \in blockDB.journal \cup {Genesis}
      BY Zenon, <2>1, <2>2, <3>1, SelfAncestor DEF JournalInv
    <3> QED BY <2>2, <3>2, JournalPresent
  <2>11. panicked' = FALSE
    BY Zenon, <1>1, <2>1, <2>8, <2>10
  <2> QED BY <1>1, <1>3, <1>4, <2>1, <2>4, <2>8, <2>9, <2>11 DEF UtxoInv
<1>15. CASE InitializeReplay
  <2> DEFINE n == NextOnPath(node, tip)
             v == ViewConnectBlock(view, n, Found)
             c == Fetched(ConnectLookups(view, n, Found))
  <2>1. /\ pc = "start" /\ pc' = pc /\ node # tip /\ node \in Ancestors[tip]
        /\ node' = n /\ UNCHANGED <<tip, blockDB>>
        /\ MaybeFlush(Committed(c, v), n)
        /\ view' = Remaining(v)
        /\ panicked' = (\/ panicked
                        \/ n \notin Approves /\ JournalMissing(node)
                        \/ CommitPanics(c, v)
                        \/ \E o \in Outputs : v[o] = "panic")
    BY Zenon, <1>15 DEF InitializeReplay, IsAncestorOf
  <2>2. n \in Blocks \ {Genesis} /\ Parent[n] = node /\ node \in Blocks
    BY Zenon, <1>1, <2>1, NextFacts, SelfAncestor
  <2>3. CommittedBlock = node /\ CommittedBlock' = n
    BY Zenon, <2>1 DEF CommittedBlock
  <2>4. Fits(view, UtxoSet(node)) /\ Answers(Found, UtxoSet(node))
    BY Zenon, <1>1, <2>1, <2>3, FoundAnswers DEF UtxoInv
  <2>5. Turned(v, UtxoSet(node), UtxoSet(n), {})
    <3> HIDE DEF n
    <3> QED BY <2>2, <2>4, ConnectBlockEffect DEF NothingRevived
  <2>6. Consistent(c, backend.utxos) /\ Visible(c, backend.utxos) = UtxoSet(node)
    BY Zenon, <1>1, <2>3, FetchedFacts
  <2> HIDE DEF v, c, n
  <2>7. /\ Consistent(Committed(c, v), backend.utxos)
        /\ Visible(Committed(c, v), backend.utxos) = UtxoSet(n)
        /\ Fits(Remaining(v), UtxoSet(n))
        /\ ~CommitPanics(c, v)
        /\ ~\E o \in Outputs : v[o] = "panic"
    BY <2>2, <2>5, <2>6, UtxoSetOutputs, CommitFacts
  <2>8. /\ Consistent(cache', backend'.utxos)
        /\ Visible(cache', backend'.utxos) = UtxoSet(n)
        /\ BackendInSync => BackendInSync'
    BY Zenon, <1>1, <2>1, <2>7, MaybeFlushFacts
  <2>9. ~JournalMissing(node)
    <3>1. blockDB.tip = tip
      BY Zenon, <2>1 DEF JournalInv
    <3> QED BY <2>1, <2>2, <3>1, JournalPresent
  <2>10. panicked' = FALSE
    BY Zenon, <1>1, <2>1, <2>7, <2>9
  <2> QED BY <1>1, <1>3, <1>4, <2>1, <2>3, <2>7, <2>8, <2>10 DEF UtxoInv
<1>16. CASE InitializeDone
  <2>1. /\ pc = "start" /\ pc' = "idle" /\ node = tip
        /\ UNCHANGED <<tip, backend, cache, view, panicked>>
    BY Zenon, <1>16 DEF InitializeDone
  <2>2. CommittedBlock = tip /\ CommittedBlock' = tip
    BY Zenon, <2>1 DEF CommittedBlock
  <2> QED BY Zenon, <1>1, <1>3, <1>4, <2>1, <2>2 DEF UtxoInv, BackendInSync
<1>17. ASSUME NEW o \in Outputs, FetchUtxoEntry(o) PROVE UtxoInv'
  <2>1. /\ cache' = Fetched({o})
        /\ UNCHANGED <<tip, backend, view, pc, node, panicked>>
    BY Zenon, <1>17 DEF FetchUtxoEntry
  <2>2. CommittedBlock' = CommittedBlock /\ Destination' = Destination
    BY Zenon, <2>1 DEF CommittedBlock, Destination, Connecting
  <2>3. Consistent(cache', backend.utxos) /\ Visible(cache', backend.utxos) = LookupSet
    BY Zenon, <1>1, <2>1, FetchedFacts
  <2> QED BY <1>1, <1>3, <1>4, <2>1, <2>2, <2>3 DEF UtxoInv, BackendInSync
<1>18. CASE FetchUtxoStats
  BY Zenon, <1>3, <1>18 DEF FetchUtxoStats, UtxoInv, LookupSet, CommittedBlock, Destination,
                     Connecting, BackendInSync
<1>19. CASE FlushForStats
  <2>1. /\ statsTip # NoBlock /\ FlushAs(cache, statsTip)
        /\ UNCHANGED <<tip, view, pc, node, panicked>>
    BY Zenon, <1>19 DEF FlushForStats
  <2>2. "stats" \in beside
    BY Zenon, <2>1 DEF JournalInv
  <2>3. CommittedBlock' = CommittedBlock /\ Destination' = Destination
    BY Zenon, <2>1 DEF CommittedBlock, Destination, Connecting
  <2>4. Consistent(cache', backend'.utxos) /\ Visible(cache', backend'.utxos) = LookupSet
    BY Zenon, <1>1, <2>1, FlushFacts
  <2> QED BY <1>1, <1>3, <1>4, <2>1, <2>2, <2>3, <2>4 DEF UtxoInv
<1>20. ASSUME NEW b \in Blocks, NEW db, StartFrom(db, b), "crash" \in beside,
              backend'.utxos = UtxoSet(b), backend'.state = b
       PROVE  UtxoInv'
  <2>1. /\ cache' = NothingCached /\ view' = EmptyView /\ pc' = "start" /\ node' = b
        /\ panicked' = panicked
    BY Zenon, <1>20 DEF StartFrom
  <2>2. CommittedBlock' = b
    BY Zenon, <2>1 DEF CommittedBlock
  <2>3. Consistent(cache', backend'.utxos)
    BY Zenon, <2>1 DEF Consistent, NothingCached, CacheStates
  <2>4. Visible(cache', backend'.utxos) = UtxoSet(b)
    <3>1. UtxoSet(b) \subseteq Outputs
      BY Zenon, UtxoSetOutputs
    <3>2. \A o \in Outputs : cache'[o] = "absent"
      BY Zenon, <2>1 DEF NothingCached
    <3> QED BY <1>20, <3>1, <3>2 DEF Visible, FetchEntry
  <2>5. Fits(view', UtxoSet(b))
    BY Zenon, <2>1 DEF EmptyView, Fits
  <2> QED BY <1>1, <1>3, <1>4, <1>20, <2>1, <2>2, <2>3, <2>4, <2>5 DEF UtxoInv, BackendInSync
<1>21. CASE Crash
  <2>1. "stats" \notin beside
    BY Zenon, <1>1, <1>21 DEF Crash
  <2>2. backend.utxos = UtxoSet(backend.state) /\ backend.state \in Blocks
    BY Zenon, <2>1 DEF UtxoInv, BackendInSync, JournalInv
  <2> QED BY <1>20, <1>21, <2>2 DEF Crash
<1>22. CASE Shutdown
  <2>1. /\ pc \in {"idle", "reorg"} /\ backend' = PutUtxos(cache, tip)
        /\ StartFrom(blockDB, tip) /\ "crash" \in beside
    BY Zenon, <1>22 DEF Shutdown
  <2>2. CommittedBlock = tip
    BY Zenon, <2>1 DEF CommittedBlock
  <2>3. backend'.utxos = UtxoSet(tip) /\ backend'.state = tip
    BY Zenon, <1>1, <2>1, <2>2, PutFacts
  <2> QED BY <1>1, <1>20, <2>1, <2>3
<1> QED
  BY Zenon, <1>5, <1>6, <1>7, <1>8, <1>9, <1>10, <1>11, <1>12, <1>13, <1>14, <1>15, <1>16,
     <1>17, <1>18, <1>19, <1>21, <1>22 DEF Next, Step

\* Both invariants hold at all times.
THEOREM UtxoInvAlways ==
    ASSUME SeparateOperations, NothingRevived
    PROVE  Spec => [](JournalInv /\ UtxoInv)
<1>1. Init => JournalInv /\ UtxoInv
  BY Zenon, JournalInit, UtxoInit
<1>2. JournalInv /\ UtxoInv /\ [Next]_vars => (JournalInv /\ UtxoInv)'
  BY Zenon, JournalStep, UtxoStep
<1> QED BY <1>1, <1>2, PTL DEF Spec

\* FetchUtxoEntry, FetchUtxoView and the validation of blocks see exactly the
\* unspent outputs of the best chain whenever the chain lock is free, however
\* entries are spread over cache and backend, and after every start.
THEOREM LookupsCorrectAlways ==
    ASSUME SeparateOperations, NothingRevived
    PROVE  Spec => []LookupsCorrect
<1>1. JournalInv /\ UtxoInv => LookupsCorrect
  BY Zenon DEF UtxoInv, LookupsCorrect, CommittedBlock
<1> QED BY <1>1, UtxoInvAlways, PTL

\* The backend holds the outputs of the block its state names, at every step, so
\* Initialize may begin there after a crash.
THEOREM InSyncAlways ==
    ASSUME SeparateOperations, NothingRevived
    PROVE  Spec => []InSyncWithoutStats
<1>1. JournalInv /\ UtxoInv => InSyncWithoutStats
  BY Zenon DEF UtxoInv, InSyncWithoutStats
<1> QED BY <1>1, UtxoInvAlways, PTL

\* An entry marked fresh, or nil, is not in the backend, so spendEntry may forget
\* it.
THEOREM FreshNotStoredAlways ==
    ASSUME SeparateOperations, NothingRevived
    PROVE  Spec => []FreshNotStored
<1>1. JournalInv /\ UtxoInv => FreshNotStored
  BY Zenon DEF UtxoInv, FreshNotStored, Consistent
<1> QED BY <1>1, UtxoInvAlways, PTL

\* None of the assertions of view, cache and journal fails: no spend of a missing
\* or spent output, in a reorganization or in the recovery by Initialize, no
\* missing journal entry, no cached output that was thought to skip the cache.
THEOREM NoPanicAlways ==
    ASSUME SeparateOperations, NothingRevived
    PROVE  Spec => []NoPanic
<1>1. JournalInv /\ UtxoInv => NoPanic
  BY Zenon DEF UtxoInv, NoPanic, Fits, Turned, TurnedAt, ViewStates
<1> QED BY <1>1, UtxoInvAlways, PTL
====

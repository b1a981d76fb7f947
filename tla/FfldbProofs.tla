---------------------------- MODULE FfldbProofs -----------------------------
(***************************************************************************)
(* The theorems about the block database.                                  *)
(*                                                                         *)
(* First, the inductive invariant IInv, which relates the rows of the      *)
(* metadata to the records of the block files; the lemmas on the operators *)
(* of BlockFiles and Ffldb that its preservation rests on; and that the    *)
(* steps of a transaction, the flushes of the cache, failures, closing,    *)
(* crashing and opening preserve it.                                       *)
(*                                                                         *)
(* Then, what rests on it.  The database implements the store of module    *)
(* Store: every step of it is a step of the store or leaves the store as   *)
(* it is.  Below the metadata, nobody's file is closed or deleted while    *)
(* they read from it, and what LevelDB lists has been synced before.       *)
(***************************************************************************)
EXTENDS FfldbProperties, TLAPS

Running == status \in {"open", "closing"}
NotAfter(p, q) == p = q \/ Before(p, q)
Late == {"synced", "flushed", "cleared"}

CoreType ==
    /\ files \in [FileNums -> Seq(Units)]
    /\ onDisk \subseteq FileNums
    /\ cursor \in Locations
    /\ DbTypeOK

\* The files hold everything up to the position p.
Reaches(exist, contents, p) ==
    /\ p \in Locations
    /\ p.off <= Len(contents[p.file])
    /\ p # Start => \A n \in 0..p.file : n \in exist

\* The row loc of the block b is right, and its record lies before p.
GoodRow(exist, contents, loc, b, p) ==
    loc # None => RecordIn(exist, contents, loc) = b /\ Before(loc, p)

\* All rows are right and lie before the write position in them.
GoodRows(exist, contents, rows) ==
    /\ Reaches(exist, contents, rows[WriteLoc])
    /\ \A b \in Blocks : GoodRow(exist, contents, rows[b], b, rows[WriteLoc])

\* Where the records that must not be touched end.
Limit == IF stage[Writer] \in {"writing", "undo"} THEN saved ELSE cursor

MetadataInv ==
    /\ status # "corrupt"
    /\ GoodRows(onDisk, files, ldb)
    /\ GoodRows(onDisk, files, Current)
    /\ NotAfter(ldb[WriteLoc], Current[WriteLoc])
    /\ cache.remove \subseteq Keys
    /\ Running => /\ NotAfter(Current[WriteLoc], Limit)
                  /\ Reaches(onDisk, files, Limit)
    /\ ~Running => cache = NoCache
    /\ status # "open" => NoTxs

WriterInv ==
    /\ stage[Writer] \in {"none", "ldb"} => pending = NoPending /\ written = 0
    /\ stage[Writer] = "open" => written = 0
    /\ stage[Writer] = "ldb" => snap[Writer] = ldb
    /\ stage[Writer] \notin {"none", "ldb"} => snap[Writer] = Current
    /\ stage[Writer] = "flushed" => ldb = Current
    /\ stage[Writer] = "cleared" => cache = NoCache
    /\ pending.remove \subseteq Keys
    /\ written <= Len(pending.blocks)
    /\ stage[Writer] \in Late => written = Len(pending.blocks)

PendingInv ==
    /\ pending.keys[WriteLoc] = IF stage[Writer] \in Late THEN cursor ELSE None
    /\ stage[Writer] = "writing" => /\ NotAfter(saved, cursor)
                                    /\ Reaches(onDisk, files, cursor)
    /\ stage[Writer] \in {"writing"} \cup Late =>
         \A b \in Blocks : GoodRow(onDisk, files, pending.keys[b], b, cursor)
    /\ \A b \in Blocks :
         pending.keys[b] # None <=> \E i \in 1..written : pending.blocks[i] = b

ReaderInv ==
    \A r \in Readers : stage[r] \in {"ldb", "open"} =>
        \A b \in Blocks : GoodRow(onDisk, files, snap[r][b], b, Current[WriteLoc])

IInv == CoreType /\ MetadataInv /\ WriterInv /\ PendingInv /\ ReaderInv

-----------------------------------------------------------------------------
\* Positions are ordered.
LEMMA PositionOrder ==
    ASSUME NEW p \in Locations, NEW q \in Locations, NEW s \in Locations
    PROVE  /\ Before(p, q) /\ Before(q, s) => Before(p, s)
           /\ Before(p, q) /\ NotAfter(q, s) => Before(p, s)
           /\ NotAfter(p, q) /\ NotAfter(q, s) => NotAfter(p, s)
           /\ ~Before(p, p)
           /\ ~Before(p, q) => NotAfter(q, p)
  BY FileAssumption DEF Locations, FileNums, Before, NotAfter

\* A change on top of rows of the right type gives rows of the right type.
LEMMA OverlayType ==
    ASSUME NEW below \in Contents, NEW change,
           change.keys \in Contents, change.remove \subseteq Rows
    PROVE  Overlay(below, change) \in Contents
  BY Zenon DEF Overlay, Contents, Rows

\* Applying a change to the cache or to what the cache shows is the same.
LEMMA MergeOverlay ==
    ASSUME NEW below \in Contents, NEW old, NEW change,
           old.keys \in Contents, old.remove \subseteq Rows,
           change.keys \in Contents, change.remove \subseteq Rows
    PROVE  Overlay(below, Merge(old, change)) = Overlay(Overlay(below, old), change)
  BY Zenon DEF Overlay, Merge, Contents

\* Flushing the cache twice is flushing it once.
LEMMA OverlayTwice ==
    ASSUME NEW below, NEW change
    PROVE  Overlay(Overlay(below, change), change) = Overlay(below, change)
  BY Zenon DEF Overlay

\* No change shows what is below.
LEMMA OverlayNothing ==
    ASSUME NEW below \in Contents
    PROVE  Overlay(below, NoCache) = below
  BY Zenon DEF Overlay, NoCache, Nothing, Contents

-----------------------------------------------------------------------------
\* The change of the files leaves alone what lies before the position limit.
Keeps(exist, contents, exist2, contents2, limit) ==
    /\ \A p \in Locations : Before(p, limit) =>
         RecordIn(exist2, contents2, p) = RecordIn(exist, contents, p)
    /\ \A p \in Locations : NotAfter(p, limit) /\ Reaches(exist, contents, p) =>
         Reaches(exist2, contents2, p)

\* Then right rows stay right.
LEMMA KeepsRows ==
    ASSUME NEW exist, NEW contents, NEW exist2, NEW contents2,
           NEW limit \in Locations, NEW rows \in Contents,
           Keeps(exist, contents, exist2, contents2, limit),
           GoodRows(exist, contents, rows), NotAfter(rows[WriteLoc], limit)
    PROVE  GoodRows(exist2, contents2, rows)
  <1>1. rows[WriteLoc] \in Locations
    BY Zenon DEF GoodRows, Reaches
  <1>2. Reaches(exist2, contents2, rows[WriteLoc])
    BY Zenon, <1>1 DEF GoodRows, Keeps
  <1>3. ASSUME NEW b \in Blocks
        PROVE  GoodRow(exist2, contents2, rows[b], b, rows[WriteLoc])
    <2>1. rows[b] = None \/ rows[b] \in Locations
      BY Zenon DEF Contents
    <2>2. rows[b] # None => Before(rows[b], limit)
      BY Zenon, <1>1, <2>1, PositionOrder DEF GoodRows, GoodRow
    <2> QED
      BY Zenon, <2>1, <2>2 DEF Keeps, GoodRows, GoodRow
  <1> QED
    BY Zenon, <1>2, <1>3 DEF GoodRows

\* The same for one row.
LEMMA KeepsRow ==
    ASSUME NEW exist, NEW contents, NEW exist2, NEW contents2,
           NEW limit \in Locations, NEW p \in Locations,
           NEW loc \in Locations \cup {None}, NEW b,
           Keeps(exist, contents, exist2, contents2, limit),
           GoodRow(exist, contents, loc, b, p), NotAfter(p, limit)
    PROVE  GoodRow(exist2, contents2, loc, b, p)
  <1>1. loc # None => Before(loc, limit)
    BY Zenon, PositionOrder DEF GoodRow
  <1> QED
    BY Zenon, <1>1 DEF Keeps, GoodRow

\* What writeBlock does to a file.
LEMMA WriteAtProps ==
    ASSUME NEW content \in Seq(Units), NEW off \in Nat, NEW u \in Units,
           off <= Len(content)
    PROVE  /\ WriteAt(content, off, u) \in Seq(Units)
           /\ Len(WriteAt(content, off, u)) >= Len(content)
           /\ Len(WriteAt(content, off, u)) >= off + 1
           /\ WriteAt(content, off, u)[off + 1] = u
           /\ \A i \in Nat : i < off => WriteAt(content, off, u)[i + 1] = content[i + 1]
  <1>1. CASE off < Len(content)
    BY <1>1 DEF WriteAt
  <1>2. CASE off = Len(content)
    BY <1>2 DEF WriteAt
  <1> QED
    BY <1>1, <1>2

\* writeBlock puts the record at the write position and leaves alone whatever
\* lies before the cursor.
LEMMA WriteBlockProps ==
    ASSUME CoreType, NEW u \in Units, Reaches(onDisk, files, cursor), WriteBlock(u)
    PROVE  /\ files' \in [FileNums -> Seq(Units)]
           /\ onDisk' \subseteq FileNums
           /\ cursor' \in Locations
           /\ WritePosition \in Locations
           /\ NotAfter(cursor, WritePosition)
           /\ Before(WritePosition, cursor')
           /\ RecordIn(onDisk', files', WritePosition) = u
           /\ Reaches(onDisk', files', cursor')
           /\ \A p \in Locations : Reaches(onDisk, files, p) => Reaches(onDisk', files', p)
           /\ \A p \in Locations : Before(p, cursor) =>
                RecordIn(onDisk', files', p) = RecordIn(onDisk, files, p)
  <1> DEFINE w == WritePosition
  <1>1. /\ w \in Locations
        /\ w.off + 1 <= MaxFileSize
        /\ w.off <= Len(files[w.file])
        /\ NotAfter(cursor, w)
        /\ w.off = 0 \/ w = cursor
        /\ \A n \in 0..(w.file - 1) : n \in onDisk
    <2>1. CASE cursor.off + 1 > MaxFileSize
      BY <2>1, FileAssumption DEF WritePosition, WriteBlock, CoreType, Locations, FileNums, Reaches, NotAfter, Before, Start
    <2>2. CASE ~(cursor.off + 1 > MaxFileSize)
      BY <2>2, FileAssumption DEF WritePosition, WriteBlock, CoreType, Locations, FileNums, Reaches, NotAfter, Before, Start
    <2> QED
      BY Zenon, <2>1, <2>2
  <1> DEFINE old == files[w.file]
             new == WriteAt(old, w.off, u)
  <1>2. files[w.file] \in Seq(Units) /\ w.off \in Nat /\ w.file \in FileNums
    BY <1>1, FileAssumption DEF CoreType, Locations
  <1>3. /\ new \in Seq(Units)
        /\ Len(new) >= Len(old)
        /\ Len(new) >= w.off + 1
        /\ new[w.off + 1] = u
        /\ \A i \in Nat : i < w.off => new[i + 1] = old[i + 1]
    BY <1>1, <1>2, WriteAtProps
  <1>4. /\ files' = [files EXCEPT ![w.file] = new]
        /\ onDisk' = onDisk \cup {w.file}
        /\ cursor' = [file |-> w.file, off |-> w.off + 1]
    BY Zenon, <1>2 DEF WriteBlock, CoreType
  <1> HIDE DEF w, new, old
  <1>5. files' \in [FileNums -> Seq(Units)] /\ onDisk' \subseteq FileNums
    BY Zenon, <1>2, <1>3, <1>4 DEF CoreType
  <1>6. cursor' \in Locations /\ Before(w, cursor')
    BY <1>1, <1>4, FileAssumption DEF Locations, Before, FileNums
  <1>7. RecordIn(onDisk', files', w) = u
    BY <1>1, <1>2, <1>3, <1>4 DEF RecordIn, CoreType
  <1>8. Reaches(onDisk', files', cursor')
    BY <1>1, <1>2, <1>3, <1>4, <1>6, FileAssumption DEF Reaches, CoreType, Locations, FileNums
  <1>9. ASSUME NEW p \in Locations, Reaches(onDisk, files, p)
        PROVE  Reaches(onDisk', files', p)
    BY <1>2, <1>3, <1>4, <1>9 DEF Reaches, CoreType, Locations, old
  <1>10. ASSUME NEW p \in Locations, Before(p, cursor)
         PROVE  RecordIn(onDisk', files', p) = RecordIn(onDisk, files, p)
    <2>1. CASE p.file # w.file
      BY Zenon, <2>1, <1>2, <1>4 DEF RecordIn, CoreType, Locations
    <2>2. CASE p.file = w.file
      <3>1. w = cursor /\ p.off < w.off /\ cursor # Start
        BY <2>2, <1>1, <1>10, FileAssumption DEF Before, NotAfter, Locations, FileNums, CoreType, Start
      <3>2. w.file \in onDisk /\ p.off < Len(old) /\ p.off < Len(new)
        BY <3>1, <1>1, <1>2, <1>3, FileAssumption DEF Reaches, Locations, FileNums, old, CoreType
      <3> QED
        BY <2>2, <3>1, <3>2, <1>2, <1>3, <1>4 DEF RecordIn, CoreType, Locations, old
    <2> QED
      BY Zenon, <2>1, <2>2
  <1> QED
    BY Zenon, <1>1, <1>5, <1>6, <1>7, <1>8, <1>9, <1>10 DEF w

\* writeBlock that fails before it writes changes no record.
LEMMA WriteNothingProps ==
    ASSUME CoreType, WriteNothing
    PROVE  /\ files' = files
           /\ onDisk' \subseteq FileNums
           /\ cursor' \in Locations
           /\ \A p \in Locations : Reaches(onDisk, files, p) => Reaches(onDisk', files', p)
           /\ \A p \in Locations : p.file \in onDisk =>
                RecordIn(onDisk', files', p) = RecordIn(onDisk, files, p)
  <1>1. WritePosition \in Locations
    BY FileAssumption DEF WritePosition, WriteNothing, CoreType, Locations, FileNums
  <1>2. files' = files /\ cursor' = WritePosition
    BY Zenon DEF WriteNothing
  <1>3. onDisk' = onDisk \/ onDisk' = onDisk \cup {WritePosition.file}
    BY Zenon DEF WriteNothing
  <1>4. onDisk' \subseteq FileNums /\ onDisk \subseteq onDisk'
    BY Zenon, <1>1, <1>3 DEF CoreType, Locations
  <1>5. ASSUME NEW p \in Locations, Reaches(onDisk, files, p)
        PROVE  Reaches(onDisk', files', p)
    BY Zenon, <1>2, <1>4, <1>5 DEF Reaches
  <1>6. ASSUME NEW p \in Locations, p.file \in onDisk
        PROVE  RecordIn(onDisk', files', p) = RecordIn(onDisk, files, p)
    BY Zenon, <1>2, <1>4, <1>6 DEF RecordIn
  <1> QED
    BY Zenon, <1>1, <1>2, <1>4, <1>5, <1>6

\* handleRollback, however far it gets, leaves alone what lies before the
\* position it rolls back to, and ends with the cursor there.
LEMMA RollbackProps ==
    ASSUME CoreType, NEW c, c.file \in Nat, NEW to, Reaches(onDisk, files, to),
           NEW mayFail, HandleRollback(c, to, mayFail)
    PROVE  /\ files' \in [FileNums -> Seq(Units)]
           /\ onDisk' \subseteq FileNums
           /\ cursor' = to
           /\ Keeps(onDisk, files, onDisk', files', to)
  <1>1. to \in Locations /\ to.file \in FileNums /\ to.off \in Nat /\ to.off <= Len(files[to.file])
    BY FileAssumption DEF Reaches, Locations
  <1>2. cursor' = to
    BY Zenon DEF HandleRollback
  <1>3. CASE files' = files /\ onDisk' = onDisk
    <2>1. files' \in [FileNums -> Seq(Units)] /\ onDisk' \subseteq FileNums
      BY Zenon, <1>3 DEF CoreType
    <2>2. Keeps(onDisk, files, onDisk', files', to)
      BY Zenon, <1>3 DEF Keeps
    <2> QED
      BY Zenon, <1>2, <2>1, <2>2
  <1>4. ASSUME NEW k \in 0..(c.file - to.file),
               \/ RollbackBlocked(c, to, k, mayFail)
               \/ RollbackTruncates(c, to, k, mayFail),
               onDisk' = (onDisk \ Deletable(c, k)) \cup
                              (IF curOpen' THEN {to.file} ELSE {})
        PROVE  /\ files' \in [FileNums -> Seq(Units)]
               /\ onDisk' \subseteq FileNums
               /\ Keeps(onDisk, files, onDisk', files', to)
    <2> DEFINE old == files[to.file]
               cut == SubSeq(old, 1, to.off)
    <2>1. old \in Seq(Units) /\ to.off <= Len(old)
      BY Zenon, <1>1 DEF CoreType
    <2>2. /\ cut \in Seq(Units)
          /\ Len(cut) = to.off
          /\ \A i \in 1..to.off : cut[i] = old[i]
      BY <1>1, <2>1
    <2> HIDE DEF cut
    <2>3. \A n \in Deletable(c, k) : n > to.file
      BY <1>1, <1>4 DEF Deletable, FileNums
    <2>4. \E result \in {old, cut} :
             files' = [n \in FileNums |-> IF n \in Deletable(c, k) THEN << >>
                                          ELSE IF n = to.file THEN result ELSE files[n]]
      <3>1. CASE RollbackBlocked(c, to, k, mayFail)
        BY Zenon, <3>1 DEF RollbackBlocked
      <3>2. CASE RollbackTruncates(c, to, k, mayFail)
        BY Zenon, <3>2 DEF RollbackTruncates, cut
      <3> QED
        BY Zenon, <1>4, <3>1, <3>2
    <2>5. PICK result \in {old, cut} :
             files' = [n \in FileNums |-> IF n \in Deletable(c, k) THEN << >>
                                          ELSE IF n = to.file THEN result ELSE files[n]]
      BY Zenon, <2>4
    <2>6. /\ result \in Seq(Units)
          /\ Len(result) >= to.off
          /\ \A i \in 1..to.off : result[i] = old[i]
      BY <1>1, <2>1, <2>2
    <2>7. files' \in [FileNums -> Seq(Units)]
      BY <2>5, <2>6 DEF CoreType
    <2>8. onDisk' \subseteq FileNums
      BY Zenon, <1>1, <1>4 DEF CoreType
    <2>9. /\ files'[to.file] = result
          /\ \A n \in FileNums : n < to.file => files'[n] = files[n]
          /\ \A n \in FileNums : n <= to.file /\ n \in onDisk => n \in onDisk'
      BY <1>1, <1>4, <2>3, <2>5 DEF FileNums
    <2>10. ASSUME NEW p \in Locations, NotAfter(p, to), Reaches(onDisk, files, p)
           PROVE  Reaches(onDisk', files', p)
      <3>1. p.file \in FileNums /\ p.off \in Nat /\ (p.file < to.file \/ (p.file = to.file /\ p.off <= to.off))
        BY <1>1, <2>10, FileAssumption DEF NotAfter, Before, Locations, FileNums
      <3>2. p.off <= Len(files'[p.file])
        BY <1>1, <2>6, <2>9, <2>10, <3>1 DEF Reaches
      <3>3. p # Start => \A n \in 0..p.file : n \in onDisk'
        BY <1>1, <2>9, <2>10, <3>1, FileAssumption DEF Reaches, FileNums
      <3> QED
        BY Zenon, <3>2, <3>3 DEF Reaches
    <2>11. ASSUME NEW p \in Locations, Before(p, to)
           PROVE  RecordIn(onDisk', files', p) = RecordIn(onDisk, files, p)
      <3>1. p.file \in FileNums /\ p.off \in Nat /\ (p.file < to.file \/ (p.file = to.file /\ p.off < to.off))
        BY <1>1, <2>11, FileAssumption DEF Before, Locations, FileNums
      <3>2. to # Start
        BY <1>1, <3>1 DEF Start, FileNums
      <3>3. p.file \in onDisk /\ p.file \in onDisk'
        BY <1>1, <2>9, <3>1, <3>2, FileAssumption DEF Reaches, FileNums
      <3>4. CASE p.file < to.file
        BY Zenon, <2>9, <3>1, <3>3, <3>4 DEF RecordIn
      <3>5. CASE p.file = to.file /\ p.off < to.off
        <4>1. result[p.off + 1] = old[p.off + 1]
          BY <2>6, <3>1, <3>5, <1>1
        <4>2. p.off < Len(old) /\ p.off < Len(result)
          BY <2>1, <2>6, <3>1, <3>5, <1>1
        <4> QED
          BY Zenon, <2>9, <3>3, <3>5, <4>1, <4>2 DEF RecordIn
      <3> QED
        BY Zenon, <3>1, <3>4, <3>5
    <2> QED
      BY Zenon, <2>7, <2>8, <2>10, <2>11 DEF Keeps
  <1>5. \/ files' = files /\ onDisk' = onDisk
        \/ \E k \in 0..(c.file - to.file) :
             /\ \/ RollbackBlocked(c, to, k, mayFail)
                \/ RollbackTruncates(c, to, k, mayFail)
             /\ onDisk' = (onDisk \ Deletable(c, k)) \cup
                              (IF curOpen' THEN {to.file} ELSE {})
    BY Zenon DEF HandleRollback
  <1> QED
    BY Zenon, <1>2, <1>3, <1>4, <1>5

-----------------------------------------------------------------------------
\* The invariant holds at the start.
LEMMA InitInv == Init => IInv
  <1> SUFFICES ASSUME Init PROVE IInv
    OBVIOUS
  <1> USE FileAssumption, RowAssumption
  <1>1. Start \in Locations /\ Nothing \in Contents
    BY DEF Start, Locations, FileNums, Nothing, Contents, Rows
  <1>2. ldb \in Contents /\ ldb[WriteLoc] = Start /\ \A b \in Blocks : ldb[b] = None
    BY Zenon, <1>1 DEF Init, DbInit, Nothing, Contents, Rows
  <1>3. Current = ldb
    BY Zenon, <1>2, OverlayNothing DEF Current, Init, DbInit
  <1>4. CoreType
    <2>1. files \in [FileNums -> Seq(Units)] /\ onDisk \subseteq FileNums /\ cursor \in Locations
      BY DEF Init, FilesInit, Locations, FileNums
    <2>2. DbTypeOK
      BY <1>1, <1>2 DEF Init, DbInit, DbTypeOK, NoCache, NoPending, Txs
    <2> QED
      BY Zenon, <2>1, <2>2 DEF CoreType
  <1>5. GoodRows(onDisk, files, ldb)
    BY <1>1, <1>2, <1>4 DEF GoodRows, GoodRow, Reaches, CoreType, Start, FileNums, Locations
  <1>6. MetadataInv
    BY Zenon, <1>2, <1>3, <1>5 DEF MetadataInv, NotAfter, Running, Init, DbInit, NoCache, NoTxs, Txs
  <1>7. WriterInv /\ PendingInv /\ ReaderInv
    BY DEF WriterInv, PendingInv, ReaderInv, Init, DbInit, NoPending, Nothing, Txs, Rows, Late
  <1> QED
    BY Zenon, <1>4, <1>6, <1>7 DEF IInv

\* Steps that change neither the rows nor the files only have to respect the
\* limit.
LEMMA SameMetadata ==
    ASSUME IInv, files' = files, onDisk' = onDisk, ldb' = ldb, cache' = cache,
           status' = status,
           Running => /\ NotAfter(Current[WriteLoc], Limit')
                      /\ Reaches(onDisk, files, Limit'),
           status # "open" => NoTxs'
    PROVE  MetadataInv' /\ Current' = Current
  <1>1. Current' = Current
    BY Zenon DEF Current, Overlay
  <1>2. MetadataInv'
    BY Zenon, <1>1 DEF IInv, MetadataInv, Running
  <1> QED
    BY Zenon, <1>1, <1>2

\* Beginning a transaction (db.begin, dbCache.Snapshot).
LEMMA BeginInv ==
    ASSUME IInv, NEW t \in Txs, Begin(t) \/ SnapshotCache(t)
    PROVE  IInv'
  <1> USE RowAssumption
  <1>1. /\ UNCHANGED <<files, onDisk, cursor, status, ldb, cache, pending, written, saved>>
        /\ stage' = [stage EXCEPT ![t] = IF Begin(t) THEN "ldb" ELSE "open"]
    BY Zenon DEF Begin, SnapshotCache, fileVars
  <1>2. status = "open" /\ Running
    BY Zenon DEF IInv, MetadataInv, NoTxs, Begin, SnapshotCache, Running
  <1>3. Limit' = Limit
    BY Zenon, <1>1 DEF Limit, Begin, SnapshotCache, IInv, CoreType, DbTypeOK, Txs
  <1>4. MetadataInv' /\ Current' = Current
    BY Zenon, <1>1, <1>2, <1>3, SameMetadata DEF IInv, MetadataInv
  <1>5. Overlay(snap[t], cache) \in Contents
    BY Zenon, OverlayType DEF IInv, CoreType, DbTypeOK
  <1>6. CoreType'
    <2>1. stage' \in [Txs -> {"none", "ldb", "open", "writing", "undo",
                              "synced", "flushed", "cleared"}]
      BY Zenon, <1>1 DEF IInv, CoreType, DbTypeOK
    <2>2. snap' \in [Txs -> Contents]
      BY Zenon, <1>5 DEF Begin, SnapshotCache, IInv, CoreType, DbTypeOK
    <2> QED
      BY Zenon, <1>1, <2>1, <2>2 DEF IInv, CoreType, DbTypeOK
  <1>7. WriterInv'
    BY <1>1, <1>4 DEF Begin, SnapshotCache, IInv, CoreType, DbTypeOK, WriterInv, Current, Late, Txs
  <1>8. PendingInv'
    BY Zenon, <1>1 DEF Begin, SnapshotCache, IInv, CoreType, DbTypeOK, PendingInv, Late, Txs
  <1>9. ReaderInv'
    <2> SUFFICES ASSUME NEW r \in Readers, stage'[r] \in {"ldb", "open"}, NEW b \in Blocks
                 PROVE  GoodRow(onDisk, files, snap'[r][b], b, Current[WriteLoc])
      BY Zenon, <1>1, <1>4 DEF ReaderInv
    <2>1. CASE r # t
      BY Zenon, <2>1, <1>1 DEF Begin, SnapshotCache, IInv, ReaderInv, CoreType, DbTypeOK, Txs
    <2>2. CASE r = t /\ Begin(t)
      <3>1. snap'[r] = ldb
        BY Zenon, <2>2 DEF Begin, IInv, CoreType, DbTypeOK
      <3>2. /\ ldb[b] \in Locations \cup {None} /\ ldb[WriteLoc] \in Locations /\ Current[WriteLoc] \in Locations
            /\ GoodRow(onDisk, files, ldb[b], b, ldb[WriteLoc])
            /\ NotAfter(ldb[WriteLoc], Current[WriteLoc])
        BY Zenon DEF IInv, CoreType, DbTypeOK, Contents, MetadataInv, GoodRows, Reaches
      <3> QED
        BY Zenon, <3>1, <3>2, PositionOrder DEF GoodRow
    <2>3. CASE r = t /\ SnapshotCache(t)
      <3>1. snap'[r] = Overlay(snap[r], cache) /\ stage[r] = "ldb"
        BY Zenon, <2>3 DEF SnapshotCache, IInv, CoreType, DbTypeOK
      <3>2. b \in Rows /\ b \notin cache.remove
        BY Zenon DEF Rows, IInv, MetadataInv
      <3>3. CASE cache.keys[b] # None
        <4>1. snap'[r][b] = Current[b]
          BY Zenon, <3>1, <3>2, <3>3 DEF Overlay, Current
        <4> QED
          BY Zenon, <4>1 DEF IInv, MetadataInv, GoodRows
      <3>4. CASE cache.keys[b] = None
        <4>1. snap'[r][b] = snap[r][b]
          BY Zenon, <3>1, <3>2, <3>4 DEF Overlay
        <4> QED
          BY Zenon, <4>1, <3>1 DEF IInv, ReaderInv
      <3> QED
        BY Zenon, <3>3, <3>4
    <2> QED
      BY Zenon, <2>1, <2>2, <2>3
  <1> QED
    BY Zenon, <1>4, <1>6, <1>7, <1>8, <1>9 DEF IInv

\* Files that do not change keep their records.
LEMMA KeepsSame == ASSUME NEW limit PROVE Keeps(onDisk, files, onDisk, files, limit)
  BY Zenon DEF Keeps

\* The row of the write position, in LevelDB and as transactions see it.
LEMMA WriteLocs ==
    ASSUME IInv
    PROVE  /\ ldb[WriteLoc] \in Locations
           /\ Current[WriteLoc] \in Locations
           /\ Limit \in Locations
           /\ ldb \in Contents
           /\ Current \in Contents
  <1>1. Current \in Contents
    BY Zenon, OverlayType DEF Current, IInv, CoreType, DbTypeOK
  <1> QED
    BY Zenon, <1>1 DEF IInv, CoreType, DbTypeOK, MetadataInv, GoodRows, Reaches, Limit

\* Readers keep finding their blocks when the records before the write
\* position stay and the write position does not move back.
LEMMA ReadersKeep ==
    ASSUME IInv, NEW limit \in Locations, Keeps(onDisk, files, onDisk', files', limit),
           NotAfter(Current[WriteLoc], limit),
           Current'[WriteLoc] \in Locations, NotAfter(Current[WriteLoc], Current'[WriteLoc]),
           \A r \in Readers : stage'[r] \in {"ldb", "open"} =>
                                 stage'[r] = stage[r] /\ snap'[r] = snap[r]
    PROVE  ReaderInv'
  <1> SUFFICES ASSUME NEW r \in Readers, stage'[r] \in {"ldb", "open"}, NEW b \in Blocks
               PROVE  GoodRow(onDisk', files', snap'[r][b], b, Current'[WriteLoc])
    BY Zenon DEF ReaderInv
  <1>1. /\ snap'[r][b] = snap[r][b]
        /\ snap[r][b] \in Locations \cup {None}
        /\ GoodRow(onDisk, files, snap[r][b], b, Current[WriteLoc])
        /\ Current[WriteLoc] \in Locations
    BY Zenon, WriteLocs DEF IInv, ReaderInv, CoreType, DbTypeOK, Contents, Txs
  <1>2. GoodRow(onDisk', files', snap[r][b], b, Current[WriteLoc])
    BY Zenon, <1>1, KeepsRow
  <1> QED
    BY <1>1, <1>2, PositionOrder DEF GoodRow

\* No write transaction is running.
LEMMA IdleWriter ==
    ASSUME stage'[Writer] = "none", pending' = NoPending, written' = 0
    PROVE  WriterInv' /\ PendingInv'
  BY DEF WriterInv, PendingInv, NoPending, Nothing, Rows, Late

\* transaction.close.
LEMMA CloseTxProps ==
    ASSUME CoreType, NEW t \in Txs, CloseTx(t)
    PROVE  /\ stage' \in [Txs -> {"none", "ldb", "open", "writing", "undo",
                                  "synced", "flushed", "cleared"}]
           /\ snap' \in [Txs -> Contents]
           /\ pending' \in [keys : Contents, remove : SUBSET Rows, blocks : Seq(Blocks)]
           /\ written' \in Nat
           /\ saved' \in Locations
           /\ stage'[t] = "none"
           /\ \A q \in Txs \ {t} : stage'[q] = stage[q] /\ snap'[q] = snap[q]
           /\ t = Writer => pending' = NoPending /\ written' = 0
           /\ t # Writer => UNCHANGED <<pending, written, saved>>
  <1> USE FileAssumption, RowAssumption
  <1>1. Nothing \in Contents /\ Start \in Locations
    BY DEF Nothing, Contents, Rows, Start, Locations, FileNums
  <1>2. NoPending \in [keys : Contents, remove : SUBSET Rows, blocks : Seq(Blocks)]
    BY <1>1 DEF NoPending
  <1> QED
    BY Zenon, <1>1, <1>2 DEF CloseTx, CoreType, DbTypeOK

-----------------------------------------------------------------------------
\* The steps of a transaction up to the block it writes.

\* A transaction that ends without having changed the metadata.
LEMMA AbandonInv ==
    ASSUME IInv, NEW t \in Txs, Rollback(t) \/ (t = Writer /\ FlushFails)
    PROVE  IInv'
  <1>1. CloseTx(t) /\ UNCHANGED <<files, onDisk, cursor, status, ldb, cache>>
    BY Zenon DEF Rollback, FlushFails, fileVars
  <1>2. CoreType
    BY Zenon DEF IInv
  <1>3. CoreType'
    BY Zenon, <1>1, <1>2, CloseTxProps DEF CoreType, DbTypeOK
  <1>4. status = "open" /\ Running
    BY Zenon DEF IInv, MetadataInv, NoTxs, Txs, AllWritten, Rollback, FlushFails, Running
  <1>5. NotAfter(Current[WriteLoc], Limit') /\ Reaches(onDisk, files, Limit')
    <2>1. CASE t # Writer \/ stage[Writer] # "writing"
      <3>1. Limit' = Limit
        BY Zenon, <2>1, <1>1, <1>2, CloseTxProps DEF Limit, Txs, Rollback, FlushFails, AllWritten, Late
      <3> QED
        BY Zenon, <3>1, <1>4 DEF IInv, MetadataInv
    <2>2. CASE t = Writer /\ stage[Writer] = "writing"
      <3>1. Limit' = cursor /\ Limit = saved
        BY Zenon, <2>2, <1>1, <1>2, CloseTxProps DEF Limit, Txs
      <3>2. NotAfter(saved, cursor) /\ Reaches(onDisk, files, cursor)
        BY Zenon, <2>2 DEF IInv, PendingInv
      <3>3. NotAfter(Current[WriteLoc], saved) /\ saved \in Locations /\ cursor \in Locations
        BY Zenon, <1>4, <3>1 DEF IInv, MetadataInv, CoreType, DbTypeOK
      <3> QED
        BY Zenon, <3>1, <3>2, <3>3, WriteLocs, PositionOrder
    <2> QED
      BY Zenon, <2>1, <2>2
  <1>6. MetadataInv' /\ Current' = Current
    BY Zenon, <1>1, <1>4, <1>5, SameMetadata
  <1>7. WriterInv' /\ PendingInv'
    <2>1. CASE t = Writer
      BY Zenon, <2>1, <1>1, <1>2, CloseTxProps, IdleWriter
    <2>2. CASE t # Writer
      <3>1. UNCHANGED <<pending, written, saved>> /\ stage'[Writer] = stage[Writer] /\ snap'[Writer] = snap[Writer]
        BY Zenon, <2>2, <1>1, <1>2, CloseTxProps DEF Txs
      <3> QED
        BY Zenon, <3>1, <1>1, <1>6 DEF IInv, WriterInv, PendingInv
    <2> QED
      BY Zenon, <2>1, <2>2
  <1>8. ReaderInv'
    <2>1. \A r \in Readers : stage'[r] \in {"ldb", "open"} => stage'[r] = stage[r] /\ snap'[r] = snap[r]
      BY Zenon, <1>1, <1>2, CloseTxProps DEF Txs
    <2> QED
      BY Zenon, <2>1, <1>1, <1>6, WriteLocs, KeepsSame, ReadersKeep DEF NotAfter
  <1> QED
    BY Zenon, <1>3, <1>6, <1>7, <1>8 DEF IInv

\* Changes of the write transaction to its own copy.
LEMMA EditInv ==
    ASSUME IInv,
           \/ \E k \in Keys : DeleteKey(k) \/ \E v \in Values : PutKey(k, v)
           \/ \E b \in Blocks : StoreBlock(b)
    PROVE  IInv'
  <1> USE RowAssumption
  <1>1. /\ UNCHANGED <<files, onDisk, cursor, status, ldb, cache, stage, snap, written, saved>>
        /\ stage[Writer] = "open"
    BY Zenon DEF DeleteKey, PutKey, StoreBlock, fileVars
  <1>2. /\ pending' \in [keys : Contents, remove : SUBSET Rows, blocks : Seq(Blocks)]
        /\ pending'.remove \subseteq Keys
        /\ \A b \in Blocks \cup {WriteLoc} : pending'.keys[b] = pending.keys[b]
    <2>1. /\ pending \in [keys : Contents, remove : SUBSET Rows, blocks : Seq(Blocks)]
          /\ pending.remove \subseteq Keys
      BY Zenon DEF IInv, CoreType, DbTypeOK, WriterInv
    <2>2. ASSUME NEW k \in Keys, NEW v \in Values \cup {None}
          PROVE  /\ [pending.keys EXCEPT ![k] = v] \in Contents
                 /\ \A b \in Blocks \cup {WriteLoc} : [pending.keys EXCEPT ![k] = v][b] = pending.keys[b]
      BY Zenon, <2>1, <2>2 DEF Contents, Rows
    <2>3. ASSUME NEW k \in Keys, DeleteKey(k) PROVE <1>2
      <3>1. /\ pending'.keys = [pending.keys EXCEPT ![k] = None]
            /\ pending'.remove = pending.remove \cup {k}
            /\ pending' = [keys |-> pending'.keys, remove |-> pending'.remove, blocks |-> pending.blocks]
        BY Zenon, <2>1, <2>3 DEF DeleteKey
      <3> QED
        BY <2>1, <2>2, <3>1 DEF Rows
    <2>4. ASSUME NEW k \in Keys, NEW v \in Values, PutKey(k, v) PROVE <1>2
      <3>1. /\ pending'.keys = [pending.keys EXCEPT ![k] = v]
            /\ pending'.remove = pending.remove \ {k}
            /\ pending' = [keys |-> pending'.keys, remove |-> pending'.remove, blocks |-> pending.blocks]
        BY Zenon, <2>1, <2>4 DEF PutKey
      <3> QED
        BY <2>1, <2>2, <3>1 DEF Rows
    <2>5. ASSUME NEW b \in Blocks, StoreBlock(b) PROVE <1>2
      <3>1. pending' = [keys |-> pending.keys, remove |-> pending.remove, blocks |-> Append(pending.blocks, b)]
        BY Zenon, <2>1, <2>5 DEF StoreBlock
      <3> QED
        BY <2>1, <3>1
    <2> QED
      BY Zenon, <2>3, <2>4, <2>5
  <1>3. CoreType'
    BY Zenon, <1>1, <1>2 DEF IInv, CoreType, DbTypeOK
  <1>4. MetadataInv' /\ Current' = Current
    <2>1. Limit' = Limit /\ NoTxs' = NoTxs
      BY Zenon, <1>1 DEF Limit, NoTxs
    <2> QED
      BY Zenon, <1>1, <2>1, SameMetadata DEF IInv, MetadataInv
  <1>5. WriterInv'
    BY <1>1, <1>2, <1>4 DEF IInv, WriterInv, CoreType, DbTypeOK, Late
  <1>6. PendingInv'
    <2>1. written = 0 /\ 1..written = {}
      BY <1>1 DEF IInv, WriterInv
    <2>2. \A b \in Blocks : pending'.keys[b] = None
      BY Zenon, <1>2, <2>1 DEF IInv, PendingInv
    <2> QED
      BY Zenon, <1>1, <1>2, <2>1, <2>2 DEF IInv, PendingInv, Late
  <1>7. ReaderInv'
    BY Zenon, <1>1, <1>4 DEF IInv, ReaderInv
  <1> QED
    BY Zenon, <1>3, <1>4, <1>5, <1>6, <1>7 DEF IInv

\* Reading changes nothing the invariant speaks of.
LEMMA ReadInv ==
    ASSUME IInv, NEW r \in Readers, ReadDone(r) \/ \E b \in Blocks : ReadBlock(r, b)
    PROVE  IInv'
  <1>1. UNCHANGED <<files, onDisk, cursor, status, ldb, cache, stage, snap, pending, written, saved>>
    BY Zenon DEF ReadDone, DoneReading, ReadBlock, BlockFile, dbVars
  <1>2. Current' = Current /\ Limit' = Limit /\ NoTxs' = NoTxs
    BY Zenon, <1>1 DEF Current, Overlay, Limit, NoTxs
  <1>3. CoreType' /\ MetadataInv'
    BY Zenon, <1>1, <1>2 DEF IInv, CoreType, DbTypeOK, MetadataInv, Running
  <1>4. WriterInv' /\ PendingInv' /\ ReaderInv'
    BY Zenon, <1>1, <1>2 DEF IInv, WriterInv, PendingInv, ReaderInv
  <1> QED
    BY Zenon, <1>3, <1>4 DEF IInv

\* The start of a commit.
LEMMA CommitInv ==
    ASSUME IInv, Commit
    PROVE  IInv'
  <1>1. /\ UNCHANGED <<files, onDisk, cursor, status, ldb, cache, snap, pending, written>>
        /\ stage[Writer] = "open" /\ stage'[Writer] = "writing" /\ saved' = cursor
        /\ \A t \in Readers : stage'[t] = stage[t]
        /\ stage' \in [Txs -> {"none", "ldb", "open", "writing", "undo",
                               "synced", "flushed", "cleared"}]
    BY Zenon, RowAssumption DEF Commit, fileVars, IInv, CoreType, DbTypeOK, Txs
  <1>2. CoreType'
    BY Zenon, <1>1 DEF IInv, CoreType, DbTypeOK
  <1>3. status = "open" /\ Running /\ Limit' = Limit
    BY Zenon, <1>1 DEF IInv, MetadataInv, Running, NoTxs, Txs, Limit
  <1>4. MetadataInv' /\ Current' = Current
    BY Zenon, <1>1, <1>3, SameMetadata DEF IInv, MetadataInv
  <1>5. WriterInv'
    BY Zenon, <1>1, <1>4 DEF IInv, WriterInv, Late
  <1>6. PendingInv'
    <2>1. \A b \in Blocks : pending.keys[b] = None
      BY <1>1 DEF IInv, PendingInv, WriterInv
    <2>2. Reaches(onDisk, files, cursor)
      BY Zenon, <1>1, <1>3 DEF IInv, MetadataInv, Limit
    <2> QED
      BY Zenon, <1>1, <2>1, <2>2 DEF IInv, PendingInv, NotAfter, GoodRow, Late
  <1>7. ReaderInv'
    BY Zenon, <1>1, <1>4 DEF IInv, ReaderInv
  <1> QED
    BY Zenon, <1>2, <1>4, <1>5, <1>6, <1>7 DEF IInv

\* A block is written.
LEMMA WritePendingInv ==
    ASSUME IInv, WritePending
    PROVE  IInv'
  <1> USE RowAssumption
  <1> DEFINE n == written + 1
             u == pending.blocks[n]
  <1>1. /\ stage[Writer] = "writing" /\ written < Len(pending.blocks)
        /\ WriteBlock(u)
        /\ pending' = [pending EXCEPT !.keys[u] = WritePosition, !.remove = @ \ {u}]
        /\ written' = n
        /\ UNCHANGED <<status, ldb, cache, stage, snap, saved>>
    BY Zenon DEF WritePending
  <1>2. n \in Nat /\ n \in 1..Len(pending.blocks) /\ u \in Blocks /\ u \in Units
    BY <1>1 DEF IInv, CoreType, DbTypeOK, Units
  <1> HIDE DEF u
  <1>3. CoreType /\ Reaches(onDisk, files, cursor) /\ NotAfter(saved, cursor)
    BY Zenon, <1>1 DEF IInv, PendingInv
  <1>4. /\ files' \in [FileNums -> Seq(Units)]
        /\ onDisk' \subseteq FileNums
        /\ cursor' \in Locations
        /\ WritePosition \in Locations
        /\ NotAfter(cursor, WritePosition)
        /\ Before(WritePosition, cursor')
        /\ RecordIn(onDisk', files', WritePosition) = u
        /\ Reaches(onDisk', files', cursor')
        /\ Keeps(onDisk, files, onDisk', files', cursor)
    BY Zenon, <1>1, <1>2, <1>3, WriteBlockProps DEF Keeps
  <1>5. /\ pending' \in [keys : Contents, remove : SUBSET Rows, blocks : Seq(Blocks)]
        /\ pending'.keys = [pending.keys EXCEPT ![u] = WritePosition]
        /\ pending'.remove \subseteq Keys
        /\ pending'.blocks = pending.blocks
    <2>1. pending \in [keys : Contents, remove : SUBSET Rows, blocks : Seq(Blocks)] /\ pending.remove \subseteq Keys
      BY Zenon DEF IInv, CoreType, DbTypeOK, WriterInv
    <2>2. [pending.keys EXCEPT ![u] = WritePosition] \in Contents
      BY <2>1, <1>2, <1>4 DEF Contents, Rows
    <2> QED
      BY Zenon, <1>1, <2>1, <2>2
  <1>6. CoreType'
    BY Zenon, <1>1, <1>2, <1>4, <1>5 DEF IInv, CoreType, DbTypeOK
  <1>7. /\ status = "open" /\ Running /\ Current' = Current /\ Limit' = saved /\ Limit = saved
        /\ saved \in Locations /\ cursor \in Locations
    BY Zenon, <1>1 DEF IInv, MetadataInv, Running, NoTxs, Txs, Limit, Current, Overlay, CoreType, DbTypeOK
  <1>8. /\ NotAfter(Current[WriteLoc], saved)
        /\ NotAfter(Current[WriteLoc], cursor)
        /\ NotAfter(ldb[WriteLoc], cursor)
    BY Zenon, <1>3, <1>7, WriteLocs, PositionOrder DEF IInv, MetadataInv
  <1>9. MetadataInv'
    <2>1. GoodRows(onDisk', files', ldb) /\ GoodRows(onDisk', files', Current)
      BY Zenon, <1>4, <1>7, <1>8, WriteLocs, KeepsRows DEF IInv, MetadataInv
    <2>2. Reaches(onDisk', files', saved)
      BY Zenon, <1>3, <1>4, <1>7 DEF IInv, MetadataInv, Keeps
    <2> QED
      BY Zenon, <1>1, <1>7, <1>8, <2>1, <2>2 DEF IInv, MetadataInv, Running
  <1>10. WriterInv'
    BY <1>1, <1>2, <1>5, <1>7 DEF IInv, WriterInv, Late
  <1>11. PendingInv'
    <2>1. pending'.keys[WriteLoc] = None
      BY <1>1, <1>2, <1>5 DEF IInv, PendingInv, Late, CoreType, DbTypeOK, Contents, Rows
    <2>2. NotAfter(saved, cursor')
      BY Zenon, <1>3, <1>4, <1>7, PositionOrder DEF NotAfter
    <2>3. ASSUME NEW b \in Blocks
          PROVE  GoodRow(onDisk', files', pending'.keys[b], b, cursor')
      <3>1. CASE b = u
        BY Zenon, <3>1, <1>2, <1>4, <1>5 DEF GoodRow, IInv, CoreType, DbTypeOK, Contents, Rows
      <3>2. CASE b # u
        <4>1. pending'.keys[b] = pending.keys[b] /\ pending.keys[b] \in Locations \cup {None}
          BY Zenon, <3>2, <1>2, <1>5 DEF IInv, CoreType, DbTypeOK, Contents, Rows
        <4>2. GoodRow(onDisk', files', pending.keys[b], b, cursor)
          BY Zenon, <4>1, <1>1, <1>4, <1>7, KeepsRow DEF IInv, PendingInv, NotAfter
        <4>3. NotAfter(cursor, cursor')
          BY Zenon, <1>4, <1>7, PositionOrder DEF NotAfter
        <4> QED
          BY Zenon, <4>1, <4>2, <4>3, <1>4, <1>7, PositionOrder DEF GoodRow
      <3> QED
        BY Zenon, <3>1, <3>2
    <2>4. ASSUME NEW b \in Blocks
          PROVE  pending'.keys[b] # None <=> \E i \in 1..written' : pending'.blocks[i] = b
      <3>1. CASE b = u
        <4>1. pending'.keys[b] # None
          BY <3>1, <1>2, <1>4, <1>5 DEF IInv, CoreType, DbTypeOK, Contents, Rows
        <4> QED
          BY <4>1, <3>1, <1>1, <1>2, <1>5 DEF u
      <3>2. CASE b # u
        <4>1. pending'.keys[b] = pending.keys[b]
          BY Zenon, <3>2, <1>2, <1>5 DEF IInv, CoreType, DbTypeOK, Contents, Rows
        <4>2. \A i \in 1..n : pending.blocks[i] = b => i \in 1..written
          BY <3>2, <1>2 DEF u, IInv, CoreType, DbTypeOK
        <4>3. 1..written \subseteq 1..n
          BY <1>2 DEF IInv, CoreType, DbTypeOK
        <4> QED
          BY Zenon, <4>1, <4>2, <4>3, <1>1, <1>5 DEF IInv, PendingInv
      <3> QED
        BY Zenon, <3>1, <3>2
    <2> QED
      BY <1>1, <1>4, <2>1, <2>2, <2>3, <2>4 DEF PendingInv, Late
  <1>12. ReaderInv'
    BY Zenon, <1>1, <1>4, <1>7, <1>8, WriteLocs, ReadersKeep DEF NotAfter
  <1> QED
    BY Zenon, <1>6, <1>9, <1>10, <1>11, <1>12 DEF IInv

-----------------------------------------------------------------------------
\* The failures and the end of a commit, flushes, closing, crashing and opening.

\* Writing a block fails: nothing that was there before the commit is lost.
LEMMA WriteFailsInv ==
    ASSUME IInv, WritePendingFails
    PROVE  IInv'
  <1> USE RowAssumption
  <1>1. /\ stage[Writer] = "writing" /\ stage'[Writer] = "undo"
        /\ \A t \in Readers : stage'[t] = stage[t]
        /\ stage' \in [Txs -> {"none", "ldb", "open", "writing", "undo",
                               "synced", "flushed", "cleared"}]
        /\ UNCHANGED <<status, ldb, cache, snap, pending, written, saved>>
    BY Zenon DEF WritePendingFails, IInv, CoreType, DbTypeOK, Txs
  <1>2. CoreType /\ Reaches(onDisk, files, cursor) /\ NotAfter(saved, cursor)
    BY Zenon, <1>1 DEF IInv, PendingInv
  <1>3. /\ files' \in [FileNums -> Seq(Units)]
        /\ onDisk' \subseteq FileNums
        /\ cursor' \in Locations
        /\ Keeps(onDisk, files, onDisk', files', cursor)
    <2>1. CASE WriteBlock(Torn)
      BY Zenon, <2>1, <1>2, WriteBlockProps DEF Keeps, Units
    <2>2. CASE WriteNothing
      <3>1. ASSUME NEW p \in Locations, Before(p, cursor)
            PROVE  p.file \in onDisk
        BY <3>1, <1>2, FileAssumption DEF Reaches, Before, Locations, FileNums, Start
      <3> QED
        BY Zenon, <3>1, <2>2, <1>2, WriteNothingProps DEF Keeps, CoreType
    <2> QED
      BY Zenon, <2>1, <2>2 DEF WritePendingFails
  <1>4. CoreType'
    BY Zenon, <1>1, <1>3 DEF IInv, CoreType, DbTypeOK
  <1>5. /\ status = "open" /\ Running /\ Current' = Current /\ Limit' = saved /\ Limit = saved
        /\ saved \in Locations /\ cursor \in Locations
    BY Zenon, <1>1 DEF IInv, MetadataInv, Running, NoTxs, Txs, Limit, Current, Overlay, CoreType, DbTypeOK
  <1>6. /\ NotAfter(Current[WriteLoc], saved)
        /\ NotAfter(Current[WriteLoc], cursor)
        /\ NotAfter(ldb[WriteLoc], cursor)
    BY Zenon, <1>2, <1>5, WriteLocs, PositionOrder DEF IInv, MetadataInv
  <1>7. MetadataInv'
    <2>1. GoodRows(onDisk', files', ldb) /\ GoodRows(onDisk', files', Current)
      BY Zenon, <1>3, <1>5, <1>6, WriteLocs, KeepsRows DEF IInv, MetadataInv
    <2>2. Reaches(onDisk', files', saved)
      BY Zenon, <1>2, <1>3, <1>5 DEF IInv, MetadataInv, Keeps
    <2> QED
      BY Zenon, <1>1, <1>5, <1>6, <2>1, <2>2 DEF IInv, MetadataInv, Running
  <1>8. WriterInv' /\ PendingInv'
    BY Zenon, <1>1, <1>5 DEF IInv, WriterInv, PendingInv, Late
  <1>9. ReaderInv'
    BY Zenon, <1>1, <1>3, <1>5, <1>6, WriteLocs, ReadersKeep DEF NotAfter
  <1> QED
    BY Zenon, <1>4, <1>7, <1>8, <1>9 DEF IInv

\* The writes of a failed commit are rolled back.
LEMMA UndoInv ==
    ASSUME IInv, UndoWrites
    PROVE  IInv'
  <1> USE RowAssumption
  <1>1. /\ stage[Writer] = "undo" /\ HandleRollback(cursor, saved, TRUE)
        /\ CloseTx(Writer) /\ UNCHANGED <<status, ldb, cache>>
    BY Zenon DEF UndoWrites
  <1>2. /\ status = "open" /\ Running /\ Current' = Current /\ Limit = saved
        /\ saved \in Locations /\ cursor \in Locations /\ cursor.file \in Nat
        /\ CoreType /\ Writer \in Txs
    BY <1>1, FileAssumption DEF IInv, MetadataInv, Running, NoTxs, Txs, Limit, Current, Overlay, CoreType, DbTypeOK, Locations, FileNums
  <1>3. Reaches(onDisk, files, saved) /\ NotAfter(Current[WriteLoc], saved)
    BY Zenon, <1>2 DEF IInv, MetadataInv
  <1>4. /\ files' \in [FileNums -> Seq(Units)]
        /\ onDisk' \subseteq FileNums
        /\ cursor' = saved
        /\ Keeps(onDisk, files, onDisk', files', saved)
    BY Zenon, <1>1, <1>2, <1>3, RollbackProps
  <1>5. CoreType'
    BY Zenon, <1>1, <1>2, <1>4, CloseTxProps DEF CoreType, DbTypeOK
  <1>6. MetadataInv'
    <2>1. NotAfter(ldb[WriteLoc], saved)
      BY Zenon, <1>2, <1>3, WriteLocs, PositionOrder DEF IInv, MetadataInv
    <2>2. GoodRows(onDisk', files', ldb) /\ GoodRows(onDisk', files', Current)
      BY Zenon, <1>2, <1>3, <1>4, <2>1, WriteLocs, KeepsRows DEF IInv, MetadataInv
    <2>3. Reaches(onDisk', files', saved)
      BY Zenon, <1>2, <1>3, <1>4 DEF Keeps, NotAfter
    <2>4. Limit' = saved
      BY Zenon, <1>1, <1>2, <1>4, CloseTxProps DEF Limit
    <2> QED
      BY Zenon, <1>1, <1>2, <1>3, <2>2, <2>3, <2>4 DEF IInv, MetadataInv, Running
  <1>7. WriterInv' /\ PendingInv'
    BY Zenon, <1>1, <1>2, CloseTxProps, IdleWriter
  <1>8. ReaderInv'
    <2>1. \A r \in Readers : stage'[r] = stage[r] /\ snap'[r] = snap[r]
      BY Zenon, <1>1, <1>2, CloseTxProps DEF Txs
    <2> QED
      BY Zenon, <2>1, <1>2, <1>3, <1>4, WriteLocs, ReadersKeep DEF NotAfter
  <1> QED
    BY Zenon, <1>5, <1>6, <1>7, <1>8 DEF IInv

\* The rows of a commit are right when the pending ones are.
LEMMA CommitRows ==
    ASSUME NEW exist, NEW contents, NEW rows \in Contents, NEW change, NEW pos,
           Reaches(exist, contents, pos), GoodRows(exist, contents, rows),
           NotAfter(rows[WriteLoc], pos),
           change.keys \in Contents, change.keys[WriteLoc] = pos,
           change.remove \subseteq Keys,
           \A b \in Blocks : GoodRow(exist, contents, change.keys[b], b, pos)
    PROVE  /\ GoodRows(exist, contents, Overlay(rows, change))
           /\ Overlay(rows, change)[WriteLoc] = pos
           /\ Overlay(rows, change) \in Contents
           /\ \A b \in Blocks : Overlay(rows, change)[b] =
                IF change.keys[b] # None THEN change.keys[b] ELSE rows[b]
  <1> USE RowAssumption
  <1>1. pos \in Locations /\ pos # None /\ rows[WriteLoc] \in Locations
    BY Zenon DEF Reaches, GoodRows
  <1>2. Overlay(rows, change)[WriteLoc] = pos
    BY Zenon, <1>1 DEF Overlay, Rows
  <1>3. Overlay(rows, change) \in Contents
    BY Zenon, OverlayType DEF Rows
  <1>4. \A b \in Blocks : Overlay(rows, change)[b] =
                IF change.keys[b] # None THEN change.keys[b] ELSE rows[b]
    BY Zenon DEF Overlay, Rows
  <1>5. ASSUME NEW b \in Blocks
        PROVE  GoodRow(exist, contents, Overlay(rows, change)[b], b, pos)
    <2>1. CASE change.keys[b] # None
      BY Zenon, <2>1, <1>4
    <2>2. CASE change.keys[b] = None
      <3>1. rows[b] \in Locations \cup {None} /\ GoodRow(exist, contents, rows[b], b, rows[WriteLoc])
        BY Zenon DEF Contents, GoodRows
      <3> QED
        BY Zenon, <2>2, <3>1, <1>1, <1>4, PositionOrder DEF GoodRow
    <2> QED
      BY Zenon, <2>1, <2>2
  <1> QED
    BY Zenon, <1>2, <1>3, <1>4, <1>5 DEF GoodRows

\* The pending changes once every block is written.
LEMMA CompleteProps ==
    ASSUME IInv, AllWritten
    PROVE  /\ Complete \in [keys : Contents, remove : SUBSET Rows, blocks : Seq(Blocks)]
           /\ Complete.remove = pending.remove
           /\ Complete.remove \subseteq Keys
           /\ Complete.blocks = pending.blocks
           /\ Complete.keys[WriteLoc] = cursor
           /\ \A k \in Keys \cup Blocks : Complete.keys[k] = pending.keys[k]
           /\ \A b \in Blocks : GoodRow(onDisk, files, Complete.keys[b], b, cursor)
           /\ status = "open" /\ Running
           /\ Reaches(onDisk, files, cursor)
           /\ NotAfter(Current[WriteLoc], cursor)
  <1> USE RowAssumption
  <1>1. /\ pending \in [keys : Contents, remove : SUBSET Rows, blocks : Seq(Blocks)]
        /\ pending.remove \subseteq Keys /\ cursor \in Locations /\ saved \in Locations
    BY Zenon DEF IInv, CoreType, DbTypeOK, WriterInv
  <1>2. [pending.keys EXCEPT ![WriteLoc] = cursor] \in Contents
    BY Zenon, <1>1 DEF Contents, Rows
  <1>3. Complete = [keys |-> [pending.keys EXCEPT ![WriteLoc] = cursor],
                    remove |-> pending.remove \ {WriteLoc}, blocks |-> pending.blocks]
    BY Zenon, <1>1 DEF Complete
  <1>4. /\ Complete.keys[WriteLoc] = cursor
        /\ \A k \in Keys \cup Blocks : Complete.keys[k] = pending.keys[k]
    BY Zenon, <1>1, <1>3 DEF Contents, Rows
  <1>5. stage[Writer] = "writing" /\ status = "open" /\ Running /\ Limit = saved
    BY Zenon DEF AllWritten, IInv, MetadataInv, NoTxs, Txs, Running, Limit
  <1>6. Reaches(onDisk, files, cursor) /\ NotAfter(saved, cursor)
    BY Zenon, <1>5 DEF IInv, PendingInv
  <1>7. NotAfter(Current[WriteLoc], cursor)
    BY Zenon, <1>1, <1>5, <1>6, WriteLocs, PositionOrder DEF IInv, MetadataInv
  <1>8. \A b \in Blocks : GoodRow(onDisk, files, Complete.keys[b], b, cursor)
    BY Zenon, <1>4, <1>5 DEF IInv, PendingInv
  <1>9. Complete \in [keys : Contents, remove : SUBSET Rows, blocks : Seq(Blocks)]
    BY Zenon, <1>1, <1>2, <1>3
  <1>10. Complete.remove = pending.remove /\ Complete.blocks = pending.blocks
    BY Zenon, <1>1, <1>3
  <1> QED
    BY Zenon, <1>1, <1>4, <1>5, <1>6, <1>7, <1>8, <1>9, <1>10

\* The transaction is applied to the cache.
LEMMA CommitToCacheInv ==
    ASSUME IInv, CommitToCache
    PROVE  IInv' /\ Current' = Overlay(Current, Complete)
  <1> USE RowAssumption
  <1>1. /\ AllWritten /\ cache' = Merge(cache, Complete) /\ CloseTx(Writer)
        /\ UNCHANGED <<files, onDisk, cursor, status, ldb>>
        /\ CoreType /\ Writer \in Txs
    BY Zenon DEF CommitToCache, fileVars, IInv, Txs
  <1>2. cache \in [keys : Contents, remove : SUBSET Rows] /\ cache.remove \subseteq Keys /\ ldb \in Contents
    BY Zenon DEF IInv, CoreType, DbTypeOK, MetadataInv
  <1>3. /\ Complete.keys \in Contents /\ Complete.remove \subseteq Rows /\ Complete.remove \subseteq Keys
        /\ status = "open" /\ Running
    BY Zenon, <1>1, CompleteProps
  <1>4. Current' = Overlay(Current, Complete)
    <2>1. Current' = Overlay(ldb, Merge(cache, Complete))
      BY Zenon, <1>1 DEF Current, Overlay
    <2> QED
      BY <1>2, <1>3, <2>1, MergeOverlay DEF Current
  <1>5. cache' \in [keys : Contents, remove : SUBSET Rows] /\ cache'.remove \subseteq Keys
    <2>1. cache'.keys \in Contents
      BY Zenon, <1>1, <1>2, <1>3 DEF Merge, Contents, Rows
    <2> QED
      BY Zenon, <1>1, <1>2, <1>3, <2>1 DEF Merge
  <1>6. CoreType'
    BY Zenon, <1>1, <1>5, CloseTxProps DEF CoreType, DbTypeOK
  <1>7. GoodRows(onDisk, files, Current') /\ Current'[WriteLoc] = cursor
    BY <1>1, <1>4, WriteLocs, CompleteProps, CommitRows DEF IInv, MetadataInv
  <1>8. cursor \in Locations /\ NotAfter(Current[WriteLoc], cursor) /\ Reaches(onDisk, files, cursor)
    BY Zenon, <1>1, CompleteProps DEF IInv, CoreType
  <1>9. NotAfter(ldb[WriteLoc], cursor)
    BY Zenon, <1>8, WriteLocs, PositionOrder DEF IInv, MetadataInv
  <1>10. Limit' = cursor
    BY Zenon, <1>1, CloseTxProps DEF Limit
  <1>11. MetadataInv'
    BY Zenon, <1>1, <1>3, <1>5, <1>7, <1>8, <1>9, <1>10 DEF IInv, MetadataInv, Running, NotAfter
  <1>12. WriterInv' /\ PendingInv'
    BY Zenon, <1>1, CloseTxProps, IdleWriter
  <1>13. ReaderInv'
    <2>1. \A r \in Readers : stage'[r] = stage[r] /\ snap'[r] = snap[r]
      BY Zenon, <1>1, CloseTxProps DEF Txs
    <2> QED
      BY Zenon, <2>1, <1>1, <1>7, <1>8, WriteLocs, KeepsSame, ReadersKeep
  <1> QED
    BY Zenon, <1>4, <1>6, <1>11, <1>12, <1>13 DEF IInv

\* The sync that comes first in a flush.
LEMMA FlushSyncInv ==
    ASSUME IInv, FlushSync
    PROVE  IInv'
  <1> USE RowAssumption
  <1>1. /\ AllWritten /\ pending' = Complete
        /\ UNCHANGED <<files, onDisk, cursor, status, ldb, cache, snap, written, saved>>
        /\ stage[Writer] = "writing" /\ stage'[Writer] = "synced"
        /\ \A t \in Readers : stage'[t] = stage[t]
        /\ stage' \in [Txs -> {"none", "ldb", "open", "writing", "undo",
                               "synced", "flushed", "cleared"}]
    BY Zenon DEF FlushSync, SyncBlocks, AllWritten, IInv, CoreType, DbTypeOK, Txs
  <1>2. CoreType'
    BY Zenon, <1>1, CompleteProps DEF IInv, CoreType, DbTypeOK
  <1>3. status = "open" /\ Running /\ Limit' = cursor
    BY Zenon, <1>1, CompleteProps DEF Limit
  <1>4. MetadataInv' /\ Current' = Current
    BY Zenon, <1>1, <1>3, CompleteProps, SameMetadata
  <1>5. WriterInv'
    BY Zenon, <1>1, <1>4, CompleteProps DEF IInv, WriterInv, AllWritten, Late
  <1>6. PendingInv'
    BY <1>1, CompleteProps DEF IInv, PendingInv, Late
  <1>7. ReaderInv'
    BY Zenon, <1>1, <1>4 DEF IInv, ReaderInv
  <1> QED
    BY Zenon, <1>2, <1>4, <1>5, <1>6, <1>7 DEF IInv

\* The cache goes to LevelDB, or is cleared after that.
LEMMA FlushCacheInv ==
    ASSUME IInv, FlushCommit \/ FlushClear
    PROVE  IInv' /\ Current' = Current
  <1> USE RowAssumption
  <1>1. /\ UNCHANGED <<files, onDisk, cursor, status, snap, pending, written, saved>>
        /\ stage[Writer] \in Late /\ stage'[Writer] \in Late
        /\ stage'[Writer] = IF FlushCommit THEN "flushed" ELSE "cleared"
        /\ \A t \in Readers : stage'[t] = stage[t]
        /\ stage' \in [Txs -> {"none", "ldb", "open", "writing", "undo",
                               "synced", "flushed", "cleared"}]
    <2>1. CASE FlushCommit
      BY Zenon, <2>1 DEF FlushCommit, fileVars, IInv, CoreType, DbTypeOK, Txs, Late
    <2>2. CASE FlushClear
      BY Zenon, <2>2 DEF FlushClear, FlushCommit, fileVars, IInv, CoreType, DbTypeOK, Txs, Late
    <2> QED
      BY Zenon, <2>1, <2>2
  <1>2. /\ Current' = Current
        /\ ldb' = Current
        /\ FlushCommit => cache' = cache
        /\ FlushClear => cache' = NoCache
    <2>1. CASE FlushCommit
      <3>1. ldb' = Current /\ cache' = cache
        BY Zenon, <2>1 DEF FlushCommit
      <3>2. Current' = Overlay(Current, cache)
        BY Zenon, <3>1 DEF Current, Overlay
      <3> QED
        BY Zenon, <2>1, <3>1, <3>2, OverlayTwice DEF Current, FlushClear, FlushCommit
    <2>2. CASE FlushClear
      <3>1. ldb' = ldb /\ cache' = NoCache /\ ldb = Current
        BY Zenon, <2>2 DEF FlushClear, IInv, WriterInv
      <3>2. Current' = Overlay(ldb, NoCache)
        BY Zenon, <3>1 DEF Current, Overlay
      <3> QED
        BY Zenon, <2>2, <3>1, <3>2, OverlayNothing, WriteLocs DEF FlushClear, FlushCommit
    <2> QED
      BY Zenon, <2>1, <2>2
  <1>3. NoCache \in [keys : Contents, remove : SUBSET Rows] /\ NoCache.remove = {}
    BY Zenon DEF NoCache, Nothing, Contents, Rows
  <1>4. CoreType'
    BY <1>1, <1>2, <1>3, WriteLocs DEF IInv, CoreType, DbTypeOK
  <1>5. status = "open" /\ Running /\ Limit' = Limit
    BY Zenon, <1>1 DEF IInv, MetadataInv, Running, NoTxs, Txs, Limit, Late
  <1>6. MetadataInv'
    BY Zenon, <1>1, <1>2, <1>3, <1>5 DEF IInv, MetadataInv, Running, NotAfter
  <1>7. WriterInv'
    BY Zenon, <1>1, <1>2 DEF IInv, WriterInv, Late
  <1>8. PendingInv'
    BY Zenon, <1>1 DEF IInv, PendingInv, Late
  <1>9. ReaderInv'
    BY Zenon, <1>1, <1>2 DEF IInv, ReaderInv
  <1> QED
    BY Zenon, <1>2, <1>4, <1>6, <1>7, <1>8, <1>9 DEF IInv

\* The transaction goes straight to LevelDB.
LEMMA CommitToLdbInv ==
    ASSUME IInv, CommitToLdb
    PROVE  IInv' /\ Current' = Overlay(Current, pending) /\ ldb' = Current'
  <1> USE RowAssumption
  <1>1. /\ stage[Writer] = "cleared" /\ ldb' = Overlay(ldb, pending) /\ CloseTx(Writer)
        /\ UNCHANGED <<files, onDisk, cursor, status, cache>>
        /\ CoreType /\ Writer \in Txs
        /\ cache = NoCache
    BY Zenon DEF CommitToLdb, fileVars, IInv, Txs, WriterInv
  <1>2. /\ pending.keys \in Contents /\ pending.remove \subseteq Rows /\ pending.remove \subseteq Keys
        /\ cursor \in Locations
    BY Zenon DEF IInv, CoreType, DbTypeOK, WriterInv
  <1>3. Current = ldb
    BY Zenon, <1>1, OverlayNothing DEF Current, CoreType, DbTypeOK
  <1>4. ldb' \in Contents
    BY Zenon, <1>1, <1>2, WriteLocs, OverlayType
  <1>5. Current' = ldb'
    <2>1. Current' = Overlay(ldb', NoCache)
      BY Zenon, <1>1 DEF Current, Overlay
    <2> QED
      BY Zenon, <1>4, <2>1, OverlayNothing
  <1>6. CoreType'
    BY Zenon, <1>1, <1>4, CloseTxProps DEF CoreType, DbTypeOK
  <1>7. /\ status = "open" /\ Running /\ Limit = cursor
        /\ Reaches(onDisk, files, cursor) /\ NotAfter(Current[WriteLoc], cursor)
    BY Zenon, <1>1 DEF IInv, MetadataInv, NoTxs, Txs, Running, Limit
  <1>8. /\ pending.keys[WriteLoc] = cursor
        /\ \A b \in Blocks : GoodRow(onDisk, files, pending.keys[b], b, cursor)
    BY Zenon, <1>1 DEF IInv, PendingInv, Late
  <1>9. GoodRows(onDisk, files, ldb') /\ ldb'[WriteLoc] = cursor
    BY <1>1, <1>2, <1>3, <1>7, <1>8, WriteLocs, CommitRows DEF IInv, MetadataInv
  <1>10. Limit' = cursor
    BY Zenon, <1>1, CloseTxProps DEF Limit
  <1>11. MetadataInv'
    BY Zenon, <1>1, <1>5, <1>7, <1>9, <1>10 DEF IInv, MetadataInv, Running, NotAfter
  <1>12. WriterInv' /\ PendingInv'
    BY Zenon, <1>1, CloseTxProps, IdleWriter
  <1>13. ReaderInv'
    <2>1. \A r \in Readers : stage'[r] = stage[r] /\ snap'[r] = snap[r]
      BY Zenon, <1>1, CloseTxProps DEF Txs
    <2> QED
      BY Zenon, <2>1, <1>1, <1>2, <1>5, <1>7, <1>9, WriteLocs, KeepsSame, ReadersKeep
  <1> QED
    BY Zenon, <1>1, <1>3, <1>5, <1>6, <1>11, <1>12, <1>13 DEF IInv

\* The flush of Flush and of Close, when no transaction runs.
LEMMA FlushInv ==
    ASSUME IInv, FlushDB \/ CloseDB
    PROVE  /\ IInv'
           /\ Current' = Current
           /\ ldb' = ldb \/ ldb' = Current
  <1> USE RowAssumption
  <1>1. /\ UNCHANGED <<files, onDisk, cursor, stage, snap, pending, written, saved>>
        /\ Running /\ NoTxs /\ Running' /\ NoTxs' /\ status' \in {"open", "closing"}
        /\ Flush
    BY Zenon DEF FlushDB, CloseDB, Flush, SyncBlocks, fileVars, Running, NoTxs
  <1>2. NoCache \in [keys : Contents, remove : SUBSET Rows] /\ NoCache.remove = {}
    BY Zenon DEF NoCache, Nothing, Contents, Rows
  <1>3. \/ ldb' = ldb /\ cache' = cache
        \/ ldb' = Current /\ cache' = NoCache
    BY Zenon, <1>1 DEF Flush
  <1>4. Current' = Current
    <2>1. CASE ldb' = ldb /\ cache' = cache
      BY Zenon, <2>1 DEF Current, Overlay
    <2>2. CASE ldb' = Current /\ cache' = NoCache
      <3>1. Current' = Overlay(Current, NoCache)
        BY Zenon, <2>2 DEF Current, Overlay
      <3> QED
        BY Zenon, <3>1, WriteLocs, OverlayNothing
    <2> QED
      BY Zenon, <1>3, <2>1, <2>2
  <1>5. CoreType'
    BY <1>1, <1>2, <1>3, WriteLocs DEF IInv, CoreType, DbTypeOK
  <1>6. MetadataInv'
    <2>1. Limit' = Limit
      BY Zenon, <1>1 DEF Limit
    <2> QED
      BY Zenon, <1>1, <1>2, <1>3, <1>4, <2>1 DEF IInv, MetadataInv, NotAfter, Running
  <1>7. stage[Writer] = "none"
    BY Zenon, <1>1 DEF NoTxs, Txs
  <1>8. WriterInv' /\ PendingInv'
    BY Zenon, <1>1, <1>7, IdleWriter DEF IInv, WriterInv
  <1>9. ReaderInv'
    BY Zenon, <1>1, <1>4 DEF IInv, ReaderInv
  <1> QED
    BY Zenon, <1>3, <1>4, <1>5, <1>6, <1>8, <1>9 DEF IInv

\* The end of the process, by Close or by a crash.
LEMMA StopInv ==
    ASSUME IInv, CloseFiles \/ Crash
    PROVE  IInv' /\ Current' = ldb /\ ldb' = ldb /\ stage'[Writer] = "none"
  <1> USE RowAssumption, FileAssumption
  <1>1. Nothing \in Contents /\ Start \in Locations
    BY DEF Nothing, Contents, Rows, Start, Locations, FileNums
  <1>2. /\ NoPending \in [keys : Contents, remove : SUBSET Rows, blocks : Seq(Blocks)]
        /\ NoCache \in [keys : Contents, remove : SUBSET Rows] /\ NoCache.remove = {}
    BY <1>1 DEF NoPending, NoCache
  <1>3. /\ UNCHANGED <<files, onDisk, ldb>> /\ status' = "closed" /\ cache' = NoCache
        /\ cursor' = Start
    BY Zenon DEF CloseFiles, Crash, FilesClosed, Start
  <1>4. /\ stage' \in [Txs -> {"none", "ldb", "open", "writing", "undo",
                               "synced", "flushed", "cleared"}]
        /\ snap' \in [Txs -> Contents]
        /\ NoTxs'
        /\ stage'[Writer] = "none"
        /\ pending' = NoPending /\ written' = 0 /\ saved' \in Locations
    <2>1. CASE Crash
      BY Zenon, <2>1, <1>1 DEF Crash, NoTxs, Txs
    <2>2. CASE CloseFiles
      <3>1. NoTxs /\ UNCHANGED <<stage, snap, pending, written, saved>>
        BY Zenon, <2>2 DEF CloseFiles, IInv, MetadataInv
      <3>2. stage[Writer] = "none"
        BY Zenon, <3>1 DEF NoTxs, Txs
      <3> QED
        BY Zenon, <3>1, <3>2 DEF IInv, CoreType, DbTypeOK, WriterInv, NoTxs
    <2> QED
      BY Zenon, <2>1, <2>2
  <1>5. Current' = ldb
    <2>1. Current' = Overlay(ldb, NoCache)
      BY Zenon, <1>3 DEF Current, Overlay
    <2> QED
      BY Zenon, <2>1, WriteLocs, OverlayNothing
  <1>6. CoreType'
    BY Zenon, <1>1, <1>2, <1>3, <1>4 DEF IInv, CoreType, DbTypeOK
  <1>7. MetadataInv'
    BY Zenon, <1>2, <1>3, <1>4, <1>5 DEF IInv, MetadataInv, Running, NotAfter
  <1>8. WriterInv' /\ PendingInv'
    BY Zenon, <1>4, IdleWriter
  <1>9. ReaderInv'
    BY Zenon, <1>4 DEF ReaderInv, NoTxs, Txs
  <1> QED
    BY Zenon, <1>3, <1>4, <1>5, <1>6, <1>7, <1>8, <1>9 DEF IInv

\* reconcileDB finds the block files at least as far as the metadata claims.
LEMMA OpenInv ==
    ASSUME IInv, OpenDB
    PROVE  /\ IInv'
           /\ Current' = Current /\ ldb' = ldb
           /\ UNCHANGED <<stage, pending>>
  <1> USE RowAssumption, FileAssumption
  <1> DEFINE claim == ldb[WriteLoc]
  <1>1. /\ status = "closed"
        /\ UNCHANGED <<ldb, cache, stage, snap, pending, written, saved>>
    BY Zenon DEF OpenDB
  <1>2. /\ CoreType /\ NoTxs /\ cache = NoCache
        /\ claim \in Locations /\ Reaches(onDisk, files, claim)
    BY Zenon, <1>1 DEF IInv, MetadataInv, GoodRows, Reaches, Running
  <1>3. Current = ldb /\ Current' = Current
    <2>1. Current = Overlay(ldb, NoCache) /\ Current' = Current
      BY Zenon, <1>1, <1>2 DEF Current, Overlay
    <2> QED
      BY Zenon, <2>1, WriteLocs, OverlayNothing
  <1>4. PICK found \in ScanBlockFiles :
             \/ /\ ~Before(found, claim)
                /\ HandleRollback(found, claim, TRUE)
                /\ status' = "open"
             \/ Before(found, claim)
    BY Zenon DEF OpenDB
  <1>5. found \in Locations /\ ~Before(found, claim)
    <2>1. CASE 0 \notin onDisk
      <3>1. found = Start
        BY Zenon, <2>1 DEF ScanBlockFiles, Start
      <3>2. claim = Start
        BY <2>1, <1>2 DEF Reaches, Locations, FileNums
      <3> QED
        BY Zenon, <3>1, <3>2, <1>2, PositionOrder
    <2>2. CASE 0 \in onDisk
      <3>1. /\ found \in Locations
            /\ \A n \in 0..found.file : n \in onDisk
            /\ found.file + 1 \notin onDisk
            /\ found.off = Len(files[found.file])
        BY Zenon, <2>2 DEF ScanBlockFiles
      <3>2. \A n \in 0..claim.file : n \in onDisk
        <4>1. CASE claim = Start
          BY <4>1, <2>2 DEF Start
        <4>2. CASE claim # Start
          BY Zenon, <4>2, <1>2 DEF Reaches
        <4> QED
          BY Zenon, <4>1, <4>2
      <3>3. claim.file <= found.file
        BY <3>1, <3>2, <1>2 DEF Locations, FileNums
      <3> QED
        BY <3>1, <3>3, <1>2 DEF Reaches, Before, Locations, FileNums
    <2> QED
      BY Zenon, <2>1, <2>2
  <1>6. HandleRollback(found, claim, TRUE) /\ status' = "open"
    BY Zenon, <1>4, <1>5
  <1>7. /\ files' \in [FileNums -> Seq(Units)]
        /\ onDisk' \subseteq FileNums
        /\ cursor' = claim
        /\ Keeps(onDisk, files, onDisk', files', claim)
    <2>1. found.file \in Nat
      BY <1>5 DEF Locations, FileNums
    <2> QED
      BY Zenon, <2>1, <1>2, <1>6, RollbackProps
  <1>8. CoreType'
    BY Zenon, <1>1, <1>2, <1>6, <1>7 DEF CoreType, DbTypeOK
  <1>9. stage[Writer] = "none" /\ stage'[Writer] = "none" /\ NoTxs'
    BY Zenon, <1>1, <1>2 DEF NoTxs, Txs
  <1>10. MetadataInv'
    <2>1. GoodRows(onDisk', files', ldb)
      BY Zenon, <1>2, <1>7, WriteLocs, KeepsRows DEF IInv, MetadataInv, NotAfter
    <2>2. Limit' = claim /\ Reaches(onDisk', files', claim)
      BY Zenon, <1>2, <1>7, <1>9 DEF Limit, Keeps, NotAfter
    <2> QED
      BY Zenon, <1>1, <1>2, <1>3, <1>6, <1>9, <2>1, <2>2 DEF IInv, MetadataInv, NotAfter, Running
  <1>11. WriterInv' /\ PendingInv'
    BY Zenon, <1>1, <1>9, IdleWriter DEF IInv, WriterInv
  <1>12. ReaderInv'
    BY Zenon, <1>9 DEF ReaderInv, NoTxs, Txs
  <1> QED
    BY Zenon, <1>1, <1>3, <1>8, <1>10, <1>11, <1>12 DEF IInv

\* Every step preserves the invariant.
LEMMA NextInv == IInv /\ [Next]_vars => IInv'
  <1> SUFFICES ASSUME IInv, [Next]_vars PROVE IInv'
    OBVIOUS
  <1>1. CASE UNCHANGED vars
    <2>1. UNCHANGED <<files, onDisk, cursor, status, ldb, cache, stage, snap, pending, written, saved>>
      BY Zenon, <1>1 DEF vars, fileVars, dbVars
    <2>2. Current' = Current /\ Limit' = Limit /\ NoTxs' = NoTxs /\ Running' = Running
      BY Zenon, <2>1 DEF Current, Overlay, Limit, NoTxs, Running
    <2> QED
      BY Zenon, <2>1, <2>2 DEF IInv, CoreType, DbTypeOK, MetadataInv, WriterInv, PendingInv, ReaderInv
  <1>2. CASE Work
    <2>1. CASE \E t \in Txs : Begin(t) \/ SnapshotCache(t) \/ Rollback(t)
      BY Zenon, <2>1, BeginInv, AbandonInv
    <2>2. CASE \/ \E k \in Keys : DeleteKey(k) \/ \E v \in Values : PutKey(k, v)
               \/ \E b \in Blocks : StoreBlock(b)
      BY Zenon, <2>2, EditInv
    <2>3. CASE \E r \in Readers : ReadDone(r) \/ \E b \in Blocks : ReadBlock(r, b)
      BY Zenon, <2>3, ReadInv
    <2>4. CASE Commit \/ WritePending \/ UndoWrites
      BY Zenon, <2>4, CommitInv, WritePendingInv, UndoInv
    <2>5. CASE CommitToCache \/ FlushSync \/ FlushCommit \/ FlushClear \/ CommitToLdb
      BY Zenon, <2>5, CommitToCacheInv, FlushSyncInv, FlushCacheInv, CommitToLdbInv
    <2>6. CASE FlushDB \/ CloseDB \/ CloseFiles \/ OpenDB
      BY Zenon, <2>6, FlushInv, StopInv, OpenInv
    <2> QED
      BY Zenon, <1>2, <2>1, <2>2, <2>3, <2>4, <2>5, <2>6 DEF Work
  <1>3. CASE Mishap
    <2>1. CASE FlushFails
      BY Zenon, <2>1, AbandonInv DEF Txs
    <2> QED
      BY Zenon, <1>3, <2>1, WriteFailsInv, StopInv DEF Mishap
  <1> QED
    BY Zenon, <1>1, <1>2, <1>3 DEF Next

\* Whatever fails and whenever the process dies, the records the metadata
\* lists are in the block files: reconcileDB never reports corruption, and a
\* reader finds every block of its snapshot.
THEOREM StorageSound == Spec => []IInv
  BY InitInv, NextInv, PTL DEF Spec

\* reconcileDB never finds the block files short of the write position in the
\* metadata, however the process died before.
THEOREM NeverCorruptAlways == Spec => []NeverCorrupt
  <1>1. IInv => NeverCorrupt
    BY Zenon DEF IInv, MetadataInv, NeverCorrupt
  <1> QED
    BY <1>1, StorageSound, PTL

\* A block in the snapshot of a read transaction can be read for as long as the
\* transaction lasts, whatever the write transaction beside it writes, rolls
\* back or rolls over.
THEOREM ReadersFindBlocksAlways == Spec => []ReadersFindBlocks
  <1>1. IInv => ReadersFindBlocks
    BY Zenon DEF IInv, ReaderInv, ReadersFindBlocks, GoodRow, RecordAt
  <1> QED
    BY <1>1, StorageSound, PTL

-----------------------------------------------------------------------------
\* What rests on the invariant.

\* Under the invariant the records can be left out of the contents.
PlainOf(rows) ==
    [keys |-> [k \in Keys |-> rows[k]], blocks |-> {b \in Blocks : rows[b] # None}]

PlainWork ==
    [keys   |-> [k \in Keys |-> WriterView[k]],
     blocks |-> {b \in Blocks : Current[b] # None} \cup PendingBlocks]

Busy == stage[Writer] \notin {"none", "ldb"}

Plain ==
    /\ CurrentContents = PlainOf(Current)
    /\ DurableContents = PlainOf(ldb)
    /\ WorkingContents = IF Busy THEN PlainWork ELSE NoWork
    /\ PlainWork # NoWork
    /\ PendingBlocks \subseteq Blocks

\* What the rows show is what the abstract store holds, because every listed
\* record is in the files.
LEMMA Mapped == IInv => Plain
  <1> SUFFICES ASSUME IInv PROVE Plain
    OBVIOUS
  <1>1. GoodRows(onDisk, files, ldb) /\ GoodRows(onDisk, files, Current)
    BY Zenon DEF IInv, MetadataInv
  <1>2. ASSUME NEW rows, GoodRows(onDisk, files, rows)
        PROVE  ContentsOf(rows) = PlainOf(rows)
    <2>1. \A b \in Blocks : rows[b] # None => RecordAt(rows[b]) = b
      BY Zenon, <1>2 DEF GoodRows, GoodRow, RecordAt
    <2> QED
      BY Zenon, <2>1 DEF ContentsOf, PlainOf
  <1>3. CurrentContents = PlainOf(Current) /\ DurableContents = PlainOf(ldb)
    BY Zenon, <1>1, <1>2 DEF CurrentContents, DurableContents
  <1>4. Busy => WorkingContents = PlainWork
    <2> SUFFICES ASSUME Busy PROVE WorkingContents = PlainWork
      OBVIOUS
    <2>1. snap[Writer] = Current
      BY Zenon DEF IInv, WriterInv, Busy
    <2>2. ContentsOf(snap[Writer]).blocks = {b \in Blocks : Current[b] # None}
      BY <1>1, <1>2, <2>1 DEF PlainOf
    <2> QED
      BY Zenon, <2>2 DEF WorkingContents, PlainWork, Busy
  <1>5. PendingBlocks \subseteq Blocks
    BY DEF PendingBlocks, IInv, CoreType, DbTypeOK
  <1>6. PlainWork # NoWork
    <2>1. None \notin PlainWork.blocks
      BY Zenon, <1>5, RowAssumption DEF PlainWork
    <2>2. None \in NoWork.blocks
      BY Zenon DEF NoWork
    <2> QED
      BY Zenon, <2>1, <2>2
  <1> QED
    BY Zenon, <1>3, <1>4, <1>5, <1>6 DEF Plain, WorkingContents, Busy

\* The same in the next state.
LEMMA MappedNext == IInv' => Plain'
  BY Mapped, PTL

\* A step that changes neither the rows nor, in what the store shows, the
\* write transaction.
LEMMA Stutter ==
    ASSUME IInv, IInv', ldb' = ldb, Current' = Current,
           \/ ~Busy /\ ~Busy'
           \/ Busy /\ Busy' /\ PlainWork' = PlainWork
    PROVE  UNCHANGED <<CurrentContents, DurableContents, WorkingContents>>
  <1>1. PlainOf(Current)' = PlainOf(Current) /\ PlainOf(ldb)' = PlainOf(ldb)
    BY Zenon DEF PlainOf
  <1>2. Plain /\ Plain'
    BY Zenon, Mapped, MappedNext
  <1> QED
    BY Zenon, <1>1, <1>2 DEF Plain

\* A new database is an empty store.
LEMMA InitRefines == Init => Promise!StoreInit
  <1> SUFFICES ASSUME Init PROVE Promise!StoreInit
    OBVIOUS
  <1>1. IInv /\ Plain
    BY Zenon, InitInv, Mapped
  <1>2. ldb = [Nothing EXCEPT ![WriteLoc] = Start] /\ cache = NoCache /\ ~Busy
    BY Zenon, RowAssumption DEF Init, DbInit, Busy, Txs
  <1>3. Current = ldb
    BY Zenon, <1>1, <1>2, WriteLocs, OverlayNothing DEF Current
  <1>4. PlainOf(ldb) = NoContents
    BY Zenon, <1>2, RowAssumption DEF PlainOf, NoContents, Nothing, Rows
  <1> QED
    BY Zenon, <1>1, <1>2, <1>3, <1>4 DEF Promise!StoreInit, Plain

\* The write transaction takes its snapshot: Start.
LEMMA StartRefines ==
    ASSUME IInv, IInv', NEW t \in Txs, Begin(t) \/ SnapshotCache(t)
    PROVE  [Promise!StoreNext]_(Promise!storeVars)
  <1>1. /\ UNCHANGED <<ldb, cache, pending>>
        /\ Current' = Current
    BY Zenon DEF Begin, SnapshotCache, Current, Overlay
  <1>2. CASE t # Writer \/ Begin(t)
    <2>1. Busy' = Busy
      BY Zenon, <1>2 DEF Begin, SnapshotCache, Busy, IInv, CoreType, DbTypeOK, Txs
    <2>2. Busy => WriterView' = WriterView
      BY Zenon, <1>1, <1>2 DEF WriterView, Overlay, Begin, SnapshotCache, Busy, IInv, CoreType, DbTypeOK, Txs
    <2>3. Busy => PlainWork' = PlainWork
      BY Zenon, <1>1, <2>2 DEF PlainWork, PendingBlocks
    <2> QED
      BY Zenon, <1>1, <2>1, <2>3, Stutter DEF Promise!storeVars
  <1>3. CASE t = Writer /\ SnapshotCache(t)
    <2>1. ~Busy /\ Busy' /\ pending = NoPending
      BY Zenon, <1>3 DEF SnapshotCache, Busy, IInv, CoreType, DbTypeOK, WriterInv, Txs
    <2>2. snap'[Writer] = Current
      BY Zenon, <1>3, <1>1 DEF SnapshotCache, IInv, CoreType, DbTypeOK, WriterInv, Txs, Current
    <2>3. \A k \in Keys : WriterView'[k] = Current[k]
      BY Zenon, <1>1, <2>1, <2>2 DEF WriterView, Overlay, NoPending, Nothing, Rows
    <2>4. PendingBlocks' = {}
      BY <1>1, <2>1 DEF PendingBlocks, NoPending
    <2>5. PlainWork' = PlainOf(Current)
      BY Zenon, <1>1, <2>3, <2>4 DEF PlainWork, PlainOf
    <2>6. PlainOf(Current)' = PlainOf(Current) /\ PlainOf(ldb)' = PlainOf(ldb)
      BY Zenon, <1>1 DEF PlainOf
    <2>7. Plain /\ Plain'
      BY Zenon, Mapped, MappedNext
    <2>8. /\ WorkingContents = NoWork /\ WorkingContents' = CurrentContents
          /\ CurrentContents' = CurrentContents /\ DurableContents' = DurableContents
      BY Zenon, <2>1, <2>5, <2>6, <2>7 DEF Plain
    <2>9. Promise!Start
      BY Zenon, <2>8 DEF Promise!Start
    <2> QED
      BY Zenon, <2>9 DEF Promise!StoreNext
  <1> QED
    BY Zenon, <1>2, <1>3

\* putKey, deleteKey and StoreBlock: Change.
LEMMA EditRefines ==
    ASSUME IInv, IInv',
           \/ \E k \in Keys : DeleteKey(k) \/ \E v \in Values : PutKey(k, v)
           \/ \E b \in Blocks : StoreBlock(b)
    PROVE  Promise!Change
  <1>1. /\ UNCHANGED <<ldb, cache, snap>> /\ Current' = Current
        /\ Busy /\ Busy'
    BY Zenon DEF DeleteKey, PutKey, StoreBlock, Current, Overlay, Busy
  <1>2. PendingBlocks \subseteq PendingBlocks'
    <2>1. pending \in [keys : Contents, remove : SUBSET Rows, blocks : Seq(Blocks)]
      BY Zenon DEF IInv, CoreType, DbTypeOK
    <2>2. CASE \E k \in Keys : DeleteKey(k) \/ \E v \in Values : PutKey(k, v)
      <3>1. pending'.blocks = pending.blocks
        BY Zenon, <2>1, <2>2 DEF DeleteKey, PutKey
      <3> QED
        BY Zenon, <3>1 DEF PendingBlocks
    <2>3. CASE \E b \in Blocks : StoreBlock(b)
      <3>1. PICK b \in Blocks : pending'.blocks = Append(pending.blocks, b)
        BY Zenon, <2>1, <2>3 DEF StoreBlock
      <3> QED
        BY <2>1, <3>1 DEF PendingBlocks
    <2> QED
      BY Zenon, <2>2, <2>3
  <1>3. Plain /\ Plain'
    BY Zenon, Mapped, MappedNext
  <1>4. PlainOf(Current)' = PlainOf(Current) /\ PlainOf(ldb)' = PlainOf(ldb)
    BY Zenon, <1>1 DEF PlainOf
  <1>5. WriterView' \in Contents
    <2>1. /\ snap' \in [Txs -> Contents]
          /\ pending' \in [keys : Contents, remove : SUBSET Rows, blocks : Seq(Blocks)]
      BY Zenon DEF IInv, CoreType, DbTypeOK
    <2>2. snap'[Writer] \in Contents /\ pending'.keys \in Contents /\ pending'.remove \subseteq Rows
      BY Zenon, <2>1 DEF Txs
    <2>3. Overlay(snap'[Writer], pending') \in Contents
      BY Zenon, <2>2, OverlayType
    <2>4. WriterView' = Overlay(snap'[Writer], pending')
      BY Zenon DEF WriterView, Overlay
    <2> QED
      BY Zenon, <2>3, <2>4
  <1>6. PlainWork' \in [keys : [Keys -> Values \cup {None}], blocks : SUBSET Blocks]
    BY Zenon, <1>3, <1>5 DEF PlainWork, Plain, Contents
  <1>7. PlainWork.blocks \subseteq PlainWork'.blocks
    BY Zenon, <1>1, <1>2 DEF PlainWork
  <1>8. /\ WorkingContents = PlainWork /\ WorkingContents' = PlainWork'
        /\ CurrentContents' = CurrentContents /\ DurableContents' = DurableContents
    BY Zenon, <1>1, <1>3, <1>4 DEF Plain
  <1> QED
    BY Zenon, <1>3, <1>6, <1>7, <1>8 DEF Promise!Change, Promise!StoreContents, Plain

\* A transaction that ends without a commit: Discard.
LEMMA DiscardRefines ==
    ASSUME IInv, IInv', NEW t \in Txs, CloseTx(t), UNCHANGED <<ldb, cache>>,
           stage[t] \notin {"none", "ldb"}
    PROVE  [Promise!StoreNext]_(Promise!storeVars)
  <1>1. Current' = Current
    BY Zenon DEF Current, Overlay
  <1>2. PlainOf(Current)' = PlainOf(Current) /\ PlainOf(ldb)' = PlainOf(ldb)
    BY Zenon, <1>1 DEF PlainOf
  <1>3. Plain /\ Plain' /\ CoreType
    BY Zenon, Mapped, MappedNext DEF IInv
  <1>4. CASE t = Writer
    <2>1. Busy /\ ~Busy'
      BY Zenon, <1>3, <1>4, CloseTxProps DEF Busy
    <2> QED
      BY Zenon, <1>2, <1>3, <2>1 DEF Plain, Promise!Discard, Promise!StoreNext
  <1>5. CASE t # Writer
    <2>1. UNCHANGED pending /\ stage'[Writer] = stage[Writer] /\ snap'[Writer] = snap[Writer]
      BY Zenon, <1>3, <1>5, CloseTxProps DEF Txs
    <2>2. PlainWork' = PlainWork /\ Busy' = Busy
      BY <1>1, <2>1 DEF PlainWork, PendingBlocks, WriterView, Overlay, Busy
    <2> QED
      BY Zenon, <1>1, <2>2, Stutter DEF Promise!storeVars
  <1> QED
    BY Zenon, <1>4, <1>5

\* The steps of a commit before it takes effect are invisible.
LEMMA CommitStutters ==
    ASSUME IInv, IInv',
           Commit \/ WritePending \/ WritePendingFails \/ FlushSync \/ FlushClear
    PROVE  UNCHANGED Promise!storeVars
  <1> USE RowAssumption
  <1>1. /\ ldb' = ldb /\ Current' = Current /\ snap' = snap /\ Busy /\ Busy'
    <2>1. CASE FlushClear
      BY Zenon, <2>1, FlushCacheInv DEF FlushClear, Busy, IInv, CoreType, DbTypeOK, Txs
    <2>2. CASE Commit \/ WritePending \/ WritePendingFails \/ FlushSync
      BY Zenon, <2>2 DEF Commit, WritePending, WritePendingFails, FlushSync, AllWritten, Current, Overlay, Busy, IInv, CoreType, DbTypeOK, Txs
    <2> QED
      BY Zenon, <2>1, <2>2
  <1>2. /\ pending'.blocks = pending.blocks /\ pending'.remove \cap Keys = pending.remove \cap Keys
        /\ \A k \in Keys : pending'.keys[k] = pending.keys[k]
    <2>1. CASE FlushClear \/ Commit \/ WritePendingFails
      BY Zenon, <2>1 DEF FlushClear, Commit, WritePendingFails
    <2>2. CASE FlushSync
      BY Zenon, <2>2, CompleteProps DEF FlushSync, AllWritten
    <2>3. CASE WritePending
      <3> DEFINE u == pending.blocks[written + 1]
      <3>1. u \in Blocks
        BY <2>3 DEF WritePending, IInv, CoreType, DbTypeOK
      <3>2. /\ pending' = [pending EXCEPT !.keys[u] = WritePosition, !.remove = @ \ {u}]
            /\ pending \in [keys : Contents, remove : SUBSET Rows, blocks : Seq(Blocks)]
        BY Zenon, <2>3 DEF WritePending, IInv, CoreType, DbTypeOK
      <3> HIDE DEF u
      <3>3. /\ pending'.blocks = pending.blocks /\ pending'.remove = pending.remove \ {u}
            /\ pending'.keys = [pending.keys EXCEPT ![u] = WritePosition]
        BY Zenon, <3>2
      <3> QED
        BY <3>1, <3>2, <3>3 DEF Contents, Rows
    <2> QED
      BY Zenon, <2>1, <2>2, <2>3
  <1>3. PendingBlocks' = PendingBlocks
    BY Zenon, <1>2 DEF PendingBlocks
  <1>4. \A k \in Keys : WriterView'[k] = WriterView[k]
    BY Zenon, <1>1, <1>2 DEF WriterView, Overlay, Rows
  <1>5. PlainWork' = PlainWork
    BY Zenon, <1>1, <1>3, <1>4 DEF PlainWork
  <1> QED
    BY Zenon, <1>1, <1>5, Stutter DEF Promise!storeVars

\* What the transaction sees is what its commit makes current.
LEMMA CommitContents ==
    ASSUME IInv, Busy, NEW change, change.keys \in Contents, change.remove \subseteq Keys,
           change.remove = pending.remove,
           \A k \in Keys \cup Blocks : change.keys[k] = pending.keys[k],
           written = Len(pending.blocks)
    PROVE  PlainOf(Overlay(Current, change)) = PlainWork
  <1> USE RowAssumption
  <1>1. snap[Writer] = Current
    BY Zenon DEF IInv, WriterInv, Busy
  <1>2. \A k \in Keys : Overlay(Current, change)[k] = WriterView[k]
    BY Zenon, <1>1 DEF WriterView, Overlay, Rows
  <1>3. ASSUME NEW b \in Blocks
        PROVE  Overlay(Current, change)[b] # None <=> Current[b] # None \/ b \in PendingBlocks
    <2>1. pending.keys[b] # None <=> b \in PendingBlocks
      BY DEF IInv, PendingInv, PendingBlocks, CoreType, DbTypeOK
    <2>2. Overlay(Current, change)[b] = IF pending.keys[b] # None THEN pending.keys[b] ELSE Current[b]
      BY Zenon DEF Overlay, Rows
    <2> QED
      BY Zenon, <2>1, <2>2
  <1>4. PendingBlocks \subseteq Blocks
    BY Zenon, Mapped DEF Plain
  <1> QED
    BY Zenon, <1>2, <1>3, <1>4 DEF PlainOf, PlainWork

\* Both ways to commit: CommitAll.
LEMMA CommitRefines ==
    ASSUME IInv, IInv', CommitToCache \/ CommitToLdb
    PROVE  Promise!CommitAll
  <1>1. Plain /\ Plain' /\ CoreType /\ Writer \in Txs
    BY Zenon, Mapped, MappedNext DEF IInv, Txs
  <1>2. Busy /\ ~Busy'
    BY Zenon, <1>1, CloseTxProps DEF CommitToCache, CommitToLdb, AllWritten, Busy
  <1>3. CASE CommitToCache
    <2>1. AllWritten /\ ldb' = ldb /\ Current' = Overlay(Current, Complete)
      BY Zenon, <1>3, CommitToCacheInv DEF CommitToCache
    <2>2. PlainOf(Current') = PlainWork
      BY Zenon, <1>2, <2>1, CompleteProps, CommitContents DEF AllWritten
    <2>3. PlainOf(Current)' = PlainWork /\ PlainOf(ldb)' = PlainOf(ldb)
      BY Zenon, <2>1, <2>2 DEF PlainOf
    <2> QED
      BY Zenon, <1>1, <1>2, <2>3 DEF Plain, Promise!CommitAll
  <1>4. CASE CommitToLdb
    <2>1. Current' = Overlay(Current, pending) /\ ldb' = Current' /\ stage[Writer] = "cleared"
      BY Zenon, <1>4, CommitToLdbInv DEF CommitToLdb
    <2>2. /\ pending.keys \in Contents /\ pending.remove \subseteq Keys
          /\ written = Len(pending.blocks)
      BY Zenon, <2>1 DEF IInv, CoreType, DbTypeOK, WriterInv, Late
    <2>3. PlainOf(Current') = PlainWork
      BY Zenon, <1>2, <2>1, <2>2, CommitContents
    <2>4. PlainOf(Current)' = PlainWork /\ PlainOf(ldb)' = PlainWork
      BY Zenon, <2>1, <2>3 DEF PlainOf
    <2> QED
      BY Zenon, <1>1, <1>2, <2>4 DEF Plain, Promise!CommitAll
  <1> QED
    BY Zenon, <1>3, <1>4

\* Flushing what is cached: Persist.
LEMMA PersistRefines ==
    ASSUME IInv, IInv', FlushCommit \/ FlushDB \/ CloseDB
    PROVE  [Promise!StoreNext]_(Promise!storeVars)
  <1>1. /\ Current' = Current
        /\ ldb' = ldb \/ ldb' = Current
        /\ UNCHANGED <<snap, pending>> /\ Busy' = Busy
    <2>1. CASE FlushCommit
      BY Zenon, <2>1, FlushCacheInv DEF FlushCommit, Busy, IInv, CoreType, DbTypeOK, Txs
    <2>2. CASE FlushDB \/ CloseDB
      BY Zenon, <2>2, FlushInv DEF FlushDB, CloseDB, Busy
    <2> QED
      BY Zenon, <2>1, <2>2
  <1>2. PlainWork' = PlainWork
    BY <1>1 DEF PlainWork, PendingBlocks, WriterView, Overlay
  <1>3. CASE ldb' = ldb
    BY Zenon, <1>1, <1>2, <1>3, Stutter DEF Promise!storeVars
  <1>4. CASE ldb' = Current
    <2>1. Plain /\ Plain'
      BY Zenon, Mapped, MappedNext
    <2>2. PlainOf(Current)' = PlainOf(Current) /\ PlainOf(ldb)' = PlainOf(Current)
      BY Zenon, <1>1, <1>4 DEF PlainOf
    <2>3. Promise!Persist
      BY Zenon, <1>1, <1>2, <2>1, <2>2 DEF Plain, Promise!Persist
    <2> QED
      BY Zenon, <2>3 DEF Promise!StoreNext
  <1> QED
    BY Zenon, <1>1, <1>3, <1>4

\* The end of the process: Lose.
LEMMA LoseRefines ==
    ASSUME IInv, IInv', CloseFiles \/ Crash
    PROVE  Promise!Lose
  <1>1. Current' = ldb /\ ldb' = ldb /\ ~Busy'
    BY Zenon, StopInv DEF Busy
  <1>2. PlainOf(Current)' = PlainOf(ldb) /\ PlainOf(ldb)' = PlainOf(ldb)
    BY Zenon, <1>1 DEF PlainOf
  <1> QED
    BY Zenon, <1>1, <1>2, Mapped, MappedNext DEF Plain, Promise!Lose

\* Every step of the database is a step of the store, or is invisible.
LEMMA NextRefines ==
    IInv /\ IInv' /\ [Next]_vars => [Promise!StoreNext]_(Promise!storeVars)
  <1> SUFFICES ASSUME IInv, IInv', [Next]_vars
               PROVE  [Promise!StoreNext]_(Promise!storeVars)
    OBVIOUS
  <1>1. CASE UNCHANGED vars \/ OpenDB \/ \E r \in Readers : ReadDone(r) \/ \E b \in Blocks : ReadBlock(r, b)
    <2>1. UNCHANGED <<ldb, cache, stage, snap, pending>>
      BY Zenon, <1>1 DEF vars, dbVars, OpenDB, ReadDone, ReadBlock
    <2>2. Current' = Current /\ Busy' = Busy /\ PlainWork' = PlainWork
      BY <2>1 DEF Current, Overlay, Busy, PlainWork, PendingBlocks, WriterView
    <2> QED
      BY Zenon, <2>1, <2>2, Stutter DEF Promise!storeVars
  <1>2. CASE \E t \in Txs : Begin(t) \/ SnapshotCache(t)
    BY Zenon, <1>2, StartRefines
  <1>3. CASE \/ \E k \in Keys : DeleteKey(k) \/ \E v \in Values : PutKey(k, v)
             \/ \E b \in Blocks : StoreBlock(b)
    BY Zenon, <1>3, EditRefines DEF Promise!StoreNext
  <1>4. CASE (\E t \in Txs : Rollback(t)) \/ UndoWrites \/ FlushFails
    <2>1. \E t \in Txs : CloseTx(t) /\ UNCHANGED <<ldb, cache>> /\ stage[t] \notin {"none", "ldb"}
      BY Zenon, <1>4 DEF Rollback, UndoWrites, FlushFails, AllWritten, Txs
    <2> QED
      BY Zenon, <2>1, DiscardRefines
  <1>5. CASE Commit \/ WritePending \/ WritePendingFails \/ FlushSync \/ FlushClear
    BY Zenon, <1>5, CommitStutters
  <1>6. CASE CommitToCache \/ CommitToLdb
    BY Zenon, <1>6, CommitRefines DEF Promise!StoreNext
  <1>7. CASE FlushCommit \/ FlushDB \/ CloseDB
    BY Zenon, <1>7, PersistRefines
  <1>8. CASE CloseFiles \/ Crash
    BY Zenon, <1>8, LoseRefines DEF Promise!StoreNext
  <1> QED
    BY Zenon, <1>1, <1>2, <1>3, <1>4, <1>5, <1>6, <1>7, <1>8 DEF Next, Work, Mishap

\* The block database implements the store: its write transactions are all or
\* nothing, in memory and on disk, across failures, crashes and restarts.
THEOREM StorageKeepsPromise == Spec => KeepsPromise
  BY InitRefines, StorageSound, NextRefines, PTL DEF Spec, KeepsPromise, Promise!StoreSpec

-----------------------------------------------------------------------------
\* File handles.

Opened(s) == {s[i] : i \in DOMAIN s}
Distinct(s) == \A i, j \in DOMAIN s : i # j => s[i] # s[j]

\* The inductive invariant: a reader has a handle only while its transaction is
\* open, and for the file of a block of its snapshot; the handle is that of the
\* write file or of one of the files openBlocksLRU lists.
HandleInv ==
    /\ openFiles \in Seq(FileNums)
    /\ Len(openFiles) <= MaxOpenFiles
    /\ Distinct(openFiles)
    /\ reading \in [Readers -> [file : FileNums, handle : {"none", "write", "read"}]]
    /\ \A r \in Readers : reading[r].handle # "none" =>
          /\ stage[r] = "open"
          /\ \E b \in Blocks : snap[r][b] # None /\ snap[r][b].file = reading[r].file
    /\ \A r \in Readers : reading[r].handle = "write" =>
          curOpen /\ reading[r].file = cursor.file
    /\ \A r \in Readers : reading[r].handle = "read" =>
          reading[r].file \in Opened(openFiles)

\* The update of openBlocksLRU for a file that is open keeps what is listed.
LEMMA FrontFacts ==
    ASSUME NEW s \in Seq(FileNums), Distinct(s), NEW n \in Opened(s)
    PROVE  /\ MoveToFront(s, n) \in Seq(FileNums)
           /\ Len(MoveToFront(s, n)) = Len(s)
           /\ Distinct(MoveToFront(s, n))
           /\ Opened(s) \subseteq Opened(MoveToFront(s, n))
  <1> DEFINE i == CHOOSE k \in DOMAIN s : s[k] = n
             r == MoveToFront(s, n)
  <1>1. Len(s) \in Nat /\ DOMAIN s = 1..Len(s) /\ \A k \in 1..Len(s) : s[k] \in FileNums
    OBVIOUS
  <1>2. i \in 1..Len(s) /\ s[i] = n
    BY Zenon, <1>1 DEF Opened
  <1>3. r = [j \in 1..Len(s) |-> IF j = 1 THEN n ELSE IF j <= i THEN s[j - 1] ELSE s[j]]
    BY Zenon, <1>1 DEF MoveToFront
  <1> HIDE DEF i, r
  <1>4. \A j \in 1..Len(s) : /\ j = 1 => r[j] = s[i]
                             /\ j # 1 /\ j <= i => r[j] = s[j - 1] /\ j - 1 \in 1..Len(s)
                             /\ j > i => r[j] = s[j]
    BY <1>1, <1>2, <1>3
  <1>5. r \in Seq(FileNums) /\ Len(r) = Len(s) /\ DOMAIN r = 1..Len(s)
    <2>1. \A j \in 1..Len(s) : r[j] \in FileNums
      BY <1>1, <1>2, <1>4
    <2> QED
      BY <1>1, <1>3, <2>1
  <1>6. ASSUME NEW j \in 1..Len(s), NEW k \in 1..Len(s), j < k
        PROVE  r[j] # r[k]
    <2>1. \A a, b \in 1..Len(s) : a # b => s[a] # s[b]
      BY Zenon, <1>1 DEF Distinct
    <2> QED
      BY <1>1, <1>2, <1>4, <1>6, <2>1
  <1>7. Distinct(r)
    BY <1>1, <1>5, <1>6 DEF Distinct
  <1>8. ASSUME NEW k \in 1..Len(s)
        PROVE  \E j \in 1..Len(s) : r[j] = s[k]
    <2>1. CASE k = i
      BY <1>1, <1>2, <1>4, <2>1
    <2>2. CASE k < i
      <3>1. k + 1 \in 1..Len(s) /\ k + 1 # 1 /\ k + 1 <= i /\ (k + 1) - 1 = k
        BY <1>1, <1>2, <2>2
      <3> QED
        BY Zenon, <1>4, <3>1
    <2>3. CASE k > i
      BY Zenon, <1>1, <1>2, <1>4, <2>3
    <2> QED
      BY <1>1, <1>2, <2>1, <2>2, <2>3
  <1>9. Opened(s) \subseteq Opened(r)
    BY Zenon, <1>1, <1>5, <1>8 DEF Opened
  <1> QED
    BY Zenon, <1>5, <1>7, <1>9 DEF r

\* So does listing a file that is not open, but for the file that is closed.
LEMMA PushFacts ==
    ASSUME NEW s \in Seq(FileNums), Distinct(s), NEW n \in FileNums, n \notin Opened(s)
    PROVE  /\ <<n>> \o s \in Seq(FileNums)
           /\ Len(<<n>> \o s) = Len(s) + 1
           /\ Distinct(<<n>> \o s)
           /\ Opened(<<n>> \o s) = Opened(s) \cup {n}
  <1> DEFINE r == <<n>> \o s
  <1>1. /\ r \in Seq(FileNums) /\ Len(s) \in Nat /\ DOMAIN s = 1..Len(s)
        /\ Len(r) = Len(s) + 1 /\ DOMAIN r = 1..(Len(s) + 1)
        /\ r[1] = n /\ \A j \in 1..Len(s) : r[j + 1] = s[j] /\ j + 1 \in 1..(Len(s) + 1)
    OBVIOUS
  <1> HIDE DEF r
  <1>2. \A j \in 1..(Len(s) + 1) : j = 1 \/ (j - 1 \in 1..Len(s) /\ r[j] = s[j - 1])
    <2> TAKE j \in 1..(Len(s) + 1)
    <2>1. j # 1 => j - 1 \in 1..Len(s) /\ (j - 1) + 1 = j
      BY <1>1
    <2> QED
      BY Zenon, <1>1, <2>1
  <1>3. Opened(r) = Opened(s) \cup {n}
    BY <1>1, <1>2 DEF Opened
  <1>4. Distinct(r)
    <2> SUFFICES ASSUME NEW j \in 1..(Len(s) + 1), NEW k \in 1..(Len(s) + 1), j # k
                 PROVE  r[j] # r[k]
      BY Zenon, <1>1 DEF Distinct
    <2>1. CASE j # 1 /\ k # 1
      <3>1. j - 1 # k - 1 /\ j - 1 \in DOMAIN s /\ k - 1 \in DOMAIN s
        BY <1>1, <1>2, <2>1
      <3> QED
        BY Zenon, <1>2, <2>1, <3>1 DEF Distinct
    <2>2. \A m \in 1..(Len(s) + 1) : m # 1 => r[m] # n
      BY <1>1, <1>2 DEF Opened
    <2> QED
      BY Zenon, <1>1, <2>1, <2>2
  <1> QED
    BY Zenon, <1>1, <1>3, <1>4 DEF r

LEMMA DropFacts ==
    ASSUME NEW s \in Seq(FileNums), Distinct(s), s # << >>
    PROVE  LET r == SubSeq(s, 1, Len(s) - 1)
           IN  /\ r \in Seq(FileNums)
               /\ Len(r) = Len(s) - 1
               /\ Distinct(r)
               /\ Opened(r) \subseteq Opened(s)
               /\ Opened(s) \ {s[Len(s)]} \subseteq Opened(r)
  <1> DEFINE r == SubSeq(s, 1, Len(s) - 1)
  <1>1. Len(s) \in Nat \ {0} /\ DOMAIN s = 1..Len(s)
    OBVIOUS
  <1>2. /\ r \in Seq(FileNums) /\ Len(r) = Len(s) - 1 /\ DOMAIN r = 1..(Len(s) - 1)
        /\ \A j \in 1..(Len(s) - 1) : r[j] = s[j] /\ j \in 1..Len(s)
    <2>1. \A j \in 1..(Len(s) - 1) : s[j] \in FileNums /\ j \in 1..Len(s)
      BY <1>1
    <2>2. Len(s) - 1 \in Nat /\ (Len(s) - 1) - 1 + 1 = Len(s) - 1
      BY <1>1
    <2>3. r = [j \in 1..(Len(s) - 1) |-> s[j]]
      BY <1>1, <2>2
    <2> QED
      BY <2>1, <2>2, <2>3
  <1> HIDE DEF r
  <1>3. \A j \in 1..Len(s) : j = Len(s) \/ j \in 1..(Len(s) - 1)
    <2>1. \A l \in Nat \ {0} : \A j \in 1..l : j = l \/ j \in 1..(l - 1)
      OBVIOUS
    <2> QED
      BY <1>1, <2>1, Zenon
  <1>4. Distinct(r)
    BY Zenon, <1>1, <1>2 DEF Distinct
  <1>5. Opened(r) \subseteq Opened(s) /\ Opened(s) \ {s[Len(s)]} \subseteq Opened(r)
    BY Zenon, <1>1, <1>2, <1>3 DEF Opened
  <1> QED
    BY Zenon, <1>2, <1>4, <1>5 DEF r

\* A step that gives out no handle: the transactions of those who have one go on,
\* and the write file stays as it is while somebody reads through its handle.
LEMMA HandlesKept ==
    ASSUME HandleInv, UNCHANGED <<openFiles, reading>>,
           \A r \in Readers : stage[r] = "open" /\ reading[r] # NotReading =>
               stage'[r] = stage[r] /\ snap'[r] = snap[r],
           UNCHANGED <<curOpen, cursor>> \/ WriteFileFree
    PROVE  HandleInv'
  <1>1. \A r \in Readers : reading[r].handle # "none" => reading[r] # NotReading
    BY DEF NotReading
  <1>2. ASSUME NEW r \in Readers, reading'[r].handle # "none"
        PROVE  /\ stage'[r] = "open"
               /\ \E b \in Blocks : snap'[r][b] # None /\ snap'[r][b].file = reading'[r].file
    BY <1>1, <1>2 DEF HandleInv
  <1>3. ASSUME NEW r \in Readers, reading'[r].handle = "write"
        PROVE  curOpen' /\ reading'[r].file = cursor'.file
    BY <1>3 DEF HandleInv, WriteFileFree
  <1> QED
    BY Zenon, <1>2, <1>3 DEF HandleInv

\* blockFile.
LEMMA ReadHandles ==
    ASSUME IInv, HandleInv, NEW r \in Readers, NEW b \in Blocks, ReadBlock(r, b)
    PROVE  HandleInv'
  <1> DEFINE n == snap[r][b].file
  <1>1. /\ stage[r] = "open" /\ snap[r][b] # None
        /\ UNCHANGED <<curOpen, cursor, stage, snap>>
        /\ BlockFile(r, n)
    BY Zenon DEF ReadBlock, BlockFile, dbVars
  <1>2. n \in FileNums
    <2>1. r \in Txs /\ b \in Rows
      BY Zenon DEF Txs, Rows
    <2>2. snap[r][b] \in Locations
      BY <1>1, <2>1 DEF IInv, CoreType, DbTypeOK, Contents
    <2> QED
      BY Zenon, <2>2 DEF Locations
  <1> HIDE DEF n
  <1>3. CASE n = cursor.file /\ curOpen
    <2>1. /\ reading' = [reading EXCEPT ![r] = [file |-> n, handle |-> "write"]]
          /\ openFiles' = openFiles
      BY <1>1, <1>3, Zenon DEF BlockFile
    <2>2. \A q \in Readers : reading'[q] = IF q = r THEN [file |-> n, handle |-> "write"]
                                           ELSE reading[q]
      BY Zenon, <2>1 DEF HandleInv
    <2>3. reading' \in [Readers -> [file : FileNums, handle : {"none", "write", "read"}]]
      BY Zenon, <1>2, <2>1 DEF HandleInv
    <2>4. reading'[r].file = n /\ reading'[r].handle = "write"
      BY <2>2
    <2>5. ASSUME NEW q \in Readers, reading'[q].handle # "none"
          PROVE  /\ stage'[q] = "open"
                 /\ \E c \in Blocks : snap'[q][c] # None /\ snap'[q][c].file = reading'[q].file
      <3>1. CASE q = r
        BY Zenon, <1>1, <2>4, <3>1 DEF n
      <3>2. CASE q # r
        BY Zenon, <1>1, <2>2, <2>5, <3>2 DEF HandleInv
      <3> QED
        BY Zenon, <3>1, <3>2
    <2>6. ASSUME NEW q \in Readers, reading'[q].handle = "write"
          PROVE  curOpen' /\ reading'[q].file = cursor'.file
      <3>1. CASE q = r
        BY Zenon, <1>1, <1>3, <2>4, <3>1
      <3>2. CASE q # r
        BY Zenon, <1>1, <2>2, <2>6, <3>2 DEF HandleInv
      <3> QED
        BY Zenon, <3>1, <3>2
    <2>7. ASSUME NEW q \in Readers, reading'[q].handle = "read"
          PROVE  reading'[q].file \in Opened(openFiles')
      <3>1. q # r
        BY <2>4, <2>7
      <3> QED
        BY Zenon, <2>1, <2>2, <2>7, <3>1 DEF HandleInv
    <2> QED
      BY Zenon, <2>1, <2>3, <2>5, <2>6, <2>7 DEF HandleInv
  <1>4. CASE ~(n = cursor.file /\ curOpen)
    <2>1. reading' = [reading EXCEPT ![r] = [file |-> n, handle |-> "read"]]
      BY <1>1, <1>4, Zenon DEF BlockFile
    <2>2. \A q \in Readers : reading'[q] = IF q = r THEN [file |-> n, handle |-> "read"]
                                           ELSE reading[q]
      BY Zenon, <2>1 DEF HandleInv
    <2>3. reading' \in [Readers -> [file : FileNums, handle : {"none", "write", "read"}]]
      BY Zenon, <1>2, <2>1 DEF HandleInv
    <2>4. /\ openFiles' \in Seq(FileNums)
          /\ Len(openFiles') <= MaxOpenFiles
          /\ Distinct(openFiles')
          /\ n \in Opened(openFiles')
          /\ \A q \in Readers : reading[q].handle = "read" =>
                reading[q].file \in Opened(openFiles')
      <3>1. CASE n \in Opened(openFiles) /\ openFiles' = MoveToFront(openFiles, n)
        <4>1. /\ openFiles' \in Seq(FileNums)
              /\ Len(openFiles') = Len(openFiles)
              /\ Distinct(openFiles')
              /\ Opened(openFiles) \subseteq Opened(openFiles')
          BY Zenon, <3>1, FrontFacts DEF HandleInv
        <4> QED
          BY Zenon, <3>1, <4>1 DEF HandleInv
      <3>2. CASE /\ n \notin Opened(openFiles) /\ Len(openFiles) < MaxOpenFiles
                 /\ openFiles' = <<n>> \o openFiles
        <4>1. /\ openFiles' \in Seq(FileNums)
              /\ Len(openFiles') = Len(openFiles) + 1
              /\ Distinct(openFiles')
              /\ Opened(openFiles') = Opened(openFiles) \cup {n}
          BY Zenon, <1>2, <3>2, PushFacts DEF HandleInv
        <4>2. Len(openFiles) \in Nat /\ MaxOpenFiles \in Nat
          BY FileAssumption DEF HandleInv
        <4>3. Len(openFiles') <= MaxOpenFiles
          BY <3>2, <4>1, <4>2
        <4> QED
          BY Zenon, <4>1, <4>3 DEF HandleInv
      <3>3. CASE /\ n \notin Opened(openFiles) /\ ~(Len(openFiles) < MaxOpenFiles)
                 /\ \A q \in Readers :
                       reading[q] # [file |-> openFiles[Len(openFiles)], handle |-> "read"]
                 /\ openFiles' = <<n>> \o SubSeq(openFiles, 1, Len(openFiles) - 1)
        <4> DEFINE kept == SubSeq(openFiles, 1, Len(openFiles) - 1)
        <4>1. Len(openFiles) \in Nat /\ MaxOpenFiles \in Nat \ {0} /\ openFiles # << >>
          BY <3>3, FileAssumption DEF HandleInv
        <4>2. /\ kept \in Seq(FileNums) /\ Len(kept) = Len(openFiles) - 1
              /\ Distinct(kept) /\ Opened(kept) \subseteq Opened(openFiles)
              /\ Opened(openFiles) \ {openFiles[Len(openFiles)]} \subseteq Opened(kept)
          BY Zenon, <4>1, DropFacts DEF HandleInv
        <4> HIDE DEF kept
        <4>3. /\ openFiles' \in Seq(FileNums)
              /\ Len(openFiles') = Len(kept) + 1
              /\ Distinct(openFiles')
              /\ Opened(openFiles') = Opened(kept) \cup {n}
          BY Zenon, <1>2, <3>3, <4>2, PushFacts DEF kept
        <4>4. Len(openFiles') <= MaxOpenFiles
          BY <4>1, <4>2, <4>3 DEF HandleInv
        <4>5. ASSUME NEW q \in Readers, reading[q].handle = "read"
              PROVE  reading[q].file \in Opened(openFiles')
          <5>1. reading[q] = [file |-> reading[q].file, handle |-> "read"]
            BY Zenon, <4>5 DEF HandleInv
          <5>2. reading[q].file # openFiles[Len(openFiles)]
            BY Zenon, <3>3, <5>1
          <5> QED
            BY Zenon, <4>2, <4>3, <4>5, <5>2 DEF HandleInv
        <4> QED
          BY Zenon, <4>3, <4>4, <4>5
      <3> QED
        BY <1>1, <1>4, <3>1, <3>2, <3>3, Zenon DEF BlockFile, Opened
    <2> QED
      BY <1>1, <2>2, <2>3, <2>4 DEF HandleInv, n
  <1> QED
    BY Zenon, <1>3, <1>4

\* The other steps: a transaction that begins, ends or commits is not one that
\* somebody reads for.
LEMMA TxHandles ==
    ASSUME IInv, HandleInv, NEW t \in Txs, UNCHANGED fileVars,
           t \in Readers => stage[t] # "open" \/ reading[t] = NotReading,
           NEW x, stage' = [stage EXCEPT ![t] = x],
           snap' = snap \/ \E y : snap' = [snap EXCEPT ![t] = y]
    PROVE  HandleInv'
  <1>1. \A r \in Readers : stage[r] = "open" /\ reading[r] # NotReading =>
            stage'[r] = stage[r] /\ snap'[r] = snap[r]
    BY Zenon DEF IInv, CoreType, DbTypeOK, Txs
  <1>2. UNCHANGED <<openFiles, reading, curOpen, cursor>>
    BY Zenon DEF fileVars
  <1> QED
    BY Zenon, <1>1, <1>2, HandlesKept

LEMMA WriterHandles ==
    ASSUME IInv, HandleInv, UNCHANGED <<openFiles, reading>>,
           UNCHANGED <<curOpen, cursor>> \/ WriteFileFree,
           UNCHANGED stage \/ \E x : stage' = [stage EXCEPT ![Writer] = x],
           UNCHANGED snap \/ \E y : snap' = [snap EXCEPT ![Writer] = y]
    PROVE  HandleInv'
  <1>1. \A r \in Readers : stage'[r] = stage[r] /\ snap'[r] = snap[r]
    BY Zenon, RowAssumption DEF IInv, CoreType, DbTypeOK, Txs
  <1> QED
    BY Zenon, <1>1, HandlesKept

LEMMA ClosedHandles ==
    ASSUME FilesClosed
    PROVE  HandleInv'
  <1>1. /\ openFiles' = << >>
        /\ reading' = [r \in Readers |-> NotReading]
    BY Zenon DEF FilesClosed
  <1>2. \A r \in Readers : reading'[r].handle = "none"
    BY Zenon, <1>1 DEF NotReading
  <1>3. reading' \in [Readers -> [file : FileNums, handle : {"none", "write", "read"}]]
    BY <1>1, FileAssumption DEF NotReading, FileNums
  <1>4. openFiles' \in Seq(FileNums) /\ Len(openFiles') <= MaxOpenFiles /\ Distinct(openFiles')
    BY <1>1, FileAssumption DEF Distinct
  <1> QED
    BY Zenon, <1>2, <1>3, <1>4 DEF HandleInv

LEMMA HandlesNext ==
    ASSUME IInv, HandleInv, [Next]_vars
    PROVE  HandleInv'
  <1>1. ASSUME NEW t \in Txs, Begin(t) \/ SnapshotCache(t) \/ Rollback(t)
        PROVE  HandleInv'
    <2>1. /\ UNCHANGED fileVars
          /\ t \in Readers => stage[t] # "open" \/ reading[t] = NotReading
          /\ \E x : stage' = [stage EXCEPT ![t] = x]
          /\ \E y : snap' = [snap EXCEPT ![t] = y]
      BY Zenon, <1>1 DEF Begin, SnapshotCache, Rollback, CloseTx
    <2> QED
      BY Zenon, <2>1, TxHandles
  <1>2. ASSUME NEW r \in Readers, ReadDone(r)
        PROVE  HandleInv'
    <2>1. /\ reading' = [reading EXCEPT ![r] = NotReading]
          /\ UNCHANGED <<openFiles, curOpen, cursor, stage, snap>>
      BY <1>2, Zenon DEF ReadDone, DoneReading, dbVars
    <2>2. \A q \in Readers : reading'[q].handle # "none" => reading'[q] = reading[q]
      BY Zenon, <2>1 DEF HandleInv, NotReading
    <2>3. reading' \in [Readers -> [file : FileNums, handle : {"none", "write", "read"}]]
      BY <2>1, FileAssumption DEF HandleInv, NotReading, FileNums
    <2> QED
      BY <2>1, <2>2, <2>3 DEF HandleInv
  <1>3. ASSUME UNCHANGED <<openFiles, reading>>,
               UNCHANGED <<curOpen, cursor>> \/ WriteFileFree,
               UNCHANGED stage \/ \E x : stage' = [stage EXCEPT ![Writer] = x],
               UNCHANGED snap \/ \E y : snap' = [snap EXCEPT ![Writer] = y]
        PROVE  HandleInv'
    BY Zenon, <1>3, WriterHandles
  <1>4. CASE \/ \E k \in Keys : DeleteKey(k) \/ \E v \in Values : PutKey(k, v)
             \/ \E b \in Blocks : StoreBlock(b)
             \/ Commit \/ FlushCommit \/ FlushClear
    BY <1>3, <1>4, Zenon
    DEF DeleteKey, PutKey, StoreBlock, Commit, FlushCommit, FlushClear, fileVars
  <1>5. CASE CommitToCache \/ CommitToLdb \/ FlushFails
    BY <1>3, <1>5, Zenon DEF CommitToCache, CommitToLdb, FlushFails, CloseTx, fileVars
  <1>6. CASE WritePending \/ WritePendingFails
    BY <1>3, <1>6, Zenon DEF WritePending, WritePendingFails, WriteBlock, WriteNothing
  <1>7. CASE UndoWrites
    BY <1>3, <1>7, Zenon DEF UndoWrites, HandleRollback, CloseTx
  <1>8. CASE FlushSync \/ FlushDB \/ CloseDB
    BY <1>3, <1>8, Zenon DEF FlushSync, FlushDB, CloseDB, Flush, SyncBlocks, fileVars
  <1>9. CASE CloseFiles \/ Crash
    BY <1>9, ClosedHandles, Zenon DEF CloseFiles, Crash
  <1>10. CASE OpenDB
    BY <1>3, <1>10, Zenon DEF OpenDB, HandleRollback, fileVars
  <1>11. CASE UNCHANGED vars
    BY <1>3, <1>11, Zenon DEF vars, fileVars, dbVars
  <1> QED
    BY <1>1, <1>2, <1>4, <1>5, <1>6, <1>7, <1>8, <1>9, <1>10, <1>11, ReadHandles, Zenon
    DEF Next, Work, Mishap

LEMMA HandlesInit ==
    ASSUME Init
    PROVE  HandleInv
  <1>1. openFiles = << >> /\ reading = [r \in Readers |-> NotReading]
    BY Zenon DEF Init, FilesInit
  <1>2. \A r \in Readers : reading[r].handle = "none"
    BY Zenon, <1>1 DEF NotReading
  <1>3. reading \in [Readers -> [file : FileNums, handle : {"none", "write", "read"}]]
    BY <1>1, FileAssumption DEF NotReading, FileNums
  <1>4. openFiles \in Seq(FileNums) /\ Len(openFiles) <= MaxOpenFiles /\ Distinct(openFiles)
    BY <1>1, FileAssumption DEF Distinct
  <1> QED
    BY Zenon, <1>2, <1>3, <1>4 DEF HandleInv

\* blockFile never closes a file that somebody reads from, handleRollback never
\* deletes one, and writeBlock never closes or moves the write file under a
\* reader, for any number of readers and open files.
THEOREM HandlesStayOpenAlways == Spec => []HandlesStayOpen
  <1>1. IInv /\ HandleInv => HandlesStayOpen
    <2> SUFFICES ASSUME IInv, HandleInv PROVE HandlesStayOpen
      OBVIOUS
    <2>1. ASSUME NEW r \in Readers, reading[r].handle = "read"
          PROVE  reading[r].file \in onDisk
      <3>1. PICK b \in Blocks : snap[r][b] # None /\ snap[r][b].file = reading[r].file
        BY Zenon, <2>1 DEF HandleInv
      <3>2. RecordIn(onDisk, files, snap[r][b]) = b
        BY Zenon, <2>1, <3>1 DEF HandleInv, IInv, ReaderInv, GoodRow
      <3> QED
        BY Zenon, <3>1, <3>2, FileAssumption DEF RecordIn
    <2> QED
      BY Zenon, <2>1 DEF HandleInv, HandlesStayOpen, Opened, Distinct
  <1> QED
    BY <1>1, HandlesInit, HandlesNext, StorageSound, PTL DEF Spec

-----------------------------------------------------------------------------
\* Syncs.

\* The records the rows list have been synced, except in the given files.
SyncedBut(rows, syn, except) ==
    \A b \in Blocks :
        rows[b] # None /\ rows[b].off >= syn[rows[b].file] => rows[b].file \in except

\* The files that may have records that no sync covers: those that syncBlocks
\* does not reach any more, and the one that it will sync.
Unsynced == cutLoose \cup (IF curOpen THEN {cursor.file} ELSE {})

\* The inductive invariant: the next syncBlocks covers all the cache lists and
\* all the transaction has written, and what goes to LevelDB after it is covered.
SyncInv ==
    /\ synced \in [FileNums -> Nat]
    /\ SyncedBut(ldb, synced, cutLoose)
    /\ SyncedBut(Current, synced, Unsynced)
    /\ stage[Writer] = "writing" => SyncedBut(pending.keys, synced, Unsynced)
    /\ stage[Writer] \in Late => /\ SyncedBut(Current, synced, cutLoose)
                                 /\ SyncedBut(pending.keys, synced, cutLoose)
\* The step leaves the records that the rows list synced, or in a file that is cut
\* loose.
StaySynced(rows) ==
    /\ cutLoose \subseteq cutLoose'
    /\ \A b \in Blocks :
          rows[b] # None /\ rows[b].off >= synced'[rows[b].file] =>
              rows[b].off >= synced[rows[b].file]

\* Those that the next sync covers are covered by it after the step too.
StayReached(rows) ==
    \A b \in Blocks :
        /\ rows[b] # None
        /\ rows[b].off >= synced'[rows[b].file]
        /\ rows[b].file \in Unsynced
        => rows[b].file \in Unsynced'

LEMMA StaySyncedMeaning ==
    ASSUME NEW rows, StaySynced(rows), SyncedBut(rows, synced, cutLoose)
    PROVE  SyncedBut(rows, synced', cutLoose')
  BY Zenon DEF StaySynced, SyncedBut

LEMMA StayReachedMeaning ==
    ASSUME NEW rows, StaySynced(rows), StayReached(rows),
           SyncedBut(rows, synced, Unsynced)
    PROVE  SyncedBut(rows, synced', Unsynced')
  BY Zenon DEF StaySynced, StayReached, SyncedBut

LEMMA SyncedButGrows ==
    ASSUME NEW rows, NEW syn, NEW E, NEW F, E \subseteq F, SyncedBut(rows, syn, E)
    PROVE  SyncedBut(rows, syn, F)
  BY Zenon DEF SyncedBut

\* The record of a row that is right exists.
LEMMA RowFacts ==
    ASSUME files \in [FileNums -> Seq(Units)], NEW rows \in Contents, NEW b \in Blocks,
           NEW p \in Locations, rows[b] # None, GoodRow(onDisk, files, rows[b], b, p)
    PROVE  /\ rows[b] \in Locations /\ rows[b].file \in FileNums /\ rows[b].off \in Nat
           /\ rows[b].off < Len(files[rows[b].file])
           /\ rows[b].file < p.file \/ (rows[b].file = p.file /\ rows[b].off < p.off)
  <1>1. rows[b] \in Locations
    BY Zenon DEF Contents
  <1>2. RecordIn(onDisk, files, rows[b]) = b /\ Before(rows[b], p)
    BY Zenon DEF GoodRow
  <1> QED
    BY <1>1, <1>2, FileAssumption DEF RecordIn, Before, Locations, FileNums

\* writeBlock writes at or after the cursor, and a file that it closes is cut
\* loose unless all of it is synced.
LEMMA WriteSyncs ==
    ASSUME files \in [FileNums -> Seq(Units)], cursor \in Locations,
           synced \in [FileNums -> Nat],
           WriteNothing \/ \E u : WriteBlock(u)
    PROVE  /\ synced' \in [FileNums -> Nat]
           /\ \A rows \in Contents :
                 (\A b \in Blocks : GoodRow(onDisk, files, rows[b], b, cursor)) =>
                     StaySynced(rows) /\ StayReached(rows)
  <1> DEFINE p == WritePosition
  <1>1. /\ cursor.file \in Nat /\ cursor.off \in Nat /\ cursor.file \in FileNums
        /\ MaxFileSize \in Nat /\ MaxFile \in Nat
    BY FileAssumption DEF Locations, FileNums
  <1>2. /\ p.file \in Nat /\ p.off \in Nat /\ p.file <= MaxFile
        /\ \/ p = cursor
           \/ p.file = cursor.file + 1
    BY <1>1 DEF WritePosition, WriteNothing, WriteBlock
  <1>3. p.file \in FileNums
    BY <1>1, <1>2 DEF FileNums
  <1>4. /\ cutLoose' = cutLoose \cup ClosedUnsynced
        /\ \/ synced' = synced
           \/ synced' = [synced EXCEPT ![p.file] = IF @ < p.off THEN @ ELSE p.off]
        /\ cursor'.file = p.file
        /\ p.file = cursor.file /\ curOpen => curOpen'
    BY DEF WriteNothing, WriteBlock
  <1>5. ClosedUnsynced = IF p.file # cursor.file /\ synced[cursor.file] < Len(files[cursor.file])
                         THEN {cursor.file} ELSE {}
    BY Zenon DEF ClosedUnsynced
  <1> HIDE DEF p
  <1>6. synced' \in [FileNums -> Nat]
    BY Zenon, <1>2, <1>3, <1>4
  <1>7. ASSUME NEW rows \in Contents,
               \A b \in Blocks : GoodRow(onDisk, files, rows[b], b, cursor),
               NEW b \in Blocks, rows[b] # None,
               rows[b].off >= synced'[rows[b].file]
        PROVE  /\ rows[b].off >= synced[rows[b].file]
               /\ rows[b].file \in Unsynced => rows[b].file \in Unsynced'
    <2> DEFINE n == rows[b].file
               o == rows[b].off
    <2>1. /\ n \in FileNums /\ n \in Nat /\ o \in Nat /\ o < Len(files[n])
          /\ n < cursor.file \/ (n = cursor.file /\ o < cursor.off)
      BY <1>1, <1>7, RowFacts DEF FileNums
    <2>2. synced[n] \in Nat
      BY Zenon, <2>1
    <2> HIDE DEF n, o
    <2>3. o >= synced'[n]
      BY Zenon, <1>7 DEF n, o
    <2>4. o >= synced[n]
      <3>1. CASE synced'[n] = synced[n]
        BY Zenon, <2>3, <3>1
      <3>2. CASE synced'[n] # synced[n]
        <4>1. /\ n = p.file
              /\ synced'[n] = IF synced[n] < p.off THEN synced[n] ELSE p.off
          BY Zenon, <1>3, <1>4, <2>1, <3>2
        <4>2. p = cursor
          BY <1>1, <1>2, <2>1, <4>1
        <4>3. o < p.off
          BY <1>1, <2>1, <4>1, <4>2
        <4> QED
          BY <1>2, <2>1, <2>2, <2>3, <3>2, <4>1, <4>3
      <3> QED
        BY Zenon, <3>1, <3>2
    <2>5. n = cursor.file /\ p.file # cursor.file => n \in cutLoose'
      BY <1>4, <1>5, <2>1, <2>2, <2>4
    <2>6. n \in Unsynced => n \in Unsynced'
      <3>1. CASE n \in cutLoose
        BY Zenon, <1>4, <3>1 DEF Unsynced
      <3>2. CASE n = cursor.file /\ curOpen
        BY Zenon, <1>4, <2>5, <3>2 DEF Unsynced
      <3> QED
        BY <3>1, <3>2, Zenon DEF Unsynced
    <2> QED
      BY Zenon, <2>4, <2>6 DEF n, o
  <1> QED
    BY Zenon, <1>4, <1>6, <1>7 DEF StaySynced, StayReached

\* handleRollback takes nothing away from the records before the position it
\* rolls back to, and does not close the write file when that is among them.
LEMMA RollbackSyncs ==
    ASSUME files \in [FileNums -> Seq(Units)], synced \in [FileNums -> Nat],
           NEW c, c.file \in Nat, NEW to \in Locations, NEW mayFail,
           HandleRollback(c, to, mayFail)
    PROVE  /\ synced' \in [FileNums -> Nat]
           /\ \A rows \in Contents :
                 (\A b \in Blocks : GoodRow(onDisk, files, rows[b], b, to)) =>
                     StaySynced(rows) /\ (c = cursor => StayReached(rows))
  <1>1. to.file \in Nat /\ to.off \in Nat /\ to.file \in FileNums /\ MaxFile \in Nat
    BY FileAssumption DEF Locations, FileNums
  <1>2. cutLoose' = cutLoose /\ cursor' = to
    BY Zenon DEF HandleRollback
  <1>3. \/ c = to /\ UNCHANGED <<synced, curOpen>>
        \/ \E k \in 0..(c.file - to.file), safe \in Nat :
              /\ synced' = [n \in FileNums |-> IF n \in Deletable(c, k) THEN 0
                                               ELSE IF n = to.file THEN safe ELSE synced[n]]
              /\ safe = to.off \/ safe = synced[to.file]
              /\ c.file = to.file /\ curOpen => curOpen'
    <2>1. CASE c = to
      BY Zenon, <2>1 DEF HandleRollback
    <2>2. CASE c # to
      <3>1. PICK k \in 0..(c.file - to.file) : \/ RollbackBlocked(c, to, k, mayFail)
                                               \/ RollbackTruncates(c, to, k, mayFail)
        BY <2>2, Zenon DEF HandleRollback
      <3>2. CASE RollbackBlocked(c, to, k, mayFail)
        <4>1. synced' = [n \in FileNums |-> IF n \in Deletable(c, k) THEN 0
                                            ELSE IF n = to.file THEN synced[to.file]
                                            ELSE synced[n]]
          BY Zenon, <3>2 DEF RollbackBlocked
        <4>2. c.file # to.file
          BY <1>1, <3>1, <3>2 DEF RollbackBlocked
        <4> QED
          BY Zenon, <1>1, <3>1, <4>1, <4>2
      <3>3. CASE RollbackTruncates(c, to, k, mayFail)
        <4>1. PICK safe \in {to.off, synced[to.file]} :
                 synced' = [n \in FileNums |-> IF n \in Deletable(c, k) THEN 0
                                               ELSE IF n = to.file THEN safe ELSE synced[n]]
          BY Zenon, <3>3 DEF RollbackTruncates
        <4>2. c.file = to.file /\ curOpen => curOpen'
          BY <1>1, <3>1, <3>3 DEF RollbackTruncates
        <4>3. safe \in Nat
          BY Zenon, <1>1, <4>1
        <4> QED
          BY <3>1, <4>1, <4>2, <4>3, Zenon
      <3> QED
        BY Zenon, <3>1, <3>2, <3>3
    <2> QED
      BY Zenon, <2>1, <2>2
  <1>4. synced' \in [FileNums -> Nat]
    <2>1. ASSUME NEW k, NEW safe \in Nat
          PROVE  [n \in FileNums |-> IF n \in Deletable(c, k) THEN 0
                                     ELSE IF n = to.file THEN safe ELSE synced[n]]
                     \in [FileNums -> Nat]
      OBVIOUS
    <2> QED
      BY <1>3, <2>1, Zenon
  <1>5. ASSUME NEW rows \in Contents,
               \A b \in Blocks : GoodRow(onDisk, files, rows[b], b, to),
               NEW b \in Blocks, rows[b] # None,
               rows[b].off >= synced'[rows[b].file]
        PROVE  /\ rows[b].off >= synced[rows[b].file]
               /\ c = cursor /\ rows[b].file \in Unsynced => rows[b].file \in Unsynced'
    <2> DEFINE n == rows[b].file
               o == rows[b].off
    <2>1. /\ n \in FileNums /\ n \in Nat /\ o \in Nat
          /\ n < to.file \/ (n = to.file /\ o < to.off)
      BY <1>1, <1>5, RowFacts DEF FileNums
    <2>2. synced[n] \in Nat
      BY Zenon, <2>1
    <2> HIDE DEF n, o
    <2>3. o >= synced'[n]
      BY Zenon, <1>5 DEF n, o
    <2>4. CASE c = to /\ UNCHANGED <<synced, curOpen>>
      BY Zenon, <1>2, <2>3, <2>4 DEF Unsynced, n, o
    <2>5. ASSUME NEW k \in 0..(c.file - to.file), NEW safe \in Nat,
                 synced' = [m \in FileNums |-> IF m \in Deletable(c, k) THEN 0
                                               ELSE IF m = to.file THEN safe ELSE synced[m]],
                 safe = to.off \/ safe = synced[to.file],
                 c.file = to.file /\ curOpen => curOpen'
          PROVE  /\ o >= synced[n]
                 /\ c = cursor /\ n \in Unsynced => n \in Unsynced'
      <3>1. n \notin Deletable(c, k)
        BY <1>1, <2>1, <2>5 DEF Deletable
      <3>2. synced'[n] = IF n = to.file THEN safe ELSE synced[n]
        BY Zenon, <2>1, <2>5, <3>1
      <3>3. o >= synced[n]
        BY <1>1, <2>1, <2>2, <2>3, <2>5, <3>2
      <3>4. n = c.file => c.file = to.file
        BY <1>1, <2>1, <2>5
      <3>5. c = cursor /\ n \in Unsynced => n \in Unsynced'
        BY <1>2, <2>5, <3>4, Zenon DEF Unsynced
      <3> QED
        BY Zenon, <3>3, <3>5
    <2> QED
      BY Zenon, <1>3, <2>4, <2>5 DEF n, o
  <1> QED
    BY <1>2, <1>4, <1>5, Zenon DEF StaySynced, StayReached
\* syncBlocks covers what is left in the write file.
LEMMA SyncSyncs ==
    ASSUME files \in [FileNums -> Seq(Units)], cursor \in Locations,
           synced \in [FileNums -> Nat], SyncBlocks
    PROVE  /\ synced' \in [FileNums -> Nat]
           /\ \A rows \in Contents, p \in Locations :
                 /\ \A b \in Blocks : GoodRow(onDisk, files, rows[b], b, p)
                 /\ SyncedBut(rows, synced, Unsynced)
                 => SyncedBut(rows, synced', cutLoose')
  <1>1. CASE ~curOpen
    <2>1. synced' = synced /\ cutLoose' = cutLoose /\ Unsynced = cutLoose
      BY Zenon, <1>1 DEF SyncBlocks, Unsynced
    <2> QED
      BY Zenon, <2>1
  <1>2. CASE curOpen
    <2>1. /\ synced' = [synced EXCEPT ![cursor.file] = Len(files[cursor.file])]
          /\ cutLoose' = cutLoose \ {cursor.file}
          /\ Unsynced = cutLoose \cup {cursor.file}
          /\ cursor.file \in FileNums
      BY Zenon, <1>2 DEF SyncBlocks, Unsynced, Locations
    <2>2. synced' \in [FileNums -> Nat]
      BY <2>1
    <2>3. ASSUME NEW rows \in Contents, NEW p \in Locations,
                 \A b \in Blocks : GoodRow(onDisk, files, rows[b], b, p),
                 SyncedBut(rows, synced, Unsynced),
                 NEW b \in Blocks, rows[b] # None,
                 rows[b].off >= synced'[rows[b].file]
          PROVE  rows[b].file \in cutLoose'
      <3>1. /\ rows[b].file \in FileNums /\ rows[b].off \in Nat
            /\ rows[b].off < Len(files[rows[b].file])
        BY Zenon, <2>3, RowFacts
      <3>2. rows[b].file # cursor.file
        <4>1. Len(files[rows[b].file]) \in Nat
          BY <3>1
        <4>2. rows[b].file = cursor.file => synced'[rows[b].file] = Len(files[rows[b].file])
          BY Zenon, <2>1
        <4> QED
          BY <2>3, <3>1, <4>1, <4>2
      <3>3. rows[b].off >= synced[rows[b].file]
        BY Zenon, <2>1, <2>3, <3>1, <3>2
      <3> QED
        BY Zenon, <2>1, <2>3, <3>2, <3>3 DEF SyncedBut
    <2> QED
      BY Zenon, <2>2, <2>3 DEF SyncedBut
  <1> QED
    BY Zenon, <1>1, <1>2

\* What the metadata lists lies before the limit.
LEMMA ListedBefore ==
    ASSUME IInv, Running
    PROVE  /\ \A b \in Blocks : /\ GoodRow(onDisk, files, ldb[b], b, Limit)
                                /\ GoodRow(onDisk, files, Current[b], b, Limit)
           /\ stage[Writer] = "writing" =>
                 \A b \in Blocks : /\ GoodRow(onDisk, files, ldb[b], b, cursor)
                                   /\ GoodRow(onDisk, files, Current[b], b, cursor)
                                   /\ GoodRow(onDisk, files, pending.keys[b], b, cursor)
  <1>1. /\ NotAfter(ldb[WriteLoc], Current[WriteLoc])
        /\ NotAfter(Current[WriteLoc], Limit)
        /\ GoodRows(onDisk, files, ldb) /\ GoodRows(onDisk, files, Current)
    BY Zenon DEF IInv, MetadataInv
  <1>2. /\ ldb[WriteLoc] \in Locations /\ Current[WriteLoc] \in Locations
        /\ Limit \in Locations /\ ldb \in Contents /\ Current \in Contents
    BY Zenon, WriteLocs
  <1>3. ASSUME NEW rows \in Contents, NEW p \in Locations, NEW q \in Locations,
               NEW b \in Blocks, GoodRow(onDisk, files, rows[b], b, p), NotAfter(p, q)
        PROVE  GoodRow(onDisk, files, rows[b], b, q)
    <2>1. rows[b] \in Locations \cup {None}
      BY Zenon DEF Contents
    <2> QED
      BY Zenon, <1>3, <2>1, PositionOrder DEF GoodRow
  <1>4. NotAfter(ldb[WriteLoc], Limit)
    BY Zenon, <1>1, <1>2, PositionOrder
  <1>5. ASSUME NEW b \in Blocks
        PROVE  /\ GoodRow(onDisk, files, ldb[b], b, Limit)
               /\ GoodRow(onDisk, files, Current[b], b, Limit)
    BY Zenon, <1>1, <1>2, <1>3, <1>4 DEF GoodRows
  <1>6. ASSUME stage[Writer] = "writing"
        PROVE  /\ NotAfter(Limit, cursor) /\ cursor \in Locations
               /\ \A b \in Blocks : GoodRow(onDisk, files, pending.keys[b], b, cursor)
    BY Zenon, <1>6 DEF IInv, PendingInv, Limit, CoreType
  <1> QED
    BY Zenon, <1>2, <1>3, <1>5, <1>6

LEMMA SyncTypes ==
    ASSUME IInv
    PROVE  /\ files \in [FileNums -> Seq(Units)] /\ cursor \in Locations /\ cursor.file \in Nat
           /\ pending.keys \in Contents /\ saved \in Locations
           /\ stage[Writer] # "none" => Running
           /\ Writer \in Txs
  BY FileAssumption
  DEF IInv, CoreType, DbTypeOK, MetadataInv, NoTxs, Txs, Running, Locations, FileNums

\* A step that touches neither the files nor the committed metadata.
LEMMA SyncsKept ==
    ASSUME SyncInv, UNCHANGED <<synced, cutLoose, curOpen, cursor, ldb, cache>>,
           \/ stage'[Writer] \in {"none", "ldb", "open", "undo"}
           \/ stage'[Writer] = stage[Writer] /\ pending' = pending
    PROVE  SyncInv'
  <1>1. Current' = Current /\ Unsynced' = Unsynced
    BY Zenon DEF Current, Overlay, Unsynced
  <1>2. SyncInv => /\ stage'[Writer] = "writing" => SyncedBut(pending'.keys, synced, Unsynced)
                   /\ stage'[Writer] \in Late => /\ SyncedBut(Current, synced, cutLoose)
                                                 /\ SyncedBut(pending'.keys, synced, cutLoose)
    BY Zenon DEF SyncInv, Late
  <1> QED
    BY Zenon, <1>1, <1>2 DEF SyncInv
\* A block is written, or fails to be.
LEMMA WriteKeepsSyncs ==
    ASSUME IInv, SyncInv, WritePending \/ WritePendingFails
    PROVE  SyncInv'
  <1>1. /\ stage[Writer] = "writing" /\ UNCHANGED <<ldb, cache>>
        /\ WriteNothing \/ \E u : WriteBlock(u)
    BY Zenon DEF WritePending, WritePendingFails
  <1>2. /\ synced' \in [FileNums -> Nat]
        /\ \A rows \in Contents :
              (\A b \in Blocks : GoodRow(onDisk, files, rows[b], b, cursor)) =>
                  StaySynced(rows) /\ StayReached(rows)
    BY Zenon, <1>1, SyncTypes, WriteSyncs DEF SyncInv
  <1>3. /\ ldb \in Contents /\ Current \in Contents /\ pending.keys \in Contents
        /\ \A b \in Blocks : /\ GoodRow(onDisk, files, ldb[b], b, cursor)
                             /\ GoodRow(onDisk, files, Current[b], b, cursor)
                             /\ GoodRow(onDisk, files, pending.keys[b], b, cursor)
    BY Zenon, <1>1, ListedBefore, SyncTypes, WriteLocs
  <1>4. SyncedBut(ldb, synced', cutLoose')
    BY Zenon, <1>2, <1>3, StaySyncedMeaning DEF SyncInv
  <1>5. SyncedBut(Current, synced', Unsynced')
    BY Zenon, <1>2, <1>3, StayReachedMeaning DEF SyncInv
  <1>6. SyncedBut(pending.keys, synced', Unsynced')
    BY Zenon, <1>1, <1>2, <1>3, StayReachedMeaning DEF SyncInv
  <1>7. Current' = Current
    BY Zenon, <1>1 DEF Current, Overlay
  <1>8. CASE WritePendingFails
    <2>1. stage'[Writer] = "undo"
      BY Zenon, <1>8, SyncTypes DEF WritePendingFails, IInv, CoreType, DbTypeOK
    <2> QED
      BY Zenon, <1>1, <1>2, <1>4, <1>5, <1>7, <2>1 DEF SyncInv, Late
  <1>9. CASE WritePending
    <2> DEFINE u == pending.blocks[written + 1]
    <2>1. /\ WriteBlock(u) /\ stage' = stage
          /\ pending' = [pending EXCEPT !.keys[u] = WritePosition, !.remove = @ \ {u}]
      BY Zenon, <1>9 DEF WritePending
    <2>2. \A b \in Blocks : \/ pending'.keys[b] = pending.keys[b]
                            \/ pending'.keys[b] = WritePosition
      BY Zenon, <2>1 DEF IInv, CoreType, DbTypeOK, Contents, Rows
    <2>3. WritePosition.file \in Unsynced'
      BY Zenon, <2>1 DEF WriteBlock, Unsynced
    <2>4. SyncedBut(pending'.keys, synced', Unsynced')
      BY Zenon, <1>6, <2>2, <2>3 DEF SyncedBut
    <2> QED
      BY Zenon, <1>1, <1>2, <1>4, <1>5, <1>7, <2>1, <2>4 DEF SyncInv, Late
  <1> QED
    BY Zenon, <1>8, <1>9

\* The writes of a commit are taken back.
LEMMA UndoKeepsSyncs ==
    ASSUME IInv, SyncInv, UndoWrites
    PROVE  SyncInv'
  <1>1. /\ stage[Writer] = "undo" /\ HandleRollback(cursor, saved, TRUE)
        /\ CloseTx(Writer) /\ UNCHANGED <<ldb, cache>>
    BY Zenon DEF UndoWrites
  <1>2. /\ synced' \in [FileNums -> Nat]
        /\ \A rows \in Contents :
              (\A b \in Blocks : GoodRow(onDisk, files, rows[b], b, saved)) =>
                  StaySynced(rows) /\ StayReached(rows)
    BY Zenon, <1>1, SyncTypes, RollbackSyncs DEF SyncInv
  <1>3. /\ ldb \in Contents /\ Current \in Contents
        /\ \A b \in Blocks : /\ GoodRow(onDisk, files, ldb[b], b, saved)
                             /\ GoodRow(onDisk, files, Current[b], b, saved)
    <2>1. Limit = saved
      BY Zenon, <1>1 DEF Limit
    <2> QED
      BY Zenon, <1>1, <2>1, ListedBefore, SyncTypes, WriteLocs
  <1>4. SyncedBut(ldb, synced', cutLoose') /\ SyncedBut(Current, synced', Unsynced')
    BY Zenon, <1>2, <1>3, StaySyncedMeaning, StayReachedMeaning DEF SyncInv
  <1>5. Current' = Current
    BY Zenon, <1>1 DEF Current, Overlay
  <1>6. stage'[Writer] = "none"
    BY Zenon, <1>1, SyncTypes, CloseTxProps DEF IInv
  <1> QED
    BY Zenon, <1>1, <1>2, <1>4, <1>5, <1>6 DEF SyncInv, Late

\* A commit starts with nothing written, and ends in the cache or in LevelDB.
LEMMA CommitKeepsSyncs ==
    ASSUME IInv, SyncInv,
           Commit \/ CommitToCache \/ FlushCommit \/ FlushClear \/ CommitToLdb
    PROVE  SyncInv'
  <1>1. UNCHANGED <<synced, cutLoose, curOpen, cursor>> /\ Unsynced' = Unsynced
    <2>1. UNCHANGED <<synced, cutLoose, curOpen, cursor>>
      BY Zenon DEF Commit, CommitToCache, FlushCommit, FlushClear, CommitToLdb, fileVars
    <2> QED
      BY Zenon, <2>1 DEF Unsynced
  <1>2. ASSUME NEW below, NEW change, NEW syn, NEW ex, change.remove \subseteq Keys,
               SyncedBut(below, syn, ex), SyncedBut(change.keys, syn, ex)
        PROVE  SyncedBut(Overlay(below, change), syn, ex)
    <2>1. \A b \in Blocks : Overlay(below, change)[b] \in {below[b], change.keys[b]}
      BY Zenon, <1>2, RowAssumption DEF Overlay, Rows
    <2> QED
      BY Zenon, <1>2, <2>1 DEF SyncedBut
  <1>3. CASE Commit
    <2>1. /\ stage[Writer] = "open" /\ UNCHANGED <<ldb, cache, pending>>
          /\ stage'[Writer] = "writing"
      BY Zenon, <1>3, SyncTypes DEF Commit, IInv, CoreType, DbTypeOK
    <2>2. \A b \in Blocks : pending.keys[b] = None
      BY <2>1 DEF IInv, WriterInv, PendingInv
    <2>3. Current' = Current
      BY Zenon, <2>1 DEF Current, Overlay
    <2> QED
      BY Zenon, <1>1, <2>1, <2>2, <2>3 DEF SyncInv, SyncedBut, Late
  <1>4. CASE CommitToCache
    <2>1. AllWritten /\ stage[Writer] = "writing" /\ CloseTx(Writer) /\ ldb' = ldb
      BY Zenon, <1>4 DEF CommitToCache, AllWritten
    <2>2. Current' = Overlay(Current, Complete)
      BY Zenon, <1>4, CommitToCacheInv
    <2>3. /\ Complete.remove \subseteq Keys
          /\ \A b \in Blocks : Complete.keys[b] = pending.keys[b]
      BY Zenon, <2>1, CompleteProps
    <2>4. SyncedBut(Complete.keys, synced, Unsynced)
      BY Zenon, <2>1, <2>3 DEF SyncInv, SyncedBut
    <2>5. SyncedBut(Current', synced, Unsynced)
      BY Zenon, <1>2, <2>2, <2>3, <2>4 DEF SyncInv
    <2>6. stage'[Writer] = "none"
      BY Zenon, <2>1, SyncTypes, CloseTxProps DEF IInv
    <2> QED
      BY Zenon, <1>1, <2>1, <2>5, <2>6 DEF SyncInv, Late
  <1>5. CASE FlushCommit
    <2>1. /\ stage[Writer] \in Late /\ stage'[Writer] \in Late
          /\ ldb' = Current /\ UNCHANGED <<cache, pending>>
      BY Zenon, <1>5, SyncTypes DEF FlushCommit, IInv, CoreType, DbTypeOK, Late
    <2>2. Current' = Current
      BY Zenon, <2>1, OverlayTwice DEF Current, Overlay
    <2> QED
      BY Zenon, <1>1, <2>1, <2>2 DEF SyncInv, Late
  <1>6. CASE FlushClear
    <2>1. /\ stage[Writer] = "flushed" /\ stage'[Writer] \in Late
          /\ cache' = NoCache /\ UNCHANGED <<ldb, pending>>
      BY Zenon, <1>6, SyncTypes DEF FlushClear, IInv, CoreType, DbTypeOK, Late
    <2>2. ldb = Current /\ ldb \in Contents
      BY Zenon, <2>1, WriteLocs DEF IInv, WriterInv
    <2>3. Current' = Overlay(ldb, NoCache)
      BY Zenon, <2>1 DEF Current, Overlay
    <2>4. Current' = Current
      BY Zenon, <2>2, <2>3, OverlayNothing
    <2> QED
      BY Zenon, <1>1, <2>1, <2>4 DEF SyncInv, Late
  <1>7. CASE CommitToLdb
    <2>1. /\ stage[Writer] = "cleared" /\ ldb' = Overlay(ldb, pending)
          /\ CloseTx(Writer) /\ cache' = cache
      BY Zenon, <1>7 DEF CommitToLdb
    <2>2. cache = NoCache /\ pending.remove \subseteq Keys
      BY Zenon, <2>1 DEF IInv, WriterInv
    <2>3. SyncedBut(ldb', synced, cutLoose)
      BY Zenon, <1>2, <2>1, <2>2 DEF SyncInv, Late
    <2>4. Current' = ldb'
      <3>1. ldb' \in Contents
        BY Zenon, <1>7, CommitToLdbInv DEF IInv, CoreType, DbTypeOK
      <3>2. Current' = Overlay(ldb', NoCache)
        BY Zenon, <2>1, <2>2 DEF Current, Overlay
      <3> QED
        BY Zenon, <3>1, <3>2, OverlayNothing
    <2>5. SyncedBut(Current', synced, Unsynced)
      BY Zenon, <2>3, <2>4, SyncedButGrows DEF Unsynced
    <2>6. stage'[Writer] = "none"
      BY Zenon, <2>1, SyncTypes, CloseTxProps DEF IInv
    <2> QED
      BY Zenon, <1>1, <2>3, <2>5, <2>6 DEF SyncInv, Late
  <1> QED
    BY Zenon, <1>3, <1>4, <1>5, <1>6, <1>7
\* syncBlocks covers what the cache lists and what the transaction has written.
LEMMA SyncReaches ==
    ASSUME IInv, SyncInv, Running, SyncBlocks
    PROVE  /\ synced' \in [FileNums -> Nat] /\ cutLoose' \subseteq Unsynced'
           /\ SyncedBut(ldb, synced', cutLoose')
           /\ SyncedBut(Current, synced', cutLoose')
           /\ stage[Writer] = "writing" => SyncedBut(pending.keys, synced', cutLoose')
  <1>1. /\ synced' \in [FileNums -> Nat]
        /\ \A rows \in Contents, p \in Locations :
              /\ \A b \in Blocks : GoodRow(onDisk, files, rows[b], b, p)
              /\ SyncedBut(rows, synced, Unsynced)
              => SyncedBut(rows, synced', cutLoose')
    BY Zenon, SyncTypes, SyncSyncs DEF SyncInv
  <1>2. ldb \in Contents /\ Current \in Contents /\ Limit \in Locations
    BY Zenon, SyncTypes, WriteLocs DEF Limit
  <1>3. SyncedBut(ldb, synced, Unsynced)
    BY Zenon, SyncedButGrows DEF SyncInv, Unsynced
  <1>4. SyncedBut(ldb, synced', cutLoose') /\ SyncedBut(Current, synced', cutLoose')
    BY Zenon, <1>1, <1>2, <1>3, ListedBefore DEF SyncInv
  <1>5. ASSUME stage[Writer] = "writing" PROVE SyncedBut(pending.keys, synced', cutLoose')
    BY Zenon, <1>1, <1>5, ListedBefore, SyncTypes DEF SyncInv
  <1> QED
    BY Zenon, <1>1, <1>4, <1>5 DEF Unsynced

\* The flush of a commit begins.
LEMMA FlushSyncKeepsSyncs ==
    ASSUME IInv, SyncInv, FlushSync
    PROVE  SyncInv'
  <1>1. /\ AllWritten /\ stage[Writer] = "writing" /\ SyncBlocks /\ pending' = Complete
        /\ stage'[Writer] = "synced" /\ UNCHANGED <<ldb, cache>>
    BY Zenon, SyncTypes DEF FlushSync, AllWritten, IInv, CoreType, DbTypeOK
  <1>2. /\ synced' \in [FileNums -> Nat] /\ cutLoose' \subseteq Unsynced'
        /\ SyncedBut(ldb, synced', cutLoose')
        /\ SyncedBut(Current, synced', cutLoose')
        /\ SyncedBut(pending.keys, synced', cutLoose')
    BY Zenon, <1>1, SyncReaches, SyncTypes
  <1>3. Current' = Current
    BY Zenon, <1>1 DEF Current, Overlay
  <1>4. SyncedBut(pending'.keys, synced', cutLoose')
    BY Zenon, <1>1, <1>2, CompleteProps DEF SyncedBut
  <1>5. SyncedBut(Current', synced', Unsynced')
    BY Zenon, <1>2, <1>3, SyncedButGrows
  <1> QED
    BY Zenon, <1>1, <1>2, <1>3, <1>4, <1>5 DEF SyncInv

\* A flush with no transaction running.
LEMMA FlushKeepsSyncs ==
    ASSUME IInv, SyncInv, FlushDB \/ CloseDB
    PROVE  SyncInv'
  <1>1. /\ Running /\ Flush /\ stage'[Writer] = "none"
    BY Zenon DEF FlushDB, CloseDB, Running, NoTxs, Txs
  <1>2. Current' = Current /\ ldb' \in {ldb, Current}
    BY Zenon, FlushInv
  <1>3. CASE SyncBlocks
    <2>1. /\ synced' \in [FileNums -> Nat] /\ cutLoose' \subseteq Unsynced'
          /\ SyncedBut(ldb, synced', cutLoose')
          /\ SyncedBut(Current, synced', cutLoose')
      BY Zenon, <1>1, <1>3, SyncReaches
    <2>2. SyncedBut(Current', synced', Unsynced')
      BY Zenon, <1>2, <2>1, SyncedButGrows
    <2> QED
      BY Zenon, <1>1, <1>2, <2>1, <2>2 DEF SyncInv, Late
  <1>4. CASE UNCHANGED <<fileVars, ldb, cache>>
    <2>1. UNCHANGED <<synced, cutLoose>> /\ Unsynced' = Unsynced
      BY Zenon, <1>4 DEF fileVars, Unsynced
    <2> QED
      BY Zenon, <1>1, <1>2, <1>4, <2>1 DEF SyncInv, Late
  <1> QED
    BY Zenon, <1>1, <1>3, <1>4 DEF Flush

\* The process ends: what counts is what LevelDB lists.
LEMMA StopKeepsSyncs ==
    ASSUME IInv, SyncInv, CloseFiles \/ Crash
    PROVE  SyncInv'
  <1>1. UNCHANGED <<synced, cutLoose>> /\ cutLoose' \subseteq Unsynced'
    BY Zenon DEF CloseFiles, Crash, FilesClosed, Unsynced
  <1>2. Current' = ldb /\ ldb' = ldb /\ stage'[Writer] = "none"
    BY Zenon, StopInv
  <1>3. SyncedBut(Current', synced', Unsynced')
    BY Zenon, <1>1, <1>2, SyncedButGrows DEF SyncInv
  <1> QED
    BY Zenon, <1>1, <1>2, <1>3 DEF SyncInv, Late

\* Reopening truncates the files to where LevelDB says.
LEMMA OpenKeepsSyncs ==
    ASSUME IInv, SyncInv, OpenDB
    PROVE  SyncInv'
  <1> USE RowAssumption, FileAssumption
  <1> DEFINE claim == ldb[WriteLoc]
  <1>1. /\ status = "closed" /\ UNCHANGED <<ldb, cache, stage>>
    BY Zenon DEF OpenDB
  <1>2. NoTxs /\ cache = NoCache /\ claim \in Locations /\ ldb \in Contents
    BY Zenon, <1>1, WriteLocs DEF IInv, MetadataInv, Running
  <1>3. Current' = ldb
    <2>1. Current' = Overlay(ldb, NoCache)
      BY Zenon, <1>1, <1>2 DEF Current, Overlay
    <2> QED
      BY Zenon, <1>2, <2>1, OverlayNothing
  <1>4. stage'[Writer] = "none"
    BY Zenon, <1>1, <1>2 DEF NoTxs, Txs
  <1>5. synced' \in [FileNums -> Nat] /\ SyncedBut(ldb, synced', cutLoose')
    <2>1. PICK found \in ScanBlockFiles :
               UNCHANGED fileVars \/ HandleRollback(found, claim, TRUE)
      BY Zenon DEF OpenDB
    <2>2. CASE UNCHANGED fileVars
      BY Zenon, <2>2 DEF SyncInv, fileVars
    <2>3. CASE HandleRollback(found, claim, TRUE)
      <3>1. found.file \in Nat
        BY DEF ScanBlockFiles, Start, Locations, FileNums
      <3>2. /\ synced' \in [FileNums -> Nat]
            /\ \A rows \in Contents :
                  (\A b \in Blocks : GoodRow(onDisk, files, rows[b], b, claim)) =>
                      StaySynced(rows)
        BY Zenon, <1>2, <2>3, <3>1, SyncTypes, RollbackSyncs DEF SyncInv
      <3>3. \A b \in Blocks : GoodRow(onDisk, files, ldb[b], b, claim)
        BY Zenon DEF IInv, MetadataInv, GoodRows
      <3> QED
        BY Zenon, <1>2, <3>2, <3>3, StaySyncedMeaning DEF SyncInv
    <2> QED
      BY Zenon, <2>1, <2>2, <2>3
  <1>6. SyncedBut(Current', synced', Unsynced')
    BY <1>3, <1>5, SyncedButGrows DEF Unsynced
  <1> QED
    BY Zenon, <1>1, <1>4, <1>5, <1>6 DEF SyncInv, Late
LEMMA SyncsNext ==
    ASSUME IInv, SyncInv, [Next]_vars
    PROVE  SyncInv'
  <1>1. ASSUME NEW t \in Txs, Begin(t) \/ SnapshotCache(t) \/ Rollback(t)
        PROVE  SyncInv'
    <2>1. /\ UNCHANGED <<synced, cutLoose, curOpen, cursor, ldb, cache>>
          /\ \E x \in {"none", "ldb", "open"} : stage' = [stage EXCEPT ![t] = x]
          /\ t # Writer => pending' = pending
      BY <1>1, Zenon DEF Begin, SnapshotCache, Rollback, CloseTx, fileVars
    <2>2. stage \in [Txs -> {"none", "ldb", "open", "writing", "undo",
                             "synced", "flushed", "cleared"}]
      BY Zenon DEF IInv, CoreType, DbTypeOK
    <2>3. \/ stage'[Writer] \in {"none", "ldb", "open", "undo"}
          \/ stage'[Writer] = stage[Writer] /\ pending' = pending
      BY <2>1, <2>2
    <2> QED
      BY Zenon, <2>1, <2>3, SyncsKept
  <1>2. CASE \/ \E k \in Keys : DeleteKey(k) \/ \E v \in Values : PutKey(k, v)
             \/ \E b \in Blocks : StoreBlock(b)
    <2>1. /\ UNCHANGED <<synced, cutLoose, curOpen, cursor, ldb, cache, stage>>
          /\ stage[Writer] = "open"
      BY <1>2, Zenon DEF DeleteKey, PutKey, StoreBlock, fileVars
    <2> QED
      BY Zenon, <2>1, SyncsKept
  <1>3. CASE \/ \E r \in Readers : ReadDone(r) \/ \E b \in Blocks : ReadBlock(r, b)
             \/ UNCHANGED vars
    <2>1. UNCHANGED <<synced, cutLoose, curOpen, cursor, ldb, cache, stage, pending>>
      BY <1>3, Zenon
      DEF ReadDone, ReadBlock, DoneReading, BlockFile, vars, fileVars, dbVars
    <2> QED
      BY Zenon, <2>1, SyncsKept
  <1>4. CASE FlushFails
    <2>1. UNCHANGED <<synced, cutLoose, curOpen, cursor, ldb, cache>> /\ CloseTx(Writer)
      BY <1>4, Zenon DEF FlushFails, fileVars
    <2>2. stage'[Writer] = "none"
      BY Zenon, <2>1, SyncTypes, CloseTxProps DEF IInv
    <2> QED
      BY Zenon, <2>1, <2>2, SyncsKept
  <1> QED
    BY <1>1, <1>2, <1>3, <1>4, WriteKeepsSyncs, UndoKeepsSyncs, CommitKeepsSyncs,
       FlushSyncKeepsSyncs, FlushKeepsSyncs, StopKeepsSyncs, OpenKeepsSyncs, Zenon
    DEF Next, Work, Mishap

LEMMA SyncsInit ==
    ASSUME Init
    PROVE  SyncInv
  <1> USE RowAssumption
  <1>1. /\ synced = [n \in FileNums |-> 0] /\ cache = NoCache /\ stage[Writer] = "none"
        /\ ldb = [Nothing EXCEPT ![WriteLoc] = Start]
    BY Zenon DEF Init, FilesInit, DbInit, Txs
  <1>2. synced \in [FileNums -> Nat]
    BY Zenon, <1>1
  <1>3. \A b \in Blocks : ldb[b] = None /\ Current[b] = None
    BY Zenon, <1>1 DEF Current, Overlay, NoCache, Nothing, Rows
  <1> QED
    BY Zenon, <1>1, <1>2, <1>3 DEF SyncInv, SyncedBut, Late

\* A record that LevelDB lists has been synced before it was listed, except in a
\* file that a rollover or a failed rollback cut loose from syncBlocks.
THEOREM ListedSyncedAlways == Spec => []ListedSyncedUnlessCutLoose
  <1>1. Init => IInv /\ SyncInv
    BY Zenon, InitInv, SyncsInit
  <1>2. IInv /\ SyncInv /\ [Next]_vars => IInv' /\ SyncInv'
    BY Zenon, NextInv, SyncsNext
  <1>3. SyncInv => ListedSyncedUnlessCutLoose
    BY Zenon DEF SyncInv, SyncedBut, ListedSyncedUnlessCutLoose
  <1> QED
    BY <1>1, <1>2, <1>3, PTL DEF Spec
=============================================================================

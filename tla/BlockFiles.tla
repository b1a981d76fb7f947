----------------------------- MODULE BlockFiles -----------------------------
(***************************************************************************)
(* The flat files the block database keeps blocks in                       *)
(* (database/ffldb/blockio.go): the write cursor, the roll over to the     *)
(* next file, the rollback of writes that are not kept, the scan a start   *)
(* makes, and the file handles readers share.                              *)
(*                                                                         *)
(* A record is one unit of a file.  What is left of a record whose write   *)
(* failed, or was cut short by a crash, is one Torn unit.                  *)
(***************************************************************************)
EXTENDS Integers, Sequences, FiniteSets

CONSTANTS
    Blocks,         \* the blocks there are
    Readers,        \* the read-only transactions that may run
    Torn,           \* a record that was not written completely
    MaxFile,        \* bound: the last file number used
    MaxFileSize,    \* blockStore.maxBlockFileSize, in records
    MaxOpenFiles    \* maxOpenFiles

ASSUME FileAssumption ==
    /\ MaxFile \in Nat
    /\ MaxFileSize \in Nat \ {0}
    /\ MaxOpenFiles \in Nat \ {0}
    /\ Torn \notin Blocks

VARIABLES
    files,      \* the content of the files, as the running system sees it
    onDisk,     \* the numbers of the files that exist
    synced,     \* how many records of a file the last sync covered
    cursor,     \* writeCursor.curFileNum and curOffset
    curOpen,    \* writeCursor.curFile.file is not nil
    openFiles,  \* openBlocksLRU, the most recently used first
    reading,    \* the file handle a reader has locked
    cutLoose    \* history: files closed with records that were never synced

fileVars == <<files, onDisk, synced, cursor, curOpen, openFiles, reading, cutLoose>>

FileNums  == 0..MaxFile
Locations == [file : FileNums, off : 0..MaxFileSize]
Units     == Blocks \cup {Torn}
NotReading == [file |-> 0, handle |-> "none"]

FilesTypeOK ==
    /\ files \in [FileNums -> Seq(Units)]
    /\ onDisk \subseteq FileNums
    /\ synced \in [FileNums -> Nat]
    /\ cursor \in Locations
    /\ curOpen \in BOOLEAN
    /\ openFiles \in Seq(FileNums)
    /\ reading \in [Readers -> [file : FileNums, handle : {"none", "write", "read"}]]
    /\ cutLoose \subseteq FileNums

FilesInit ==
    /\ files = [n \in FileNums |-> << >>]
    /\ onDisk = {}
    /\ synced = [n \in FileNums |-> 0]
    /\ cursor = [file |-> 0, off |-> 0]
    /\ curOpen = FALSE
    /\ openFiles = << >>
    /\ reading = [r \in Readers |-> NotReading]
    /\ cutLoose = {}

Before(p, q) == p.file < q.file \/ (p.file = q.file /\ p.off < q.off)

\* readBlock: the record at a location.  Anything but the block asked for is
\* an error, found by the length of the file or the checksum of the record.
RecordIn(exist, contents, p) ==
    IF p.file \in exist /\ p.off < Len(contents[p.file])
    THEN contents[p.file][p.off + 1] ELSE Torn

RecordAt(p) == RecordIn(onDisk, files, p)

-----------------------------------------------------------------------------
\* Writing.  Locks: nobody reads through the handle of the write file while
\* the file is written, closed or truncated.

WriteFileFree == \A r \in Readers : reading[r].handle # "write"

\* Bound: the records for which there is room in the files up to MaxFile.
Room == (MaxFile - cursor.file) * MaxFileSize + MaxFileSize - cursor.off

\* Where writeBlock puts the next record.
WritePosition ==
    IF cursor.off + 1 > MaxFileSize THEN [file |-> cursor.file + 1, off |-> 0]
    ELSE cursor

\* Closing the write file does not sync it.
ClosedUnsynced ==
    IF WritePosition.file # cursor.file
       /\ synced[cursor.file] < Len(files[cursor.file])
    THEN {cursor.file} ELSE {}

WriteAt(content, off, u) ==
    IF off < Len(content) THEN [content EXCEPT ![off + 1] = u]
    ELSE Append(content, u)

\* writeBlock of the record u.
WriteBlock(u) ==
    LET p == WritePosition
    IN  /\ p.file <= MaxFile
        /\ WriteFileFree
        /\ files' = [files EXCEPT ![p.file] = WriteAt(@, p.off, u)]
        /\ onDisk' = onDisk \cup {p.file}
        /\ synced' = [synced EXCEPT ![p.file] = IF @ < p.off THEN @ ELSE p.off]
        /\ cursor' = [file |-> p.file, off |-> p.off + 1]
        /\ curOpen' = TRUE
        /\ cutLoose' = cutLoose \cup ClosedUnsynced
        /\ UNCHANGED <<openFiles, reading>>

\* writeBlock fails before anything is written: the file of the next record
\* cannot be opened, or the first write to it fails.
WriteNothing ==
    LET p == WritePosition
    IN  /\ p.file <= MaxFile
        /\ WriteFileFree
        /\ \/ /\ ~curOpen \/ p.file # cursor.file
              /\ curOpen' = FALSE
              /\ onDisk' = onDisk
           \/ /\ curOpen' = TRUE
              /\ onDisk' = onDisk \cup {p.file}
        /\ cursor' = p
        /\ cutLoose' = cutLoose \cup ClosedUnsynced
        /\ UNCHANGED <<files, synced, openFiles, reading>>

\* syncBlocks: only the write file, and only when it is open.
SyncBlocks ==
    /\ synced' = IF curOpen
                 THEN [synced EXCEPT ![cursor.file] = Len(files[cursor.file])]
                 ELSE synced
    /\ cutLoose' = IF curOpen THEN cutLoose \ {cursor.file} ELSE cutLoose
    /\ UNCHANGED <<files, onDisk, cursor, curOpen, openFiles, reading>>

-----------------------------------------------------------------------------
\* handleRollback from the position c to the position to.  Deleting stops at
\* the first file that cannot be deleted; what is then left on disk lies after
\* the cursor, is overwritten later and ignored until then.

\* The files from top down that are deleted, when k of them are.
Deletable(c, k) == {n \in FileNums : c.file - k < n /\ n <= c.file}

RollbackBlocked(c, to, k, mayFail) ==
    /\ k < c.file - to.file
    /\ mayFail \/ c.file - k \notin onDisk
    /\ curOpen' = FALSE
    /\ files' = [n \in FileNums |-> IF n \in Deletable(c, k) THEN << >> ELSE files[n]]
    /\ synced' = [n \in FileNums |-> IF n \in Deletable(c, k) THEN 0 ELSE synced[n]]

\* Deliberate slip: the record before the position is cut off as well.
RollbackTruncatesOneMore(c, to, k, mayFail) ==
    /\ k = c.file - to.file
    /\ curOpen' = TRUE
    /\ files' = [n \in FileNums |-> IF n \in Deletable(c, k) THEN << >>
                                    ELSE IF n = to.file THEN SubSeq(files[n], 1, to.off - 1)
                                    ELSE files[n]]
    /\ synced' = [n \in FileNums |-> IF n \in Deletable(c, k) THEN 0
                                     ELSE IF n = to.file THEN to.off ELSE synced[n]]

\* All newer files are gone; the write file is opened, truncated and synced,
\* each of which may fail.
RollbackTruncates(c, to, k, mayFail) ==
    LET content == files[to.file]
        kept    == IF synced[to.file] < to.off THEN synced[to.file] ELSE to.off
        write(result, safe) ==
            /\ files' = [n \in FileNums |-> IF n \in Deletable(c, k) THEN << >>
                                            ELSE IF n = to.file THEN result ELSE files[n]]
            /\ synced' = [n \in FileNums |-> IF n \in Deletable(c, k) THEN 0
                                             ELSE IF n = to.file THEN safe ELSE synced[n]]
    IN  /\ k = c.file - to.file
        /\ \/ /\ mayFail /\ (k > 0 \/ ~curOpen)
              /\ curOpen' = FALSE
              /\ write(content, synced[to.file])
           \/ /\ mayFail
              /\ curOpen' = TRUE
              /\ write(content, synced[to.file])
           \/ /\ curOpen' = TRUE
              /\ \E safe \in IF mayFail THEN {kept, to.off} ELSE {to.off} :
                    write(SubSeq(content, 1, to.off), safe)

HandleRollback(c, to, mayFail) ==
    /\ WriteFileFree
    /\ cursor' = to
    /\ \/ /\ c = to
          /\ UNCHANGED <<files, onDisk, synced, curOpen>>
       \/ \E k \in 0..(c.file - to.file) :
             /\ c # to
             /\ Deletable(c, k) \subseteq onDisk
             /\ \/ RollbackBlocked(c, to, k, mayFail)
                \/ RollbackTruncates(c, to, k, mayFail)
             /\ onDisk' = (onDisk \ Deletable(c, k)) \cup
                              (IF curOpen' THEN {to.file} ELSE {})
    /\ UNCHANGED <<openFiles, reading, cutLoose>>

\* scanBlockFiles and newBlockStore: the one position at the end of the last
\* of the files that are there from file 0 on.
ScanBlockFiles ==
    IF 0 \notin onDisk THEN {[file |-> 0, off |-> 0]}
    ELSE {p \in Locations : /\ \A n \in 0..p.file : n \in onDisk
                            /\ p.file + 1 \notin onDisk
                            /\ p.off = Len(files[p.file])}

-----------------------------------------------------------------------------
\* Reading.

\* The open file n becomes the most recently used one.
MoveToFront(s, n) ==
    LET i == CHOOSE k \in DOMAIN s : s[k] = n
    IN  [j \in DOMAIN s |-> IF j = 1 THEN n
                            ELSE IF j <= i THEN s[j - 1] ELSE s[j]]

\* Deliberate slip: a file that is being read from is closed.
BlockFileImpatient(r, n) ==
    /\ reading[r] = NotReading
    /\ ~(n = cursor.file /\ curOpen)
    /\ n \in onDisk
    /\ reading' = [reading EXCEPT ![r] = [file |-> n, handle |-> "read"]]
    /\ openFiles' = IF \E i \in DOMAIN openFiles : openFiles[i] = n
                    THEN MoveToFront(openFiles, n)
                    ELSE IF Len(openFiles) < MaxOpenFiles THEN <<n>> \o openFiles
                    ELSE <<n>> \o SubSeq(openFiles, 1, Len(openFiles) - 1)
    /\ UNCHANGED <<files, onDisk, synced, cursor, curOpen, cutLoose>>

\* blockFile and openFile: lock a handle of file n for reader r.  A file that
\* is neither the open write file nor open already is opened; when too many
\* are, the least recently used one is closed once nobody reads from it.
BlockFile(r, n) ==
    /\ reading[r] = NotReading
    /\ \/ /\ n = cursor.file /\ curOpen
          /\ reading' = [reading EXCEPT ![r] = [file |-> n, handle |-> "write"]]
          /\ UNCHANGED openFiles
       \/ /\ ~(n = cursor.file /\ curOpen)
          /\ reading' = [reading EXCEPT ![r] = [file |-> n, handle |-> "read"]]
          /\ \/ /\ \E i \in DOMAIN openFiles : openFiles[i] = n
                /\ openFiles' = MoveToFront(openFiles, n)
             \/ /\ \A i \in DOMAIN openFiles : openFiles[i] # n
                /\ n \in onDisk
                /\ IF Len(openFiles) < MaxOpenFiles
                   THEN openFiles' = <<n>> \o openFiles
                   ELSE /\ \A q \in Readers :
                               reading[q] # [file |-> openFiles[Len(openFiles)],
                                             handle |-> "read"]
                        /\ openFiles' = <<n>> \o
                               SubSeq(openFiles, 1, Len(openFiles) - 1)
    /\ UNCHANGED <<files, onDisk, synced, cursor, curOpen, cutLoose>>

\* The read is done and the handle unlocked.
DoneReading(r) ==
    /\ reading[r] # NotReading
    /\ reading' = [reading EXCEPT ![r] = NotReading]
    /\ UNCHANGED <<files, onDisk, synced, cursor, curOpen, openFiles, cutLoose>>

\* The process is gone and what it wrote is left.
FilesClosed ==
    /\ cursor' = [file |-> 0, off |-> 0]
    /\ curOpen' = FALSE
    /\ openFiles' = << >>
    /\ reading' = [r \in Readers |-> NotReading]
    /\ UNCHANGED <<files, onDisk, synced, cutLoose>>
=============================================================================

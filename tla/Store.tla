-------------------------------- MODULE Store -------------------------------
(***************************************************************************)
(* What the block database promises the code that writes to it             *)
(* (database.DB and database.Tx of database/interface.go): a write         *)
(* transaction changes a private copy, and either all of it becomes        *)
(* current or none of it; what a crash leaves is a state that was current  *)
(* at the end of some transaction, never a part of one.                    *)
(***************************************************************************)

CONSTANTS
    Keys, Blocks, \* metadata keys and blocks
    Items,        \* the values a key may have, including that of no value
    Empty,        \* the content of a new database
    NoTx          \* no write transaction is running

VARIABLES
    current,      \* what transactions that start now see
    durable,      \* what is left if the process dies
    working       \* what the running write transaction sees

storeVars == <<current, durable, working>>

StoreContents == [keys : [Keys -> Items], blocks : SUBSET Blocks]

StoreInit == current = Empty /\ durable = Empty /\ working = NoTx

Start == working = NoTx /\ working' = current /\ UNCHANGED <<current, durable>>

\* Blocks are only ever added.
Change ==
    /\ working # NoTx
    /\ working' \in StoreContents
    /\ working.blocks \subseteq working'.blocks
    /\ UNCHANGED <<current, durable>>

\* All of it, at once; it is durable at once or later.
CommitAll ==
    /\ working # NoTx
    /\ current' = working
    /\ durable' \in {durable, working}
    /\ working' = NoTx

\* None of it.
Discard == working # NoTx /\ working' = NoTx /\ UNCHANGED <<current, durable>>

\* What is current becomes durable.  A commit may do this first.
Persist == durable' = current /\ UNCHANGED <<current, working>>

\* A crash, or a close that could not write what was cached.
Lose == current' = durable /\ working' = NoTx /\ UNCHANGED durable

StoreNext == Start \/ Change \/ CommitAll \/ Discard \/ Persist \/ Lose

StoreSpec == StoreInit /\ [][StoreNext]_storeVars
=============================================================================

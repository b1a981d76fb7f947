------------------------------ MODULE MCFfldb -------------------------------
(***************************************************************************)
(* Small instances of the block database for TLC.  A behaviour belongs to  *)
(* one of several scenarios, each with the readers, keys and blocks that   *)
(* its transactions use: enough for one kind of interleaving at a time.    *)
(***************************************************************************)
EXTENDS FfldbProperties, TLC

CONSTANTS r1, r2, b1, b2, b3, k1, Scenarios

VARIABLES scenario, mishaps

AllReaders == {r1, r2}
AllBlocks  == {b1, b2, b3}
AllKeys    == {k1}

\* Roll over, rollback, crash and restart, with nobody reading.
Writes == [readers |-> 0, keys |-> {}, blocks |-> 3, mishaps |-> 2]
\* Metadata and blocks that must change together.
Mixed  == [readers |-> 0, keys |-> {k1}, blocks |-> 1, mishaps |-> 2]
\* Readers beside the write transaction.
Reads  == [readers |-> 1, keys |-> {}, blocks |-> 2, mishaps |-> 1]
\* Two readers that share the handles of two files.
Shared == [readers |-> 2, keys |-> {}, blocks |-> 3, mishaps |-> 0]

InScope ==
    /\ Cardinality({r \in Readers : stage[r] # "none"}) <= scenario.readers
    /\ \A k \in Keys \ scenario.keys : pending.keys[k] = None /\ k \notin pending.remove
    /\ Cardinality({b \in Blocks : Current[b] # None \/ b \in PendingBlocks}) <= scenario.blocks

MCInit == Init /\ scenario \in Scenarios /\ mishaps = 0
MCNext ==
    /\ UNCHANGED scenario
    /\ \/ Work /\ UNCHANGED mishaps
       \/ mishaps < scenario.mishaps /\ Mishap /\ mishaps' = mishaps + 1
    /\ InScope'
MCSpec == MCInit /\ [][MCNext]_<<vars, scenario, mishaps>>

AllScenarios == {Writes, Mixed, Reads, Shared}
Symmetry == Permutations(AllBlocks) \cup Permutations(AllReaders)
=============================================================================

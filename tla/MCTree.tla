------------------------------- MODULE MCTree -------------------------------
(***************************************************************************)
(* Small header trees for model checking.  A tree is given by its parent   *)
(* function; heights, cumulative work and ancestors follow from it, with   *)
(* one unit of work per block.                                             *)
(***************************************************************************)
EXTENDS Naturals, Sequences, FiniteSets

ParentsOf(edges, root, none) ==
    [b \in DOMAIN edges \cup {root} |-> IF b = root THEN none ELSE edges[b]]

AncestorsOf(parent, root) ==
    LET up[b \in DOMAIN parent] ==
            IF b = root THEN {root} ELSE up[parent[b]] \cup {b}
    IN  up

HeightsOf(parent, root) ==
    [b \in DOMAIN parent |-> Cardinality(AncestorsOf(parent, root)[b]) - 1]

\* The hash order given by the position in a sequence without repetitions.
RanksOf(order) ==
    [b \in {order[i] : i \in DOMAIN order} |->
        CHOOSE i \in DOMAIN order : order[i] = b]
=============================================================================

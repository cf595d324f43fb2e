-------------------------- MODULE MCOrganizations --------------------------
(***************************************************************************)
(* Organizations for TLC: four keys, two names, and files that build a     *)
(* tree, swap two siblings, turn a tree upside down and add an inactive    *)
(* hierarchy.                                                              *)
(***************************************************************************)
EXTENDS Organizations

CONSTANTS k1, k2, k3, k4, x, y

Org(name, parent, active) == [name |-> name, parent |-> parent, active |-> active]

Grown == [k \in {k1, k2, k3} |->
    CASE k = k1 -> Org(x, None, TRUE) [] k = k2 -> Org(x, k1, TRUE) [] k = k3 -> Org(y, k1, TRUE)]
Swapped == [k \in {k1, k2, k3} |->
    CASE k = k1 -> Org(x, None, TRUE) [] k = k2 -> Org(y, k1, TRUE) [] k = k3 -> Org(x, k1, TRUE)]
Inverted == [k \in {k1, k2} |->
    CASE k = k2 -> Org(x, None, TRUE) [] k = k1 -> Org(x, k2, TRUE)]
Dark == [k \in {k3, k4} |->
    CASE k = k3 -> Org(y, None, FALSE) [] k = k4 -> Org(y, k3, TRUE)]

SmallKeys == {k1, k2, k3, k4}
SmallNames == {x, y}
Files == {Grown, Swapped, Inverted, Dark}
=============================================================================

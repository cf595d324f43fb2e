------------------------ MODULE Organizations_proofs ------------------------
(***************************************************************************)
(* Proofs about Organizations, for any keys, names and files.              *)
(*                                                                         *)
(* Inv says that the tree is sound and, while an import runs, how far its  *)
(* rows have come: a row is as committed, parked, or as the document says. *)
(***************************************************************************)
EXTENDS Organizations, TLAPS

IsTree(recs) == DOMAIN recs \subseteq Key /\ recs \in [DOMAIN recs -> Row(Name)]

Rooted(recs) == \A k \in DOMAIN recs : recs[k].parent \in DOMAIN recs \cup {None}

Acyclic(recs) ==
    \A S \in SUBSET DOMAIN recs : S # {} => \E k \in S : recs[k].parent \notin S

\* No two siblings share a name, said of pairs.
Distinct(recs) ==
    \A j, k \in DOMAIN recs :
        (recs[j].parent = recs[k].parent /\ recs[j].name = recs[k].name) => j = k

Sound(recs) == IsTree(recs) /\ Rooted(recs) /\ Acyclic(recs) /\ Distinct(recs)

\* The keys that the import changes.
Changed == Updated(document, tree) \cup Added(document, tree)

IsParked(k) == rows[k].name = ParkedName(k) /\ rows[k].parent = None

RowsFollow ==
    \A k \in DOMAIN rows :
        /\ k \notin Changed \/ k \in todo.park => rows[k] = tree[k]
        /\ k \in todo.place \ todo.park => IsParked(k)
        /\ k \in Changed \ todo.place => rows[k] = document[k]

TodoTyped ==
    /\ todo = [park |-> todo.park, add |-> todo.add, place |-> todo.place]
    /\ todo.park \subseteq Updated(document, tree)
    /\ todo.add \subseteq Added(document, tree)
    /\ todo.place \subseteq Changed
    /\ todo.park # {} => todo.add = Added(document, tree)
    /\ todo.park # {} \/ todo.add # {} => todo.place = Changed

Running ==
    /\ document \in Document
    /\ PlanAccepts(document, tree)
    /\ \E t \in tokens : t.admin = applying /\ t.doc = document /\ t.base = tree
    /\ DOMAIN rows = DOMAIN tree \cup (Added(document, tree) \ todo.add)
    /\ rows = [k \in DOMAIN rows |-> rows[k]]
    /\ TodoTyped
    /\ RowsFollow

Inv ==
    /\ Sound(tree)
    /\ applying \in Admin \cup {None}
    /\ applying = None => todo = NoStatements
    /\ applying # None => Running

-----------------------------------------------------------------------------
(* Lineages *)

\* The lineage of a key holds the key and the parents of its members, and is
\* part of every set that does.
LEMMA LineageIsLeast ==
    ASSUME NEW recs, NEW k \in Key, IsTree(recs)
    PROVE  /\ k \in Lineage(recs, k)
           /\ Lineage(recs, k) \subseteq Key
           /\ \A x \in Lineage(recs, k) \cap DOMAIN recs :
                 recs[x].parent \in Lineage(recs, k) \cup {None}
           /\ \A S \in SUBSET Key :
                 (k \in S /\ \A x \in S \cap DOMAIN recs : recs[x].parent \in S \cup {None})
                     => Lineage(recs, k) \subseteq S
<1>1. \A x \in DOMAIN recs : recs[x].parent \in Key \cup {None}
    BY DEF IsTree, Row, Parent
<1>2. k \in Lineage(recs, k) /\ Lineage(recs, k) \subseteq Key
    BY DEF Lineage
<1>3. \A S \in SUBSET Key :
         (k \in S /\ \A x \in S \cap DOMAIN recs : recs[x].parent \in S \cup {None})
             => Lineage(recs, k) \subseteq S
    BY DEF Lineage
<1>4. ASSUME NEW x \in Lineage(recs, k) \cap DOMAIN recs, recs[x].parent # None
      PROVE  recs[x].parent \in Lineage(recs, k)
    <2>1. recs[x].parent \in Key
        BY <1>1, <1>4
    <2>2. ASSUME NEW S \in SUBSET Key, k \in S,
                 \A y \in S \cap DOMAIN recs : recs[y].parent \in S \cup {None}
          PROVE  recs[x].parent \in S
        <3>1. x \in S
            BY <1>3, <2>2
        <3> QED BY <3>1, <2>2, <1>4
    <2> QED BY <2>1, <2>2 DEF Lineage
<1> QED BY <1>2, <1>3, <1>4

\* A forest in which every key walks up to a root has no cycle and no orphan.
LEMMA GroundedIsAcyclic ==
    ASSUME NEW recs, IsTree(recs), \A k \in DOMAIN recs : Grounded(recs, k)
    PROVE  Rooted(recs) /\ Acyclic(recs)
<1>1. Rooted(recs)
    BY LineageIsLeast DEF Rooted, Grounded, IsTree
<1>2. ASSUME NEW S \in SUBSET DOMAIN recs, S # {}, \A k \in S : recs[k].parent \in S
      PROVE  FALSE
    <2>1. PICK k \in S : TRUE
        BY <1>2
    <2>2. S \in SUBSET Key /\ k \in Key
        BY <2>1 DEF IsTree
    <2>3. Lineage(recs, k) \subseteq S
        BY <2>1, <2>2, <1>2, LineageIsLeast
    <2>4. PICK a \in Lineage(recs, k) : recs[a].parent = None
        BY <2>1 DEF Grounded
    <2> QED BY <2>2, <2>3, <2>4, <1>2, OrganizationsAssumption
<1> QED BY <1>1, <1>2 DEF Acyclic

LEMMA DistinctSiblings ==
    ASSUME NEW recs
    PROVE  SiblingsDistinct(recs) <=> Distinct(recs)
BY DEF SiblingsDistinct, SiblingTaken, Distinct

LEMMA SoundTree == Sound(tree) => TreeSound
BY DistinctSiblings DEF Sound, TreeSound, Rooted, Acyclic

-----------------------------------------------------------------------------
(* One organization created or changed *)

LEMMA CreateKeepsSound ==
    ASSUME Sound(tree), NEW k \in Key, NEW n \in Name, NEW p \in Parent,
           CreateOrganization(k, n, p)
    PROVE  Sound(tree')
<1> DEFINE row == [name |-> n, parent |-> p, active |-> TRUE]
<1>1. /\ DOMAIN tree' = DOMAIN tree \cup {k} /\ k \notin DOMAIN tree
      /\ tree'[k] = row /\ \A j \in DOMAIN tree : tree'[j] = tree[j]
      /\ tree' = [j \in DOMAIN tree' |-> tree'[j]]
      /\ p # None => p \in DOMAIN tree
      /\ \A j \in DOMAIN tree : tree[j].parent # p \/ tree[j].name # n
    BY DEF CreateOrganization, Insertable, Overlay, Selectable, SiblingTaken
<1>2. IsTree(tree')
    <2>1. row \in Row(Name)
        BY DEF Row
    <2>2. \A j \in DOMAIN tree' : tree'[j] \in Row(Name)
        BY <1>1, <2>1 DEF Sound, IsTree
    <2> QED BY <1>1, <2>2 DEF Sound, IsTree
<1>3. Rooted(tree')
    BY <1>1 DEF Sound, Rooted
<1>4. Distinct(tree')
    BY <1>1 DEF Sound, Distinct
<1>5. ASSUME NEW S \in SUBSET DOMAIN tree', S # {}, \A j \in S : tree'[j].parent \in S
      PROVE  FALSE
    <2>1. \A j \in DOMAIN tree : tree[j].parent # k
        BY <1>1, OrganizationsAssumption DEF Sound, Rooted
    <2>2. p # k
        BY <1>1, OrganizationsAssumption
    <2>3. k \notin S \/ S \ {k} # {}
        BY <1>1, <1>5, <2>2
    <2>4. S \ {k} # {} /\ S \ {k} \subseteq DOMAIN tree
        BY <2>3, <1>1, <1>5
    <2>5. \A j \in S \ {k} : tree[j].parent \in S \ {k}
        BY <2>1, <2>4, <1>1, <1>5
    <2> QED BY <2>4, <2>5 DEF Sound, Acyclic
<1> QED BY <1>2, <1>3, <1>4, <1>5 DEF Sound, Acyclic

LEMMA UpdateKeepsSound ==
    ASSUME Sound(tree), NEW k \in Key, NEW row \in Row(Name), UpdateOrganization(k, row)
    PROVE  Sound(tree')
<1>1. CASE UNCHANGED tree
    BY <1>1
<1>2. CASE tree' = [tree EXCEPT ![k] = row]
    <2>1. /\ DOMAIN tree' = DOMAIN tree /\ k \in DOMAIN tree
          /\ tree'[k] = row /\ \A j \in DOMAIN tree \ {k} : tree'[j] = tree[j]
        BY <1>2 DEF UpdateOrganization
    <2>2. /\ MoveAllowed(k, row)
          /\ \A j \in DOMAIN tree \ {k} :
                tree[j].parent # row.parent \/ tree[j].name # row.name
        BY DEF UpdateOrganization, SiblingTaken
    <2>3. IsTree(tree')
        BY <1>2, <2>1 DEF Sound, IsTree
    <2>4. Rooted(tree')
        BY <2>1, <2>2 DEF Sound, Rooted, MoveAllowed
    <2>5. Distinct(tree')
        BY <2>1, <2>2 DEF Sound, Distinct
    <2>6. ASSUME NEW S \in SUBSET DOMAIN tree', S # {}, \A j \in S : tree'[j].parent \in S
          PROVE  FALSE
        <3>1. CASE k \notin S
            BY <3>1, <2>1, <2>6 DEF Sound, Acyclic
        <3>2. CASE k \in S
            <4>1. row.parent \in S /\ row.parent \in DOMAIN tree
                BY <3>2, <2>1, <2>6
            <4>2. row.parent # None /\ row.parent \in Key
                BY <4>1, OrganizationsAssumption DEF Sound, IsTree
            <4> DEFINE L == Lineage(tree, row.parent)
                       T == S \cap L
            <4>3. k \notin L /\ row.parent \in L
                BY <4>2, <2>2, LineageIsLeast DEF Sound, MoveAllowed
            <4>4. \A x \in T : tree[x].parent \in T
                <5> SUFFICES ASSUME NEW x \in T PROVE tree[x].parent \in T
                    OBVIOUS
                <5>1. x \in DOMAIN tree /\ x # k /\ tree[x].parent \in S
                    BY <4>3, <2>1, <2>6
                <5>2. tree[x].parent # None
                    BY <5>1, <2>1, <2>6, OrganizationsAssumption DEF Sound, IsTree
                <5> QED BY <5>1, <5>2, <4>2, LineageIsLeast DEF Sound
            <4>5. T # {} /\ T \in SUBSET DOMAIN tree
                BY <4>1, <4>3, <2>1
            <4> QED BY <4>4, <4>5 DEF Sound, Acyclic
        <3> QED BY <3>1, <3>2
    <2> QED BY <2>3, <2>4, <2>5, <2>6 DEF Sound, Acyclic
<1> QED BY <1>1, <1>2 DEF UpdateOrganization

-----------------------------------------------------------------------------
(* The import *)

LEMMA PlanIsSound ==
    ASSUME Sound(tree), NEW d \in Document, PlanAccepts(d, tree)
    PROVE  Sound(Overlay(d, tree))
<1> DEFINE final == Overlay(d, tree)
<1>1. DOMAIN d \subseteq Key /\ d \in [DOMAIN d -> Row(Name)]
    BY OrganizationsAssumption
<1>2. IsTree(final)
    BY <1>1 DEF Sound, IsTree, Overlay
<1>3. SiblingsDistinct(final) /\ \A k \in DOMAIN final : Grounded(final, k)
    BY DEF PlanAccepts
<1>4. Rooted(final) /\ Acyclic(final)
    BY <1>2, <1>3, GroundedIsAcyclic
<1> QED BY <1>2, <1>3, <1>4, DistinctSiblings DEF Sound

LEMMA ApplyStarts ==
    ASSUME Inv, NEW a \in Admin, NEW d \in Document, NEW t \in tokens, ApplyImport(a, d, t)
    PROVE  Inv'
<1>1. /\ applying' = a /\ document' = d /\ rows' = tree /\ tree' = tree /\ tokens' = tokens
      /\ todo' = [park |-> Updated(d, tree), add |-> Added(d, tree),
                  place |-> Updated(d, tree) \cup Added(d, tree)]
      /\ PlanAccepts(d, tree) /\ TokenAccepts(t, a, d)
    BY DEF ApplyImport
<1>2. Sound(tree)' /\ a # None
    BY <1>1, OrganizationsAssumption DEF Inv
<1>3. TodoTyped'
    BY <1>1 DEF TodoTyped, Changed, Updated, Added
<1>4. RowsFollow'
    BY <1>1 DEF RowsFollow, Changed, Updated, Added
<1>5. /\ DOMAIN rows' = DOMAIN tree' \cup (Added(document', tree') \ todo'.add)
      /\ rows' = [k \in DOMAIN rows' |-> rows'[k]]
    BY <1>1 DEF Inv, Sound, IsTree
<1>6. Running'
    BY <1>1, <1>3, <1>4, <1>5 DEF Running, TokenAccepts, Added
<1> QED BY <1>1, <1>2, <1>6 DEF Inv

\* No row statement meets another row of its name and parent.
LEMMA StatementsFit ==
    ASSUME Inv PROVE ImportMeetsNoConflict
<1>1. CASE applying = None
    BY <1>1 DEF Inv, ImportMeetsNoConflict, NoStatements
<1>2. CASE applying # None
    <2>1. Running /\ Sound(tree) /\ Sound(Overlay(document, tree))
        BY <1>2, PlanIsSound DEF Inv, Running
    <2>2. /\ DOMAIN document \subseteq Key /\ DOMAIN tree \subseteq Key
          /\ \A k \in DOMAIN document : document[k].name \in Name
          /\ \A k \in DOMAIN tree : tree[k].name \in Name
        BY <2>1, OrganizationsAssumption DEF Running, Sound, IsTree, Row
    <2>3. DOMAIN rows \subseteq Key /\ Changed \subseteq DOMAIN document
        BY <2>1, <2>2 DEF Running, Changed, Updated, Added
    <2>4. ASSUME NEW k \in DOMAIN rows
          PROVE  IsParked(k) \/ rows[k].name \in Name
        BY <2>1, <2>2, <2>3, <2>4 DEF Running, RowsFollow, TodoTyped, Changed, Updated, Added
    <2>5. \A j, k \in Key : ParkedName(j) = ParkedName(k) => j = k
        BY DEF ParkedName
    <2>6. ASSUME NEW k \in Key, NEW row, row.name = ParkedName(k)
          PROVE  ~ SiblingTaken(rows, k, row)
        BY <2>3, <2>4, <2>5, <2>6, OrganizationsAssumption DEF SiblingTaken, IsParked
    <2>7. \A k \in todo.park : ~ SiblingTaken(rows, k, Parked(k, rows[k]))
        <3> SUFFICES ASSUME NEW k \in todo.park
                     PROVE  ~ SiblingTaken(rows, k, Parked(k, rows[k]))
            OBVIOUS
        <3>1. k \in DOMAIN tree /\ k \in Key /\ rows[k] = tree[k] /\ rows[k] \in Row(Name)
            BY <2>1, <2>2 DEF Running, TodoTyped, RowsFollow, Updated, Sound, IsTree
        <3>2. Parked(k, rows[k]).name = ParkedName(k)
            BY <3>1 DEF Parked, Row
        <3> QED BY <3>1, <3>2, <2>6
    <2>8. \A k \in todo.add : ~ SiblingTaken(rows, k, Inserted(k))
        <3> SUFFICES ASSUME NEW k \in todo.add PROVE ~ SiblingTaken(rows, k, Inserted(k))
            OBVIOUS
        <3>1. k \in Key /\ document[k] \in Row(Name)
            BY <2>1, <2>2, OrganizationsAssumption DEF Running, TodoTyped, Added
        <3>2. Inserted(k).name = ParkedName(k)
            BY <3>1 DEF Inserted, Parked, Row
        <3> QED BY <3>1, <3>2, <2>6
    <2>9. ASSUME todo.park = {}, todo.add = {}, NEW k \in todo.place
          PROVE  ~ SiblingTaken(rows, k, document[k])
        <3> DEFINE final == Overlay(document, tree)
        <3>1. k \in DOMAIN document /\ k \in DOMAIN final /\ final[k] = document[k]
            BY <2>1, <2>3, <2>9 DEF Running, TodoTyped, Overlay
        <3>2. ASSUME NEW j \in DOMAIN rows
              PROVE  IsParked(j) \/ (j \in DOMAIN final /\ rows[j] = final[j])
            BY <2>1, <2>9, <3>2
               DEF Running, TodoTyped, RowsFollow, Overlay, Changed, Updated, Added
        <3>3. ASSUME NEW j \in DOMAIN rows \ {k}, IsParked(j)
              PROVE  rows[j].name # document[k].name
            BY <2>2, <2>3, <3>1, <3>3, OrganizationsAssumption DEF IsParked
        <3> QED BY <2>1, <3>1, <3>2, <3>3 DEF SiblingTaken, Sound, Distinct
    <2> QED BY <2>7, <2>8, <2>9 DEF ImportMeetsNoConflict
<1> QED BY <1>1, <1>2

\* What a row statement changes when no other row is in its way.
LEMMA Written ==
    ASSUME NEW k, NEW row, NEW left, ~ SiblingTaken(rows, k, row), Write(k, row, left)
    PROVE  /\ DOMAIN rows' = DOMAIN rows \cup {k}
           /\ rows'[k] = row /\ \A j \in DOMAIN rows \ {k} : rows'[j] = rows[j]
           /\ rows' = [j \in DOMAIN rows' |-> rows'[j]]
           /\ todo' = left /\ applying' = applying /\ document' = document
BY DEF Write, Overlay

LEMMA RowKeepsInv ==
    ASSUME Inv, NEW k \in Key, ParkRow(k) \/ AddRow(k) \/ PlaceRow(k)
    PROVE  Inv'
<1>1. applying # None /\ Running /\ ImportMeetsNoConflict
    BY StatementsFit DEF Inv, NoStatements, ParkRow, AddRow, PlaceRow
<1>2. UNCHANGED <<tree, tokens>>
    BY DEF ParkRow, AddRow, PlaceRow
<1> USE <1>1, <1>2
<1>3. CASE ParkRow(k)
    <2>1. /\ k \in todo.park /\ ~ SiblingTaken(rows, k, Parked(k, rows[k]))
          /\ Write(k, Parked(k, rows[k]), [todo EXCEPT !.park = @ \ {k}])
        BY <1>3 DEF ParkRow, ImportMeetsNoConflict
    <2>2. /\ DOMAIN rows' = DOMAIN rows \cup {k} /\ rows'[k] = Parked(k, rows[k])
          /\ \A j \in DOMAIN rows \ {k} : rows'[j] = rows[j]
          /\ rows' = [j \in DOMAIN rows' |-> rows'[j]]
          /\ todo' = [todo EXCEPT !.park = @ \ {k}]
          /\ applying' = applying /\ document' = document
        BY <2>1, Written
    <2>3. /\ todo'.park = todo.park \ {k} /\ todo'.add = todo.add /\ todo'.place = todo.place
          /\ todo' = [park |-> todo'.park, add |-> todo'.add, place |-> todo'.place]
        BY <2>2 DEF Running, TodoTyped
    <2>4. k \in DOMAIN rows /\ k \in todo.place /\ rows[k] \in Row(Name)
        BY <2>1 DEF Inv, Running, TodoTyped, RowsFollow, Changed, Updated, Sound, IsTree
    <2>5. IsParked(k)'
        BY <2>2, <2>4 DEF IsParked, Parked, Row
    <2>6. TodoTyped'
        BY <2>1, <2>2, <2>3 DEF Running, TodoTyped, Changed
    <2>7. RowsFollow'
        BY <2>1, <2>2, <2>3, <2>4, <2>5 DEF Running, TodoTyped, RowsFollow, Changed, IsParked
    <2>8. Running'
        BY <2>2, <2>3, <2>4, <2>6, <2>7 DEF Running
    <2> QED BY <2>2, <2>8 DEF Inv
<1>4. CASE AddRow(k)
    <2>1. /\ todo.park = {} /\ k \in todo.add /\ ~ SiblingTaken(rows, k, Inserted(k))
          /\ Write(k, Inserted(k), [todo EXCEPT !.add = @ \ {k}])
        BY <1>4 DEF AddRow, ImportMeetsNoConflict
    <2>2. /\ DOMAIN rows' = DOMAIN rows \cup {k} /\ rows'[k] = Inserted(k)
          /\ \A j \in DOMAIN rows \ {k} : rows'[j] = rows[j]
          /\ rows' = [j \in DOMAIN rows' |-> rows'[j]]
          /\ todo' = [todo EXCEPT !.add = @ \ {k}]
          /\ applying' = applying /\ document' = document
        BY <2>1 DEF Write, Overlay
    <2>3. /\ todo'.park = {} /\ todo'.add = todo.add \ {k} /\ todo'.place = todo.place
          /\ todo' = [park |-> todo'.park, add |-> todo'.add, place |-> todo'.place]
        BY <2>1, <2>2 DEF Running, TodoTyped
    <2>4. k \in Added(document, tree) /\ k \in todo.place /\ document[k] \in Row(Name)
        BY <2>1, OrganizationsAssumption DEF Running, TodoTyped, Changed, Added
    <2>5. IsParked(k)'
        BY <2>2, <2>4 DEF IsParked, Inserted, Parked, Row
    <2>6. TodoTyped'
        BY <2>1, <2>2, <2>3 DEF Running, TodoTyped, Changed
    <2>7. RowsFollow'
        BY <2>1, <2>2, <2>3, <2>4, <2>5 DEF Running, TodoTyped, RowsFollow, Changed, IsParked
    <2>8. DOMAIN rows' = DOMAIN tree \cup (Added(document, tree) \ todo'.add)
        BY <2>1, <2>2, <2>3, <2>4 DEF Running
    <2>9. Running'
        BY <2>2, <2>6, <2>7, <2>8 DEF Running
    <2> QED BY <2>2, <2>9 DEF Inv
<1>5. CASE PlaceRow(k)
    <2>1. /\ todo.park = {} /\ todo.add = {} /\ k \in todo.place
          /\ ~ SiblingTaken(rows, k, document[k])
          /\ Write(k, document[k], [todo EXCEPT !.place = @ \ {k}])
        BY <1>5 DEF PlaceRow, ImportMeetsNoConflict
    <2>2. /\ DOMAIN rows' = DOMAIN rows \cup {k} /\ rows'[k] = document[k]
          /\ \A j \in DOMAIN rows \ {k} : rows'[j] = rows[j]
          /\ rows' = [j \in DOMAIN rows' |-> rows'[j]]
          /\ todo' = [todo EXCEPT !.place = @ \ {k}]
          /\ applying' = applying /\ document' = document
        BY <2>1, Written
    <2>3. /\ todo'.park = {} /\ todo'.add = {} /\ todo'.place = todo.place \ {k}
          /\ todo' = [park |-> todo'.park, add |-> todo'.add, place |-> todo'.place]
        BY <2>1, <2>2 DEF Running, TodoTyped
    <2>4. k \in DOMAIN rows /\ k \in Changed
        BY <2>1 DEF Running, TodoTyped, Changed, Updated, Added
    <2>6. TodoTyped'
        BY <2>1, <2>2, <2>3 DEF Running, TodoTyped, Changed
    <2>7. RowsFollow'
        BY <2>1, <2>2, <2>3, <2>4 DEF Running, TodoTyped, RowsFollow, Changed, IsParked
    <2>8. Running'
        BY <2>1, <2>2, <2>3, <2>4, <2>6, <2>7 DEF Running
    <2> QED BY <2>2, <2>8 DEF Inv
<1> QED BY <1>3, <1>4, <1>5

\* At the commit the rows are the tree that the plan was made for.
LEMMA CommitIsPlan ==
    ASSUME Inv, CommitImport
    PROVE  Running /\ tree' = Overlay(document, tree)
<1>1. Running /\ todo = NoStatements /\ tree' = rows /\ Sound(tree)
    BY DEF Inv, CommitImport
<1>2. DOMAIN rows = DOMAIN document \cup DOMAIN tree
    BY <1>1 DEF Running, TodoTyped, NoStatements, Added
<1>3. \A k \in DOMAIN rows : rows[k] = Overlay(document, tree)[k]
    BY <1>1, <1>2 DEF Running, RowsFollow, NoStatements, Changed, Updated, Added, Overlay
<1> QED BY <1>1, <1>2, <1>3 DEF Running, Overlay

-----------------------------------------------------------------------------
(* The invariant *)

LEMMA InitInv == Init => Inv
<1> SUFFICES ASSUME Init PROVE Inv
    OBVIOUS
<1>1. /\ DOMAIN tree = {Bootstrap} /\ applying = None /\ todo = NoStatements
      /\ tree[Bootstrap] = [name |-> BootstrapName, parent |-> None, active |-> TRUE]
      /\ tree = [k \in {Bootstrap} |-> tree[Bootstrap]]
    BY DEF Init
<1>2. IsTree(tree)
    BY <1>1, OrganizationsAssumption DEF IsTree, Row, Parent
<1>3. Rooted(tree) /\ Distinct(tree)
    BY <1>1 DEF Rooted, Distinct
<1>4. Acyclic(tree)
    <2> SUFFICES ASSUME NEW S \in SUBSET DOMAIN tree, S # {}
                 PROVE  \E k \in S : tree[k].parent \notin S
        BY DEF Acyclic
    <2> QED BY <1>1, OrganizationsAssumption
<1> QED BY <1>1, <1>2, <1>3, <1>4 DEF Inv, Sound

LEMMA NextInv == Inv /\ [Next]_vars => Inv'
<1> SUFFICES ASSUME Inv, [Next]_vars PROVE Inv'
    OBVIOUS
<1>1. ASSUME NEW k \in Key, NEW n \in Name, NEW p \in Parent, CreateOrganization(k, n, p)
      PROVE  Inv'
    BY <1>1, CreateKeepsSound DEF Inv, CreateOrganization, idle
<1>2. ASSUME NEW k \in Key, NEW row \in Row(Name), UpdateOrganization(k, row)
      PROVE  Inv'
    BY <1>2, UpdateKeepsSound DEF Inv, UpdateOrganization, idle
<1>3. ASSUME NEW a \in Admin, NEW d \in Document, PreviewImport(a, d)
      PROVE  Inv'
    <2>1. UNCHANGED <<tree, applying, document, rows, todo>> /\ tokens \subseteq tokens'
        BY <1>3 DEF PreviewImport, idle
    <2>2. TodoTyped' = TodoTyped /\ RowsFollow' = RowsFollow
        BY <2>1 DEF TodoTyped, RowsFollow, Changed, IsParked
    <2>3. Running => Running'
        BY <2>1, <2>2 DEF Running
    <2> QED BY <2>1, <2>3 DEF Inv
<1>4. ASSUME NEW a \in Admin, NEW d \in Document, NEW t \in tokens, ApplyImport(a, d, t)
      PROVE  Inv'
    BY <1>4, ApplyStarts
<1>5. ASSUME NEW k \in Key, ParkRow(k) \/ AddRow(k) \/ PlaceRow(k)
      PROVE  Inv'
    BY <1>5, RowKeepsInv
<1>6. CASE CommitImport
    <2>1. Running /\ tree' = Overlay(document, tree)
        BY <1>6, CommitIsPlan
    <2>2. Sound(tree)'
        BY <2>1, PlanIsSound DEF Inv, Running
    <2> QED BY <1>6, <2>2 DEF Inv, CommitImport, EndImport
<1>7. CASE FailImport
    BY <1>7 DEF Inv, FailImport, EndImport
<1>8. CASE UNCHANGED vars
    <2>1. UNCHANGED <<tree, tokens, applying, document, rows, todo>>
        BY <1>8 DEF vars
    <2>2. TodoTyped' = TodoTyped /\ RowsFollow' = RowsFollow
        BY <2>1 DEF TodoTyped, RowsFollow, Changed, IsParked
    <2>3. Running' = Running
        BY <2>1, <2>2 DEF Running
    <2> QED BY <2>1, <2>3 DEF Inv
<1> QED BY <1>1, <1>2, <1>3, <1>4, <1>5, <1>6, <1>7, <1>8 DEF Next

LEMMA InvHolds == Spec => []Inv
BY InitInv, NextInv, PTL DEF Spec

\* The organizations stay a forest with distinct names among siblings, through
\* creations, moves and imports in any order.
THEOREM TreeSoundHolds == Spec => []TreeSound
<1>1. Inv => TreeSound
    BY SoundTree DEF Inv
<1> QED BY <1>1, InvHolds, PTL

\* No row statement of an import that the plan accepted meets the unique index.
THEOREM ImportMeetsNoConflictHolds == Spec => []ImportMeetsNoConflict
BY StatementsFit, InvHolds, PTL

\* An import does to the tree what its preview showed.
THEOREM AppliesWhatWasShownHolds == Spec => AppliesWhatWasShown
<1> DEFINE Shown == applying # None /\ tree' # tree =>
                \E t \in tokens : t.admin = applying /\ tree' = Overlay(t.doc, t.base)
<1>1. Inv /\ [Next]_vars => [Shown]_vars
    <2> SUFFICES ASSUME Inv, [Next]_vars, applying # None, tree' # tree
                 PROVE  \E t \in tokens :
                            t.admin = applying /\ tree' = Overlay(t.doc, t.base)
        OBVIOUS
    <2>1. CommitImport
        BY DEF Next, CreateOrganization, UpdateOrganization, PreviewImport, ApplyImport,
               ParkRow, AddRow, PlaceRow, FailImport, vars
    <2>2. Running /\ tree' = Overlay(document, tree)
        BY <2>1, CommitIsPlan
    <2> QED BY <2>2 DEF Running
<1> QED BY <1>1, InvHolds, PTL DEF Spec, AppliesWhatWasShown

\* The step condition of MovesLandActive, for one key.
LandsActive(k) ==
    \/ k \in DOMAIN tree
       /\ tree'[k].parent = tree[k].parent
       /\ (tree'[k].active => tree[k].active)
    \/ \A a \in Lineage(tree', k) \ {k} :
          tree'[a].active \/ (k \notin DOMAIN tree /\ a \notin DOMAIN tree)

\* One row is written over and its parent was selectable: what the row then
\* descends from is what that parent descended from.
LEMMA NewParentIsActive ==
    ASSUME Sound(tree), NEW k \in Key, Sound(tree)',
           k \in DOMAIN tree', \A j \in DOMAIN tree' \ {k} : j \in DOMAIN tree /\ tree'[j] = tree[j],
           tree'[k].parent # None =>
              Selectable(tree, tree'[k].parent) /\ k \notin Lineage(tree, tree'[k].parent)
    PROVE  \A a \in Lineage(tree', k) \ {k} : tree'[a].active
<1> DEFINE p == tree'[k].parent
<1>1. CASE p = None
    <2>1. {k} \in SUBSET Key /\ \A x \in {k} \cap DOMAIN tree' : tree'[x].parent \in {k} \cup {None}
        BY <1>1
    <2>2. Lineage(tree', k) \subseteq {k}
        BY <2>1, LineageIsLeast DEF Sound
    <2> QED BY <2>2
<1>2. CASE p # None
    <2> DEFINE L == Lineage(tree, p)
    <2>1. p \in Key
        BY <1>2 DEF Sound, IsTree, Rooted
    <2>2. /\ p \in L /\ L \subseteq Key
          /\ \A x \in L \cap DOMAIN tree : tree[x].parent \in L \cup {None}
        BY <2>1, LineageIsLeast DEF Sound
    <2>3. \A x \in (L \cup {k}) \cap DOMAIN tree' : tree'[x].parent \in (L \cup {k}) \cup {None}
        BY <2>2
    <2>4. Lineage(tree', k) \subseteq L \cup {k}
        <3> DEFINE S == L \cup {k}
        <3>1. S \in SUBSET Key /\ k \in S
            BY <2>2
        <3>2. \A x \in S \cap DOMAIN tree' : tree'[x].parent \in S \cup {None}
            BY <2>3
        <3>3. IsTree(tree')
            BY DEF Sound
        <3>4. Lineage(tree', k) \subseteq S
            <4> HIDE DEF S
            <4> QED BY <3>1, <3>2, <3>3, LineageIsLeast
        <3> QED BY <3>4
    <2>5. Lineage(tree', k) \subseteq DOMAIN tree'
        <3> DEFINE D == DOMAIN tree'
        <3>1. D \in SUBSET Key /\ \A x \in D \cap DOMAIN tree' : tree'[x].parent \in D \cup {None}
            BY DEF Sound, IsTree, Rooted
        <3> QED BY <3>1, LineageIsLeast DEF Sound
    <2>6. \A a \in L : tree[a].active
        BY <1>2 DEF Selectable
    <2> QED BY <2>4, <2>5, <2>6
<1> QED BY <1>1, <1>2

\* What is moved, reactivated or new comes to stand below active organizations.
THEOREM MovesLandActiveHolds == Spec => MovesLandActive
<1>1. Inv /\ Inv' /\ [Next]_vars => [\A k \in DOMAIN tree' : LandsActive(k)]_tree
    <2> SUFFICES ASSUME Inv, Inv', [Next]_vars, tree' # tree, NEW k \in DOMAIN tree'
                 PROVE  LandsActive(k)
        OBVIOUS
    <2>1. Sound(tree) /\ Sound(tree)'
        BY DEF Inv
    <2>2. ASSUME NEW j \in Key, NEW n \in Name, NEW p \in Parent, CreateOrganization(j, n, p)
          PROVE  LandsActive(k)
        <3>1. /\ DOMAIN tree' = DOMAIN tree \cup {j} /\ j \notin DOMAIN tree
              /\ tree'[j].parent = p /\ \A i \in DOMAIN tree : tree'[i] = tree[i]
              /\ p # None => Selectable(tree, p)
            BY <2>2 DEF CreateOrganization, Insertable, Overlay
        <3>2. CASE k # j
            BY <3>1, <3>2 DEF LandsActive
        <3>3. CASE k = j
            <4>1. p # None => Lineage(tree, p) \subseteq DOMAIN tree
                <5> SUFFICES ASSUME p # None PROVE Lineage(tree, p) \subseteq DOMAIN tree
                    OBVIOUS
                <5> DEFINE D == DOMAIN tree
                <5>1. /\ p \in Key /\ p \in D /\ D \in SUBSET Key
                      /\ \A x \in D \cap DOMAIN tree : tree[x].parent \in D \cup {None}
                    BY <2>1, <3>1 DEF Sound, IsTree, Rooted, Selectable
                <5> QED BY <5>1, <2>1, LineageIsLeast DEF Sound
            <4>2. \A a \in Lineage(tree', j) \ {j} : tree'[a].active
                BY <2>1, <3>1, <4>1, NewParentIsActive
            <4> QED BY <3>3, <4>2 DEF LandsActive
        <3> QED BY <3>2, <3>3
    <2>3. ASSUME NEW j \in Key, NEW row \in Row(Name), UpdateOrganization(j, row)
          PROVE  LandsActive(k)
        <3>1. /\ DOMAIN tree' = DOMAIN tree /\ j \in DOMAIN tree /\ MoveAllowed(j, row)
              /\ tree'[j] = row /\ \A i \in DOMAIN tree \ {j} : tree'[i] = tree[i]
            BY <2>3, <2>1 DEF UpdateOrganization, Sound, IsTree
        <3>2. CASE k # j
            BY <3>1, <3>2 DEF LandsActive
        <3>3. CASE k = j /\ row.parent = tree[j].parent /\ (row.active => tree[j].active)
            BY <3>1, <3>3 DEF LandsActive
        <3>4. CASE k = j /\ ~ (row.parent = tree[j].parent /\ (row.active => tree[j].active))
            <4>1. row.parent # None =>
                     Selectable(tree, row.parent) /\ j \notin Lineage(tree, row.parent)
                BY <3>1, <3>4 DEF MoveAllowed
            <4>2. \A a \in Lineage(tree', j) \ {j} : tree'[a].active
                BY <2>1, <3>1, <4>1, NewParentIsActive
            <4> QED BY <3>4, <4>2 DEF LandsActive
        <3> QED BY <3>2, <3>3, <3>4
    <2>4. CASE CommitImport
        <3>1. Running /\ tree' = Overlay(document, tree)
            BY <2>4, CommitIsPlan
        <3>2. CASE k \notin DOMAIN document
            BY <3>1, <3>2 DEF Overlay, LandsActive
        <3>3. CASE k \in DOMAIN document /\ NeedsActiveParent(document, tree, k)
            <4>1. ParentsActive(document, tree, k)
                BY <3>1, <3>3 DEF Running, PlanAccepts
            <4> QED BY <3>1, <4>1 DEF ParentsActive, LandsActive
        <3>4. CASE k \in DOMAIN document /\ ~ NeedsActiveParent(document, tree, k)
            BY <3>1, <3>4 DEF NeedsActiveParent, Overlay, LandsActive
        <3> QED BY <3>2, <3>3, <3>4
    <2> QED BY <2>2, <2>3, <2>4
            DEF Next, PreviewImport, ApplyImport, ParkRow, AddRow, PlaceRow, FailImport, vars
<1>2. [\A k \in DOMAIN tree' : LandsActive(k)]_tree
         => [ \A k \in DOMAIN tree' :
                \/ k \in DOMAIN tree
                   /\ tree'[k].parent = tree[k].parent
                   /\ (tree'[k].active => tree[k].active)
                \/ \A a \in Lineage(tree', k) \ {k} :
                      tree'[a].active \/ (k \notin DOMAIN tree /\ a \notin DOMAIN tree) ]_tree
    BY DEF LandsActive
<1> QED BY <1>1, <1>2, InvHolds, PTL DEF Spec, MovesLandActive
=============================================================================

--------------------------- MODULE Organizations ---------------------------
(***************************************************************************)
(* The organization tree of app/services/administration.py and its import  *)
(* from a JSON document, app/services/organization_transfer.py.            *)
(*                                                                         *)
(* Administrators create and change organizations, each in one transaction *)
(* under the write lock.  An import is previewed, which hands out a token  *)
(* bound to the document and to the tree it was compared with, and applied *)
(* later in one transaction that writes row after row under the unique     *)
(* index on sibling names.  Others see the tree as last committed.         *)
(*                                                                         *)
(* An organization is known by its key.  Descriptions are left out.        *)
(***************************************************************************)
EXTENDS Naturals, FiniteSets

CONSTANTS
    Key, Name, None,
    Bootstrap, BootstrapName,   \* the organization that bootstrap creates
    Admin,              \* system administrators, each in one session
    Document,           \* the files that may be imported
    MaxDepth, MaxOrganizations,
    MaxChanges,         \* bound: creations and updates
    MaxTokens           \* bound: previews

Parent == Key \cup {None}
Row(names) == [name : names, parent : Parent, active : BOOLEAN]
ParkedName(k) == <<"__organization_import_", k>>

ASSUME OrganizationsAssumption ==
    /\ Bootstrap \in Key /\ BootstrapName \in Name /\ None \notin Key /\ None \notin Admin
    /\ \A k \in Key : ParkedName(k) \notin Name
    /\ \A d \in Document :
          /\ DOMAIN d \subseteq Key
          /\ d \in [DOMAIN d -> Row(Name)]
          \* nesting: a child is inside its parent, and there is an outermost one
          /\ \A S \in SUBSET DOMAIN d :
                S # {} => \E k \in S : d[k].parent \notin S
          /\ \A k \in DOMAIN d : d[k].parent \in DOMAIN d \cup {None}

VARIABLES
    tree,       \* the committed rows, a function on the existing keys
    tokens,     \* preview tokens handed out, and the preview each stands for
    applying,   \* the administrator whose import runs, None when none does
    document,   \* what that import applies
    rows,       \* the rows as that transaction sees them
    todo,       \* the row statements it has still to send
    changes     \* counts creations and updates

vars == <<tree, tokens, applying, document, rows, todo, changes>>
idle == <<applying, document, rows, todo>>

Nothing == <<>>
NoStatements == [park |-> {}, add |-> {}, place |-> {}]

\* The key with its ancestors: the least set that holds it and the parents of
\* its members.
Lineage(recs, k) ==
    {a \in Key : \A S \in SUBSET Key :
        (k \in S /\ \A x \in S \cap DOMAIN recs : recs[x].parent \in S \cup {None})
            => a \in S}

Depth(recs, k) == Cardinality(Lineage(recs, k))

\* Walking up from k ends at a root.
Grounded(recs, k) ==
    /\ Lineage(recs, k) \subseteq DOMAIN recs
    /\ \E a \in Lineage(recs, k) : recs[a].parent = None

\* May be chosen as a parent: active, and so are its ancestors.
Selectable(recs, k) ==
    k \in DOMAIN recs /\ \A a \in Lineage(recs, k) : recs[a].active

SiblingTaken(recs, k, row) ==
    \E j \in DOMAIN recs \ {k} :
        recs[j].parent = row.parent /\ recs[j].name = row.name

SiblingsDistinct(recs) == \A k \in DOMAIN recs : ~ SiblingTaken(recs, k, recs[k])

\* existing | {record.key: record for record in imported}
Overlay(new, old) ==
    [k \in DOMAIN new \cup DOMAIN old |-> IF k \in DOMAIN new THEN new[k] ELSE old[k]]

Init ==
    /\ tree = [k \in {Bootstrap} |->
                  [name |-> BootstrapName, parent |-> None, active |-> TRUE]]
    /\ tokens = {}
    /\ applying = None /\ document = Nothing /\ rows = Nothing /\ todo = NoStatements
    /\ changes = 0

-----------------------------------------------------------------------------
(* administration.py *)

Insertable(k, row) ==
    /\ k \notin DOMAIN tree
    /\ row.parent # None => Selectable(tree, row.parent)
    /\ ~ SiblingTaken(tree, k, row)

CreateOrganization(k, n, p) ==
    LET row == [name |-> n, parent |-> p, active |-> TRUE] IN
    /\ applying = None          \* lock_security_write
    /\ changes < MaxChanges
    /\ Insertable(k, row)
    /\ tree' = Overlay([j \in {k} |-> row], tree)
    /\ changes' = changes + 1
    /\ UNCHANGED <<tokens, idle>>

MoveAllowedAnywhere(k, row) ==   \* mutant: no look at the ancestors
    row.parent # None =>
        /\ row.parent \in DOMAIN tree
        /\ (row.parent # tree[k].parent \/ (~ tree[k].active /\ row.active))
              => Selectable(tree, row.parent)

MoveAllowed(k, row) ==
    row.parent # None =>
        /\ row.parent \in DOMAIN tree
        /\ k \notin Lineage(tree, row.parent)
        /\ (row.parent # tree[k].parent \/ (~ tree[k].active /\ row.active))
              => Selectable(tree, row.parent)

UpdateOrganization(k, row) ==
    /\ applying = None
    /\ k \in DOMAIN tree
    /\ MoveAllowed(k, row)
    /\ ~ SiblingTaken(tree, k, row)
    /\ \/ row = tree[k] /\ UNCHANGED <<tree, changes>>
       \/ /\ row # tree[k] /\ changes < MaxChanges
          /\ tree' = [tree EXCEPT ![k] = row]
          /\ changes' = changes + 1
    /\ UNCHANGED <<tokens, idle>>

-----------------------------------------------------------------------------
(* organization_transfer.py *)

\* parse_organization_document, for a document of nested organizations with
\* one entry for each key.
ParseAccepts(d) ==
    /\ Cardinality(DOMAIN d) <= MaxOrganizations
    /\ \A k \in DOMAIN d : Depth(d, k) <= MaxDepth
    /\ SiblingsDistinct(d)

NeedsActiveParentWhenMoved(d, old, k) ==   \* mutant: reactivation not looked at
    k \notin DOMAIN old \/ old[k].parent # d[k].parent

NeedsActiveParent(d, old, k) ==
    \/ k \notin DOMAIN old
    \/ old[k].parent # d[k].parent
    \/ ~ old[k].active /\ d[k].active

\* A new organization may be put under new inactive ones.
ParentsActive(d, old, k) ==
    LET final == Overlay(d, old) IN
    \A a \in Lineage(final, k) \ {k} :
        final[a].active \/ (k \notin DOMAIN old /\ a \notin DOMAIN old)

\* _plan_import finds no error.
PlanAccepts(d, old) ==
    LET final == Overlay(d, old) IN
    /\ SiblingsDistinct(final)
    /\ \A k \in DOMAIN final : Grounded(final, k)
    /\ \A k \in DOMAIN d : NeedsActiveParent(d, old, k) => ParentsActive(d, old, k)

Added(d, old) == DOMAIN d \ DOMAIN old
Updated(d, old) == {k \in DOMAIN d \cap DOMAIN old : d[k] # old[k]}

PreviewImport(a, d) ==
    LET token == [admin |-> a, doc |-> d, base |-> tree] IN
    /\ ParseAccepts(d)
    /\ PlanAccepts(d, tree)
    /\ token \in tokens \/ Cardinality(tokens) < MaxTokens
    /\ tokens' = tokens \cup {token}
    /\ UNCHANGED <<tree, idle, changes>>

TokenAcceptsAnyTree(t, a, d) ==   \* mutant: the state digest is left out
    t.admin = a /\ t.doc = d

TokenAccepts(t, a, d) == t.admin = a /\ t.doc = d /\ t.base = tree

ApplyImport(a, d, t) ==
    /\ applying = None
    /\ ParseAccepts(d)
    /\ PlanAccepts(d, tree)
    /\ TokenAccepts(t, a, d)
    /\ applying' = a /\ document' = d /\ rows' = tree
    /\ todo' = [park |-> Updated(d, tree), add |-> Added(d, tree),
                place |-> Updated(d, tree) \cup Added(d, tree)]
    /\ UNCHANGED <<tree, tokens, changes>>

ParkedAsNamed(k, row) ==   \* mutant: rows are uprooted but keep their names
    [row EXCEPT !.parent = None]

Parked(k, row) == [row EXCEPT !.name = ParkedName(k), !.parent = None]

Inserted(k) == [Parked(k, document[k]) EXCEPT !.active = TRUE]

\* One row statement; the unique index on sibling names rejects it and with it
\* the whole import, or the row is as written.
Write(k, row, left) ==
    IF SiblingTaken(rows, k, row)
    THEN applying' = None /\ document' = Nothing /\ rows' = Nothing /\ todo' = NoStatements
    ELSE /\ rows' = Overlay([j \in {k} |-> row], rows)
         /\ todo' = left
         /\ UNCHANGED <<applying, document>>

ParkRow(k) ==
    /\ k \in todo.park
    /\ Write(k, Parked(k, rows[k]), [todo EXCEPT !.park = @ \ {k}])
    /\ UNCHANGED <<tree, tokens, changes>>

AddRow(k) ==
    /\ todo.park = {} /\ k \in todo.add
    /\ Write(k, Inserted(k), [todo EXCEPT !.add = @ \ {k}])
    /\ UNCHANGED <<tree, tokens, changes>>

PlaceRow(k) ==
    /\ todo.park = {} /\ todo.add = {} /\ k \in todo.place
    /\ Write(k, document[k], [todo EXCEPT !.place = @ \ {k}])
    /\ UNCHANGED <<tree, tokens, changes>>

EndImport ==
    applying' = None /\ document' = Nothing /\ rows' = Nothing /\ todo' = NoStatements

CommitImport ==
    /\ applying # None /\ todo = NoStatements
    /\ tree' = rows
    /\ EndImport
    /\ UNCHANGED <<tokens, changes>>

\* The process dies or a statement fails for another reason: rolled back.
FailImport ==
    /\ applying # None
    /\ EndImport
    /\ UNCHANGED <<tree, tokens, changes>>

Next ==
    \/ \E k \in Key, n \in Name, p \in Parent : CreateOrganization(k, n, p)
    \/ \E k \in Key, row \in Row(Name) : UpdateOrganization(k, row)
    \/ \E a \in Admin, d \in Document : PreviewImport(a, d)
    \/ \E a \in Admin, d \in Document, t \in tokens : ApplyImport(a, d, t)
    \/ \E k \in Key : ParkRow(k) \/ AddRow(k) \/ PlaceRow(k)
    \/ CommitImport
    \/ FailImport

Spec == Init /\ [][Next]_vars

-----------------------------------------------------------------------------
(* Properties *)

\* The organizations are a forest with different names among siblings: no
\* sequence of moves, of imports and of moves between preview and import makes
\* a cycle, an orphan or two siblings of one name.
TreeSound ==
    /\ \A k \in DOMAIN tree : tree[k].parent \in DOMAIN tree \cup {None}
    /\ \A S \in SUBSET DOMAIN tree : S # {} => \E k \in S : tree[k].parent \notin S
    /\ SiblingsDistinct(tree)

\* What the plan accepts, the rows take one by one: names are parked so that no
\* statement of an import meets the unique index, whichever order it sends them
\* in, even when organizations swap names or places.
ImportMeetsNoConflict ==
    /\ \A k \in todo.park : ~ SiblingTaken(rows, k, Parked(k, rows[k]))
    /\ todo.park = {} => \A k \in todo.add : ~ SiblingTaken(rows, k, Inserted(k))
    /\ todo.park = {} /\ todo.add = {} =>
          \A k \in todo.place : ~ SiblingTaken(rows, k, document[k])

\* An organization that exists and is moved or reactivated ends below active
\* ones only; a new one has no inactive ancestor that existed before.
MovesLandActive ==
    [][ \A k \in DOMAIN tree' :
          \/ k \in DOMAIN tree
             /\ tree'[k].parent = tree[k].parent
             /\ (tree'[k].active => tree[k].active)
          \/ \A a \in Lineage(tree', k) \ {k} :
                tree'[a].active \/ (k \notin DOMAIN tree /\ a \notin DOMAIN tree)
      ]_tree

\* An import changes the tree to exactly what its preview showed to the same
\* administrator, whatever happened between the two.
AppliesWhatWasShown ==
    [][ applying # None /\ tree' # tree =>
          \E t \in tokens : t.admin = applying /\ tree' = Overlay(t.doc, t.base) ]_vars
=============================================================================
